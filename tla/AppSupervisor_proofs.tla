----------------------- MODULE AppSupervisor_proofs -----------------------
(* Proofs about AppSupervisor, for any callers, lifecycles and requests.     *)
EXTENDS AppSupervisor, TLAPS

(* A wake is held only by a task in a select!: it leaves with the branch.    *)
WokenInSelect == \A l \in Lives : woken[l] => InSelect(l)

(* While the flag is up and no start overtook a stop, no stop is half done.  *)
NoHalfStop == (running /\ ~crossed) => \A c \in Callers : ~Stopping(c)

(* Nonces are never handed out twice, so a stopped one is not the current.   *)
StoppedIsPast ==
  /\ nonce <= fresh /\ \A n \in stopped : n <= fresh
  /\ nonce # NoNonce => nonce \notin stopped

-----------------------------------------------------------------------------

(* Leaving a connection: the place moves, the wake and the line are dropped. *)
LEMMA LeftTyped ==
  ASSUME TypeOK, NEW l \in Lives, NEW p \in Places
  PROVE  /\ [at EXCEPT ![l] = p] \in [Lives -> Places]
         /\ [woken EXCEPT ![l] = FALSE] \in [Lives -> BOOLEAN]
         /\ [peer EXCEPT ![l] = NoToken] \in [Lives -> Tokens]
         /\ [line EXCEPT ![l] = {}] \in [Lives -> SUBSET Requests]
  BY BoundsAssumption DEF BoundsAssumption, TypeOK, Tokens, NoToken

(* Every step preserves the types. *)
LEMMA TypeStep == TypeOK /\ [Next]_vars => TypeOK'
<1> SUFFICES ASSUME TypeOK, [Next]_vars PROVE TypeOK'
  OBVIOUS
<1> USE BoundsAssumption DEF BoundsAssumption, TypeOK, Tokens, Ops, Places, Childful,
        Go, LeaveSelect, HangUp, DropWaiters, AfterDrain, NoToken, NoNonce,
        Unasked, entry, calls, ops, tasks, conns, hist
<1>1. ASSUME NEW c \in Callers, StartFlip(c) PROVE TypeOK'
  <2>1. pc' \in [Callers -> {"idle", "mint", "store", "drain", "wake"}]
    BY <1>1 DEF StartFlip
  <2>2. fresh' \in 0..MaxNonce /\ nonce' \in 0..MaxNonce
    BY <1>1 DEF StartFlip
  <2> QED
    BY <1>1, <2>1, <2>2 DEF StartFlip
<1>2. ASSUME NEW c \in Callers, StartMint(c) PROVE TypeOK'
  <2>1. pc' \in [Callers -> {"idle", "mint", "store", "drain", "wake"}]
    BY <1>2 DEF StartMint
  <2>2. minted' \in [Callers -> Tokens]
    BY <1>2 DEF StartMint
  <2> QED
    BY <1>2, <2>1, <2>2 DEF StartMint
<1>3. ASSUME NEW c \in Callers, StartStore(c) PROVE TypeOK'
  <2>1. at' \in [Lives -> Places] /\ pc' \in [Callers -> {"idle", "mint", "store", "drain", "wake"}]
    BY <1>3 DEF StartStore
  <2>2. token' \in Tokens /\ minted' \in [Callers -> Tokens]
    BY <1>3 DEF StartStore
  <2> QED
    BY <1>3, <2>1, <2>2 DEF StartStore
<1>4. ASSUME NEW c \in Callers, StopFlip(c) PROVE TypeOK'
  <2>1. /\ pc' \in [Callers -> {"idle", "mint", "store", "drain", "wake"}]
        /\ nonce' \in 0..MaxNonce /\ token' \in Tokens
    BY <1>4 DEF StopFlip
  <2>2. stopped' \subseteq 0..MaxNonce
    BY <1>4 DEF StopFlip
  <2> QED
    BY <1>4, <2>1, <2>2 DEF StopFlip
<1>5. ASSUME NEW c \in Callers, StopDrain(c) PROVE TypeOK'
  BY <1>5 DEF StopDrain
<1>6. ASSUME NEW c \in Callers, StopWake(c) PROVE TypeOK'
  BY <1>6 DEF StopWake
<1>7. ASSUME NEW r \in Requests, Request(r) PROVE TypeOK'
  <2>1. queue' \in Seq(Ops)
    BY <1>7 DEF Request
  <2>2. /\ pending' \subseteq Requests
        /\ reply' \in [Requests -> {"unsent", "waiting", "answered", "gone", "late"}]
    BY <1>7 DEF Request
  <2> HIDE DEF Ops
  <2> QED
    BY <1>7, <2>1, <2>2 DEF Request
<1>8. ASSUME NEW r \in Requests, TimeOut(r) PROVE TypeOK'
  BY <1>8 DEF TimeOut
<1>9. ASSUME NEW l \in Lives, Top(l) PROVE TypeOK'
  BY <1>9 DEF Top
<1>10. ASSUME NEW l \in Lives, Launch(l) PROVE TypeOK'
  BY <1>10 DEF Launch
<1>11. ASSUME NEW l \in Lives, Accept(l) PROVE TypeOK'
  <2>1. PICK c \in Lives : peer' = [peer EXCEPT ![l] = tok[c]]
    BY <1>11 DEF Accept
  <2>2. peer' \in [Lives -> Tokens]
    BY <2>1
  <2>3. at' \in [Lives -> Places] /\ woken' \in [Lives -> BOOLEAN]
    BY <1>11, LeftTyped DEF Accept
  <2> QED
    BY <1>11, <2>2, <2>3 DEF Accept
<1>12. ASSUME NEW l \in Lives, Hello(l) PROVE TypeOK'
  BY <1>12 DEF Hello
<1>13. ASSUME NEW l \in Lives, Forward(l) PROVE TypeOK'
  <2>1. PICK q \in Seq(Ops) : q = queue
    OBVIOUS
  <2>2. Tail(q) \in Seq(Ops) /\ Head(q).op \in Requests
    <3>1. q # <<>> /\ q \in Seq(Ops)
      BY <1>13, <2>1 DEF Forward
    <3> HIDE DEF Ops
    <3>2. Tail(q) \in Seq(Ops) /\ Head(q) \in Ops
      BY <3>1
    <3> QED
      BY <3>2 DEF Ops
  <2>3. asked' \in [Requests -> Tokens \cup {Unasked}]
    <3>1. PICK r \in Requests, k \in Tokens : r = Head(q).op /\ k = peer[l]
      BY <2>2
    <3>2. asked' = [asked EXCEPT ![r] = k] \/ asked' = asked
      BY <1>13, <2>1, <3>1, Zenon DEF Forward
    <3> QED
      BY <3>1, <3>2
  <2>4. queue' \in Seq(Ops) /\ woken' \in [Lives -> BOOLEAN]
    BY <1>13, <2>1, <2>2 DEF Forward
  <2> QED
    BY <1>13, <2>3, <2>4 DEF Forward
<1>14. ASSUME NEW l \in Lives, Speak(l) PROVE TypeOK'
  <2>1. PICK said \in SUBSET Requests : line' = [line EXCEPT ![l] = said]
    <3>1. PICK said \in {{}} \cup {{r} : r \in {q \in Requests : asked[q] = peer[l]}} :
            line' = [line EXCEPT ![l] = said]
      BY ONLY <1>14, Zenon DEF Speak
    <3>2. said \subseteq Requests
      BY ONLY <3>1
    <3> QED
      BY ONLY <3>1, <3>2
  <2>2. line' \in [Lives -> SUBSET Requests]
    BY <2>1
  <2>3. at' \in [Lives -> Places] /\ woken' \in [Lives -> BOOLEAN]
    BY <1>14 DEF Speak
  <2> QED
    BY <1>14, <2>2, <2>3 DEF Speak
<1>15. ASSUME NEW l \in Lives, Check(l) PROVE TypeOK'
  <2>1. at' \in [Lives -> Places]
    BY <1>15 DEF Check
  <2>2. /\ rx' \in Lives \cup {Nobody} /\ peer' \in [Lives -> Tokens]
        /\ line' \in [Lives -> SUBSET Requests]
    <3>1. CASE running
      BY <1>15, <3>1 DEF Check
    <3>2. CASE ~running
      <4>1. /\ rx' = IF rx = l THEN Nobody ELSE rx
            /\ peer' = [peer EXCEPT ![l] = NoToken]
            /\ line' = [line EXCEPT ![l] = {}]
        BY <1>15, <3>2 DEF Check
      <4> QED
        BY <4>1
    <3> QED
      BY <3>1, <3>2
  <2> QED
    BY <1>15, <2>1, <2>2 DEF Check
<1>16. ASSUME NEW l \in Lives, Verify(l) PROVE TypeOK'
  BY <1>16 DEF Verify
<1>17. ASSUME NEW l \in Lives, Deliver(l) PROVE TypeOK'
  BY <1>17 DEF Deliver
<1>18. ASSUME NEW l \in Lives, Disconnect(l) PROVE TypeOK'
  <2>1. /\ at' \in [Lives -> Places] /\ woken' \in [Lives -> BOOLEAN]
        /\ peer' \in [Lives -> Tokens] /\ line' \in [Lives -> SUBSET Requests]
    BY <1>18, LeftTyped DEF Disconnect
  <2>2. rx' \in Lives \cup {Nobody}
    BY <1>18 DEF Disconnect
  <2> QED
    BY <1>18, <2>1, <2>2 DEF Disconnect
<1>19. ASSUME NEW l \in Lives, HearStop(l) PROVE TypeOK'
  <2>1. /\ at' \in [Lives -> Places] /\ woken' \in [Lives -> BOOLEAN]
        /\ peer' \in [Lives -> Tokens] /\ line' \in [Lives -> SUBSET Requests]
    BY <1>19, LeftTyped DEF HearStop
  <2>2. rx' \in Lives \cup {Nobody}
    BY <1>19 DEF HearStop
  <2> QED
    BY <1>19, <2>1, <2>2 DEF HearStop
<1>20. ASSUME NEW l \in Lives, ChildExits(l) PROVE TypeOK'
  <2>1. /\ at' \in [Lives -> Places] /\ woken' \in [Lives -> BOOLEAN]
        /\ peer' \in [Lives -> Tokens] /\ line' \in [Lives -> SUBSET Requests]
    BY <1>20, LeftTyped DEF ChildExits
  <2>2. rx' \in Lives \cup {Nobody}
    BY <1>20 DEF ChildExits
  <2> QED
    BY <1>20, <2>1, <2>2 DEF ChildExits
<1>21. ASSUME NEW l \in Lives, FailPending(l) PROVE TypeOK'
  <2>1. AfterDrain[at[l]] \in Places
    BY <1>21 DEF FailPending
  <2>2. at' \in [Lives -> Places]
    BY <1>21, <2>1 DEF FailPending
  <2>3. /\ reply' \in [Requests -> {"unsent", "waiting", "answered", "gone", "late"}]
        /\ pending' \subseteq Requests
    BY <1>21 DEF FailPending
  <2> QED
    BY <1>21, <2>2, <2>3 DEF FailPending
<1>22. ASSUME NEW l \in Lives, Restart(l) PROVE TypeOK'
  <2>1. restarts' \in [Lives -> 0..MaxRestarts]
    BY <1>22 DEF Restart
  <2>2. fresh' \in 0..MaxNonce /\ nonce' \in 0..MaxNonce /\ token' \in Tokens
    BY <1>22 DEF Restart
  <2>3. at' \in [Lives -> Places]
    BY <1>22 DEF Restart
  <2> QED
    BY <1>22, <2>1, <2>2, <2>3 DEF Restart
<1>23. ASSUME NEW l \in Lives, StoppedWhileDeciding(l) PROVE TypeOK'
  BY <1>23 DEF StoppedWhileDeciding
<1>24. ASSUME NEW l \in Lives, GiveUp(l) PROVE TypeOK'
  BY <1>24 DEF GiveUp
<1>25. ASSUME NEW l \in Lives, Quit(l) PROVE TypeOK'
  <2>1. /\ at' \in [Lives -> Places] /\ flip' \in {"none", "stop", "quit"}
        /\ nonce' \in 0..MaxNonce /\ token' \in Tokens
    BY <1>25 DEF Quit
  <2> QED
    BY <1>25, <2>1 DEF Quit
<1>26. ASSUME NEW l \in Lives, Unbind(l) PROVE TypeOK'
  <2>1. at' \in [Lives -> Places]
    BY <1>26 DEF Unbind
  <2>2. restarts' \in [Lives -> 0..MaxRestarts]
    BY <1>26 DEF Unbind
  <2> QED
    BY <1>26, <2>1, <2>2 DEF Unbind
<1>27. ASSUME UNCHANGED vars PROVE TypeOK'
  BY <1>27 DEF vars
<1> QED
  BY <1>1, <1>2, <1>3, <1>4, <1>5, <1>6, <1>7, <1>8, <1>9, <1>10, <1>11, <1>12, <1>13, <1>14, <1>15, <1>16, <1>17, <1>18, <1>19, <1>20, <1>21, <1>22, <1>23, <1>24, <1>25, <1>26, <1>27
     DEF Next, Call, Finish, Work, Child, Peer, Ending

(* A step out of a select! takes the wake with it. *)
LEMMA WokenStep == TypeOK /\ WokenInSelect /\ [Next]_vars => WokenInSelect'
<1> SUFFICES ASSUME TypeOK, WokenInSelect, [Next]_vars PROVE WokenInSelect'
  OBVIOUS
<1> USE DEF TypeOK, Places, Childful, Go, LeaveSelect, HangUp,
        DropWaiters, entry, calls, ops, tasks, conns, hist, WokenInSelect, InSelect
<1>1. ASSUME NEW c \in Callers, StartFlip(c) PROVE WokenInSelect'
  BY <1>1 DEF StartFlip
<1>2. ASSUME NEW c \in Callers, StartMint(c) PROVE WokenInSelect'
  BY <1>2 DEF StartMint
<1>3. ASSUME NEW c \in Callers, StartStore(c) PROVE WokenInSelect'
  BY <1>3 DEF StartStore
<1>4. ASSUME NEW c \in Callers, StopFlip(c) PROVE WokenInSelect'
  BY <1>4 DEF StopFlip
<1>5. ASSUME NEW c \in Callers, StopDrain(c) PROVE WokenInSelect'
  BY <1>5 DEF StopDrain
<1>6. ASSUME NEW c \in Callers, StopWake(c) PROVE WokenInSelect'
  BY <1>6 DEF StopWake
<1>7. ASSUME NEW r \in Requests, Request(r) PROVE WokenInSelect'
  BY <1>7 DEF Request
<1>8. ASSUME NEW r \in Requests, TimeOut(r) PROVE WokenInSelect'
  BY <1>8 DEF TimeOut
<1>9. ASSUME NEW l \in Lives, Top(l) PROVE WokenInSelect'
  BY <1>9 DEF Top
<1>10. ASSUME NEW l \in Lives, Launch(l) PROVE WokenInSelect'
  BY <1>10 DEF Launch
<1>11. ASSUME NEW l \in Lives, Accept(l) PROVE WokenInSelect'
  BY <1>11 DEF Accept
<1>12. ASSUME NEW l \in Lives, Hello(l) PROVE WokenInSelect'
  BY <1>12 DEF Hello
<1>13. ASSUME NEW l \in Lives, Forward(l) PROVE WokenInSelect'
  BY <1>13 DEF Forward
<1>14. ASSUME NEW l \in Lives, Speak(l) PROVE WokenInSelect'
  BY <1>14 DEF Speak
<1>15. ASSUME NEW l \in Lives, Check(l) PROVE WokenInSelect'
  BY <1>15 DEF Check
<1>16. ASSUME NEW l \in Lives, Verify(l) PROVE WokenInSelect'
  BY <1>16 DEF Verify
<1>17. ASSUME NEW l \in Lives, Deliver(l) PROVE WokenInSelect'
  BY <1>17 DEF Deliver
<1>18. ASSUME NEW l \in Lives, Disconnect(l) PROVE WokenInSelect'
  BY <1>18 DEF Disconnect
<1>19. ASSUME NEW l \in Lives, HearStop(l) PROVE WokenInSelect'
  BY <1>19 DEF HearStop
<1>20. ASSUME NEW l \in Lives, ChildExits(l) PROVE WokenInSelect'
  BY <1>20 DEF ChildExits
<1>21. ASSUME NEW l \in Lives, FailPending(l) PROVE WokenInSelect'
  <2>1. ~InSelect(l) /\ ~woken[l]
    BY <1>21 DEF FailPending, AfterDrain
  <2>2. \A k \in Lives : k # l => at'[k] = at[k]
    BY <1>21 DEF FailPending
  <2> QED
    BY <1>21, <2>1 DEF FailPending
<1>22. ASSUME NEW l \in Lives, Restart(l) PROVE WokenInSelect'
  BY <1>22 DEF Restart
<1>23. ASSUME NEW l \in Lives, StoppedWhileDeciding(l) PROVE WokenInSelect'
  BY <1>23 DEF StoppedWhileDeciding
<1>24. ASSUME NEW l \in Lives, GiveUp(l) PROVE WokenInSelect'
  BY <1>24 DEF GiveUp
<1>25. ASSUME NEW l \in Lives, Quit(l) PROVE WokenInSelect'
  BY <1>25 DEF Quit
<1>26. ASSUME NEW l \in Lives, Unbind(l) PROVE WokenInSelect'
  BY <1>26 DEF Unbind
<1>27. ASSUME UNCHANGED vars PROVE WokenInSelect'
  BY <1>27 DEF vars
<1> QED
  BY <1>1, <1>2, <1>3, <1>4, <1>5, <1>6, <1>7, <1>8, <1>9, <1>10, <1>11, <1>12, <1>13, <1>14, <1>15, <1>16, <1>17, <1>18, <1>19, <1>20, <1>21, <1>22, <1>23, <1>24, <1>25, <1>26, <1>27
     DEF Next, Call, Finish, Work, Child, Peer, Ending

(* The flag goes up only in StartFlip, which looks for half-done stops. *)
LEMMA HalfStopStep == TypeOK /\ NoHalfStop /\ [Next]_vars => NoHalfStop'
<1> SUFFICES ASSUME TypeOK, NoHalfStop, [Next]_vars PROVE NoHalfStop'
  OBVIOUS
<1> USE DEF TypeOK, Places, Childful, Go, LeaveSelect, HangUp,
        DropWaiters, entry, calls, ops, tasks, conns, hist, NoHalfStop, Stopping
<1>1. ASSUME NEW c \in Callers, StartFlip(c) PROVE NoHalfStop'
  BY <1>1 DEF StartFlip
<1>2. ASSUME NEW c \in Callers, StartMint(c) PROVE NoHalfStop'
  BY <1>2 DEF StartMint
<1>3. ASSUME NEW c \in Callers, StartStore(c) PROVE NoHalfStop'
  BY <1>3 DEF StartStore
<1>4. ASSUME NEW c \in Callers, StopFlip(c) PROVE NoHalfStop'
  BY <1>4 DEF StopFlip
<1>5. ASSUME NEW c \in Callers, StopDrain(c) PROVE NoHalfStop'
  BY <1>5 DEF StopDrain
<1>6. ASSUME NEW c \in Callers, StopWake(c) PROVE NoHalfStop'
  BY <1>6 DEF StopWake
<1>7. ASSUME NEW r \in Requests, Request(r) PROVE NoHalfStop'
  BY <1>7 DEF Request
<1>8. ASSUME NEW r \in Requests, TimeOut(r) PROVE NoHalfStop'
  BY <1>8 DEF TimeOut
<1>9. ASSUME NEW l \in Lives, Top(l) PROVE NoHalfStop'
  BY <1>9 DEF Top
<1>10. ASSUME NEW l \in Lives, Launch(l) PROVE NoHalfStop'
  BY <1>10 DEF Launch
<1>11. ASSUME NEW l \in Lives, Accept(l) PROVE NoHalfStop'
  BY <1>11 DEF Accept
<1>12. ASSUME NEW l \in Lives, Hello(l) PROVE NoHalfStop'
  BY <1>12 DEF Hello
<1>13. ASSUME NEW l \in Lives, Forward(l) PROVE NoHalfStop'
  BY <1>13 DEF Forward
<1>14. ASSUME NEW l \in Lives, Speak(l) PROVE NoHalfStop'
  BY <1>14 DEF Speak
<1>15. ASSUME NEW l \in Lives, Check(l) PROVE NoHalfStop'
  BY <1>15 DEF Check
<1>16. ASSUME NEW l \in Lives, Verify(l) PROVE NoHalfStop'
  BY <1>16 DEF Verify
<1>17. ASSUME NEW l \in Lives, Deliver(l) PROVE NoHalfStop'
  BY <1>17 DEF Deliver
<1>18. ASSUME NEW l \in Lives, Disconnect(l) PROVE NoHalfStop'
  BY <1>18 DEF Disconnect
<1>19. ASSUME NEW l \in Lives, HearStop(l) PROVE NoHalfStop'
  BY <1>19 DEF HearStop
<1>20. ASSUME NEW l \in Lives, ChildExits(l) PROVE NoHalfStop'
  BY <1>20 DEF ChildExits
<1>21. ASSUME NEW l \in Lives, FailPending(l) PROVE NoHalfStop'
  BY <1>21 DEF FailPending
<1>22. ASSUME NEW l \in Lives, Restart(l) PROVE NoHalfStop'
  BY <1>22 DEF Restart
<1>23. ASSUME NEW l \in Lives, StoppedWhileDeciding(l) PROVE NoHalfStop'
  BY <1>23 DEF StoppedWhileDeciding
<1>24. ASSUME NEW l \in Lives, GiveUp(l) PROVE NoHalfStop'
  BY <1>24 DEF GiveUp
<1>25. ASSUME NEW l \in Lives, Quit(l) PROVE NoHalfStop'
  BY <1>25 DEF Quit
<1>26. ASSUME NEW l \in Lives, Unbind(l) PROVE NoHalfStop'
  BY <1>26 DEF Unbind
<1>27. ASSUME UNCHANGED vars PROVE NoHalfStop'
  BY <1>27 DEF vars
<1> QED
  BY <1>1, <1>2, <1>3, <1>4, <1>5, <1>6, <1>7, <1>8, <1>9, <1>10, <1>11, <1>12, <1>13, <1>14, <1>15, <1>16, <1>17, <1>18, <1>19, <1>20, <1>21, <1>22, <1>23, <1>24, <1>25, <1>26, <1>27
     DEF Next, Call, Finish, Work, Child, Peer, Ending

(* Waiters come with their map entry and go with it. *)
LEMMA WaitersStep == TypeOK /\ WaitersKnown /\ [Next]_vars => WaitersKnown'
<1> SUFFICES ASSUME TypeOK, WaitersKnown, [Next]_vars PROVE WaitersKnown'
  OBVIOUS
<1> USE DEF TypeOK, Places, Childful, Go, LeaveSelect, HangUp,
        DropWaiters, entry, calls, ops, tasks, conns, hist, WaitersKnown
<1>1. ASSUME NEW c \in Callers, StartFlip(c) PROVE WaitersKnown'
  BY <1>1 DEF StartFlip
<1>2. ASSUME NEW c \in Callers, StartMint(c) PROVE WaitersKnown'
  BY <1>2 DEF StartMint
<1>3. ASSUME NEW c \in Callers, StartStore(c) PROVE WaitersKnown'
  BY <1>3 DEF StartStore
<1>4. ASSUME NEW c \in Callers, StopFlip(c) PROVE WaitersKnown'
  BY <1>4 DEF StopFlip
<1>5. ASSUME NEW c \in Callers, StopDrain(c) PROVE WaitersKnown'
  BY <1>5 DEF StopDrain
<1>6. ASSUME NEW c \in Callers, StopWake(c) PROVE WaitersKnown'
  BY <1>6 DEF StopWake
<1>7. ASSUME NEW r \in Requests, Request(r) PROVE WaitersKnown'
  BY <1>7 DEF Request
<1>8. ASSUME NEW r \in Requests, TimeOut(r) PROVE WaitersKnown'
  BY <1>8 DEF TimeOut
<1>9. ASSUME NEW l \in Lives, Top(l) PROVE WaitersKnown'
  BY <1>9 DEF Top
<1>10. ASSUME NEW l \in Lives, Launch(l) PROVE WaitersKnown'
  BY <1>10 DEF Launch
<1>11. ASSUME NEW l \in Lives, Accept(l) PROVE WaitersKnown'
  BY <1>11 DEF Accept
<1>12. ASSUME NEW l \in Lives, Hello(l) PROVE WaitersKnown'
  BY <1>12 DEF Hello
<1>13. ASSUME NEW l \in Lives, Forward(l) PROVE WaitersKnown'
  BY <1>13 DEF Forward
<1>14. ASSUME NEW l \in Lives, Speak(l) PROVE WaitersKnown'
  BY <1>14 DEF Speak
<1>15. ASSUME NEW l \in Lives, Check(l) PROVE WaitersKnown'
  BY <1>15 DEF Check
<1>16. ASSUME NEW l \in Lives, Verify(l) PROVE WaitersKnown'
  BY <1>16 DEF Verify
<1>17. ASSUME NEW l \in Lives, Deliver(l) PROVE WaitersKnown'
  BY <1>17 DEF Deliver
<1>18. ASSUME NEW l \in Lives, Disconnect(l) PROVE WaitersKnown'
  BY <1>18 DEF Disconnect
<1>19. ASSUME NEW l \in Lives, HearStop(l) PROVE WaitersKnown'
  BY <1>19 DEF HearStop
<1>20. ASSUME NEW l \in Lives, ChildExits(l) PROVE WaitersKnown'
  BY <1>20 DEF ChildExits
<1>21. ASSUME NEW l \in Lives, FailPending(l) PROVE WaitersKnown'
  BY <1>21 DEF FailPending
<1>22. ASSUME NEW l \in Lives, Restart(l) PROVE WaitersKnown'
  BY <1>22 DEF Restart
<1>23. ASSUME NEW l \in Lives, StoppedWhileDeciding(l) PROVE WaitersKnown'
  BY <1>23 DEF StoppedWhileDeciding
<1>24. ASSUME NEW l \in Lives, GiveUp(l) PROVE WaitersKnown'
  BY <1>24 DEF GiveUp
<1>25. ASSUME NEW l \in Lives, Quit(l) PROVE WaitersKnown'
  BY <1>25 DEF Quit
<1>26. ASSUME NEW l \in Lives, Unbind(l) PROVE WaitersKnown'
  BY <1>26 DEF Unbind
<1>27. ASSUME UNCHANGED vars PROVE WaitersKnown'
  BY <1>27 DEF vars
<1> QED
  BY <1>1, <1>2, <1>3, <1>4, <1>5, <1>6, <1>7, <1>8, <1>9, <1>10, <1>11, <1>12, <1>13, <1>14, <1>15, <1>16, <1>17, <1>18, <1>19, <1>20, <1>21, <1>22, <1>23, <1>24, <1>25, <1>26, <1>27
     DEF Next, Call, Finish, Work, Child, Peer, Ending

(* A stop drains after the flag is down, and nobody registers meanwhile. *)
LEMMA DrainStep == TypeOK /\ WaitersKnown /\ StopDrains /\ [Next]_vars => StopDrains'
<1> SUFFICES ASSUME TypeOK, WaitersKnown, StopDrains, [Next]_vars PROVE StopDrains'
  OBVIOUS
<1> USE DEF TypeOK, Places, Childful, Go, LeaveSelect, HangUp,
        DropWaiters, entry, calls, ops, tasks, conns, hist, WaitersKnown, StopDrains
<1>1. ASSUME NEW c \in Callers, StartFlip(c) PROVE StopDrains'
  BY <1>1 DEF StartFlip
<1>2. ASSUME NEW c \in Callers, StartMint(c) PROVE StopDrains'
  BY <1>2 DEF StartMint
<1>3. ASSUME NEW c \in Callers, StartStore(c) PROVE StopDrains'
  BY <1>3 DEF StartStore
<1>4. ASSUME NEW c \in Callers, StopFlip(c) PROVE StopDrains'
  BY <1>4 DEF StopFlip
<1>5. ASSUME NEW c \in Callers, StopDrain(c) PROVE StopDrains'
  BY <1>5 DEF StopDrain
<1>6. ASSUME NEW c \in Callers, StopWake(c) PROVE StopDrains'
  BY <1>6 DEF StopWake
<1>7. ASSUME NEW r \in Requests, Request(r) PROVE StopDrains'
  BY <1>7 DEF Request
<1>8. ASSUME NEW r \in Requests, TimeOut(r) PROVE StopDrains'
  BY <1>8 DEF TimeOut
<1>9. ASSUME NEW l \in Lives, Top(l) PROVE StopDrains'
  BY <1>9 DEF Top
<1>10. ASSUME NEW l \in Lives, Launch(l) PROVE StopDrains'
  BY <1>10 DEF Launch
<1>11. ASSUME NEW l \in Lives, Accept(l) PROVE StopDrains'
  BY <1>11 DEF Accept
<1>12. ASSUME NEW l \in Lives, Hello(l) PROVE StopDrains'
  BY <1>12 DEF Hello
<1>13. ASSUME NEW l \in Lives, Forward(l) PROVE StopDrains'
  BY <1>13 DEF Forward
<1>14. ASSUME NEW l \in Lives, Speak(l) PROVE StopDrains'
  BY <1>14 DEF Speak
<1>15. ASSUME NEW l \in Lives, Check(l) PROVE StopDrains'
  BY <1>15 DEF Check
<1>16. ASSUME NEW l \in Lives, Verify(l) PROVE StopDrains'
  BY <1>16 DEF Verify
<1>17. ASSUME NEW l \in Lives, Deliver(l) PROVE StopDrains'
  BY <1>17 DEF Deliver
<1>18. ASSUME NEW l \in Lives, Disconnect(l) PROVE StopDrains'
  BY <1>18 DEF Disconnect
<1>19. ASSUME NEW l \in Lives, HearStop(l) PROVE StopDrains'
  BY <1>19 DEF HearStop
<1>20. ASSUME NEW l \in Lives, ChildExits(l) PROVE StopDrains'
  BY <1>20 DEF ChildExits
<1>21. ASSUME NEW l \in Lives, FailPending(l) PROVE StopDrains'
  BY <1>21 DEF FailPending
<1>22. ASSUME NEW l \in Lives, Restart(l) PROVE StopDrains'
  BY <1>22 DEF Restart
<1>23. ASSUME NEW l \in Lives, StoppedWhileDeciding(l) PROVE StopDrains'
  BY <1>23 DEF StoppedWhileDeciding
<1>24. ASSUME NEW l \in Lives, GiveUp(l) PROVE StopDrains'
  BY <1>24 DEF GiveUp
<1>25. ASSUME NEW l \in Lives, Quit(l) PROVE StopDrains'
  BY <1>25 DEF Quit
<1>26. ASSUME NEW l \in Lives, Unbind(l) PROVE StopDrains'
  BY <1>26 DEF Unbind
<1>27. ASSUME UNCHANGED vars PROVE StopDrains'
  BY <1>27 DEF vars
<1> QED
  BY <1>1, <1>2, <1>3, <1>4, <1>5, <1>6, <1>7, <1>8, <1>9, <1>10, <1>11, <1>12, <1>13, <1>14, <1>15, <1>16, <1>17, <1>18, <1>19, <1>20, <1>21, <1>22, <1>23, <1>24, <1>25, <1>26, <1>27
     DEF Next, Call, Finish, Work, Child, Peer, Ending

(* A new nonce is above every one that was stopped. *)
LEMMA NonceStep == TypeOK /\ StoppedIsPast /\ [Next]_vars => StoppedIsPast'
<1> SUFFICES ASSUME TypeOK, StoppedIsPast, [Next]_vars PROVE StoppedIsPast'
  OBVIOUS
<1> USE DEF TypeOK, Places, Childful, Go, LeaveSelect, HangUp,
        DropWaiters, entry, calls, ops, tasks, conns, hist, StoppedIsPast, NoNonce
<1>1. ASSUME NEW c \in Callers, StartFlip(c) PROVE StoppedIsPast'
  BY <1>1 DEF StartFlip
<1>2. ASSUME NEW c \in Callers, StartMint(c) PROVE StoppedIsPast'
  BY <1>2 DEF StartMint
<1>3. ASSUME NEW c \in Callers, StartStore(c) PROVE StoppedIsPast'
  BY <1>3 DEF StartStore
<1>4. ASSUME NEW c \in Callers, StopFlip(c) PROVE StoppedIsPast'
  BY <1>4 DEF StopFlip
<1>5. ASSUME NEW c \in Callers, StopDrain(c) PROVE StoppedIsPast'
  BY <1>5 DEF StopDrain
<1>6. ASSUME NEW c \in Callers, StopWake(c) PROVE StoppedIsPast'
  BY <1>6 DEF StopWake
<1>7. ASSUME NEW r \in Requests, Request(r) PROVE StoppedIsPast'
  BY <1>7 DEF Request
<1>8. ASSUME NEW r \in Requests, TimeOut(r) PROVE StoppedIsPast'
  BY <1>8 DEF TimeOut
<1>9. ASSUME NEW l \in Lives, Top(l) PROVE StoppedIsPast'
  BY <1>9 DEF Top
<1>10. ASSUME NEW l \in Lives, Launch(l) PROVE StoppedIsPast'
  BY <1>10 DEF Launch
<1>11. ASSUME NEW l \in Lives, Accept(l) PROVE StoppedIsPast'
  BY <1>11 DEF Accept
<1>12. ASSUME NEW l \in Lives, Hello(l) PROVE StoppedIsPast'
  BY <1>12 DEF Hello
<1>13. ASSUME NEW l \in Lives, Forward(l) PROVE StoppedIsPast'
  BY <1>13 DEF Forward
<1>14. ASSUME NEW l \in Lives, Speak(l) PROVE StoppedIsPast'
  BY <1>14 DEF Speak
<1>15. ASSUME NEW l \in Lives, Check(l) PROVE StoppedIsPast'
  BY <1>15 DEF Check
<1>16. ASSUME NEW l \in Lives, Verify(l) PROVE StoppedIsPast'
  BY <1>16 DEF Verify
<1>17. ASSUME NEW l \in Lives, Deliver(l) PROVE StoppedIsPast'
  BY <1>17 DEF Deliver
<1>18. ASSUME NEW l \in Lives, Disconnect(l) PROVE StoppedIsPast'
  BY <1>18 DEF Disconnect
<1>19. ASSUME NEW l \in Lives, HearStop(l) PROVE StoppedIsPast'
  BY <1>19 DEF HearStop
<1>20. ASSUME NEW l \in Lives, ChildExits(l) PROVE StoppedIsPast'
  BY <1>20 DEF ChildExits
<1>21. ASSUME NEW l \in Lives, FailPending(l) PROVE StoppedIsPast'
  BY <1>21 DEF FailPending
<1>22. ASSUME NEW l \in Lives, Restart(l) PROVE StoppedIsPast'
  BY <1>22 DEF Restart
<1>23. ASSUME NEW l \in Lives, StoppedWhileDeciding(l) PROVE StoppedIsPast'
  BY <1>23 DEF StoppedWhileDeciding
<1>24. ASSUME NEW l \in Lives, GiveUp(l) PROVE StoppedIsPast'
  BY <1>24 DEF GiveUp
<1>25. ASSUME NEW l \in Lives, Quit(l) PROVE StoppedIsPast'
  BY <1>25 DEF Quit
<1>26. ASSUME NEW l \in Lives, Unbind(l) PROVE StoppedIsPast'
  BY <1>26 DEF Unbind
<1>27. ASSUME UNCHANGED vars PROVE StoppedIsPast'
  BY <1>27 DEF vars
<1> QED
  BY <1>1, <1>2, <1>3, <1>4, <1>5, <1>6, <1>7, <1>8, <1>9, <1>10, <1>11, <1>12, <1>13, <1>14, <1>15, <1>16, <1>17, <1>18, <1>19, <1>20, <1>21, <1>22, <1>23, <1>24, <1>25, <1>26, <1>27
     DEF Next, Call, Finish, Work, Child, Peer, Ending

(* A start leaves a lifecycle behind, which ends only with the flag. *)
LEMMA SupervisedStep == TypeOK /\ WokenInSelect /\ NoHalfStop /\ RunningIsSupervised /\ [Next]_vars
           => RunningIsSupervised'
<1> SUFFICES ASSUME TypeOK, WokenInSelect, NoHalfStop, RunningIsSupervised, [Next]_vars PROVE RunningIsSupervised'
  OBVIOUS
<1> USE DEF TypeOK, Places, Childful, Go, LeaveSelect, HangUp,
        DropWaiters, entry, calls, ops, tasks, conns, hist,
        WokenInSelect, NoHalfStop, RunningIsSupervised, Supervising, InSelect,
        Starting, Stopping
<1>1. ASSUME NEW c \in Callers, StartFlip(c) PROVE RunningIsSupervised'
  BY <1>1 DEF StartFlip
<1>2. ASSUME NEW c \in Callers, StartMint(c) PROVE RunningIsSupervised'
  BY <1>2 DEF StartMint
<1>3. ASSUME NEW c \in Callers, StartStore(c) PROVE RunningIsSupervised'
  BY <1>3 DEF StartStore
<1>4. ASSUME NEW c \in Callers, StopFlip(c) PROVE RunningIsSupervised'
  BY <1>4 DEF StopFlip
<1>5. ASSUME NEW c \in Callers, StopDrain(c) PROVE RunningIsSupervised'
  BY <1>5 DEF StopDrain
<1>6. ASSUME NEW c \in Callers, StopWake(c) PROVE RunningIsSupervised'
  BY <1>6 DEF StopWake
<1>7. ASSUME NEW r \in Requests, Request(r) PROVE RunningIsSupervised'
  BY <1>7 DEF Request
<1>8. ASSUME NEW r \in Requests, TimeOut(r) PROVE RunningIsSupervised'
  BY <1>8 DEF TimeOut
<1>9. ASSUME NEW l \in Lives, Top(l) PROVE RunningIsSupervised'
  BY <1>9 DEF Top
<1>10. ASSUME NEW l \in Lives, Launch(l) PROVE RunningIsSupervised'
  BY <1>10 DEF Launch
<1>11. ASSUME NEW l \in Lives, Accept(l) PROVE RunningIsSupervised'
  BY <1>11 DEF Accept
<1>12. ASSUME NEW l \in Lives, Hello(l) PROVE RunningIsSupervised'
  BY <1>12 DEF Hello
<1>13. ASSUME NEW l \in Lives, Forward(l) PROVE RunningIsSupervised'
  BY <1>13 DEF Forward
<1>14. ASSUME NEW l \in Lives, Speak(l) PROVE RunningIsSupervised'
  BY <1>14 DEF Speak
<1>15. ASSUME NEW l \in Lives, Check(l) PROVE RunningIsSupervised'
  BY <1>15 DEF Check
<1>16. ASSUME NEW l \in Lives, Verify(l) PROVE RunningIsSupervised'
  BY <1>16 DEF Verify
<1>17. ASSUME NEW l \in Lives, Deliver(l) PROVE RunningIsSupervised'
  BY <1>17 DEF Deliver
<1>18. ASSUME NEW l \in Lives, Disconnect(l) PROVE RunningIsSupervised'
  BY <1>18 DEF Disconnect
<1>19. ASSUME NEW l \in Lives, HearStop(l) PROVE RunningIsSupervised'
  BY <1>19 DEF HearStop
<1>20. ASSUME NEW l \in Lives, ChildExits(l) PROVE RunningIsSupervised'
  BY <1>20 DEF ChildExits
<1>21. ASSUME NEW l \in Lives, FailPending(l) PROVE RunningIsSupervised'
  <2>1. AfterDrain[at[l]] = IF at[l] = "halt" THEN "unbind"
                            ELSE IF at[l] = "exited" THEN "decide" ELSE "quit"
    BY <1>21 DEF FailPending, AfterDrain
  <2> HIDE DEF AfterDrain
  <2> QED
    BY <1>21, <2>1 DEF FailPending
<1>22. ASSUME NEW l \in Lives, Restart(l) PROVE RunningIsSupervised'
  BY <1>22 DEF Restart
<1>23. ASSUME NEW l \in Lives, StoppedWhileDeciding(l) PROVE RunningIsSupervised'
  BY <1>23 DEF StoppedWhileDeciding
<1>24. ASSUME NEW l \in Lives, GiveUp(l) PROVE RunningIsSupervised'
  BY <1>24 DEF GiveUp
<1>25. ASSUME NEW l \in Lives, Quit(l) PROVE RunningIsSupervised'
  BY <1>25 DEF Quit
<1>26. ASSUME NEW l \in Lives, Unbind(l) PROVE RunningIsSupervised'
  BY <1>26 DEF Unbind
<1>27. ASSUME UNCHANGED vars PROVE RunningIsSupervised'
  BY <1>27 DEF vars
<1> QED
  BY <1>1, <1>2, <1>3, <1>4, <1>5, <1>6, <1>7, <1>8, <1>9, <1>10, <1>11, <1>12, <1>13, <1>14, <1>15, <1>16, <1>17, <1>18, <1>19, <1>20, <1>21, <1>22, <1>23, <1>24, <1>25, <1>26, <1>27
     DEF Next, Call, Finish, Work, Child, Peer, Ending

-----------------------------------------------------------------------------
IInv == /\ TypeOK /\ WokenInSelect /\ NoHalfStop /\ WaitersKnown /\ StopDrains
        /\ StoppedIsPast /\ RunningIsSupervised

(* The initial states satisfy the invariant. *)
LEMMA InitIInv == Init => IInv
<1> USE BoundsAssumption
    DEF BoundsAssumption, Init, NoToken, NoNonce, Unasked, Tokens
<1>1. Init => TypeOK
  <2> SUFFICES ASSUME Init PROVE TypeOK
    OBVIOUS
  <2>1. queue \in Seq(Ops)
    OBVIOUS
  <2>2. /\ at \in [Lives -> Places] /\ pc \in [Callers -> {"idle", "mint", "store", "drain", "wake"}]
        /\ reply \in [Requests -> {"unsent", "waiting", "answered", "gone", "late"}]
    BY DEF Places
  <2>3. /\ minted \in [Callers -> Tokens] /\ tok \in [Lives -> Tokens]
        /\ peer \in [Lives -> Tokens] /\ line \in [Lives -> SUBSET Requests]
        /\ asked \in [Requests -> Tokens \cup {Unasked}]
    OBVIOUS
  <2>4. restarts \in [Lives -> 0..MaxRestarts] /\ woken \in [Lives -> BOOLEAN]
    OBVIOUS
  <2>5. /\ nonce \in 0..MaxNonce /\ token \in Tokens
        /\ fresh \in 0..MaxNonce /\ pending \subseteq Requests
        /\ rx \in Lives \cup {Nobody} /\ sock \in Lives \cup {Nobody}
        /\ stopped \subseteq 0..MaxNonce
    OBVIOUS
  <2>6. flip \in {"none", "stop", "quit"}
    OBVIOUS
  <2>7. running \in BOOLEAN /\ crossed \in BOOLEAN
    OBVIOUS
  <2> HIDE DEF Init, Tokens
  <2> QED
    BY <2>1, <2>2, <2>3, <2>4, <2>5, <2>6, <2>7 DEF TypeOK
<1>2. Init => WokenInSelect /\ NoHalfStop /\ WaitersKnown /\ StopDrains
  BY DEF WokenInSelect, NoHalfStop, WaitersKnown, StopDrains
<1>3. Init => StoppedIsPast /\ RunningIsSupervised
  BY DEF StoppedIsPast, RunningIsSupervised
<1> QED
  BY <1>1, <1>2, <1>3 DEF IInv

(* Every step preserves the invariant. *)
LEMMA NextIInv == IInv /\ [Next]_vars => IInv'
BY TypeStep, WokenStep, HalfStopStep, WaitersStep, DrainStep, NonceStep,
   SupervisedStep DEF IInv

(* The invariant holds of every behaviour. *)
LEMMA Invariance == Spec => []IInv
BY InitIInv, NextIInv, PTL DEF Spec

(* The registry entry, the callers, the lifecycles and the requests keep     *)
(* their types.                                                              *)
THEOREM TypeCorrect == Spec => []TypeOK
<1>1. IInv => TypeOK
  BY DEF IInv
<1> QED
  BY <1>1, Invariance, PTL

(* A stop leaves no request waiting, for any number of callers and requests. *)
THEOREM StopDrainsAlways == Spec => []StopDrains
<1>1. IInv => StopDrains
  BY DEF IInv
<1> QED
  BY <1>1, Invariance, PTL

(* The requests that wait are exactly those a teardown can wake.             *)
THEOREM WaitersKnownAlways == Spec => []WaitersKnown
<1>1. IInv => WaitersKnown
  BY DEF IInv
<1> QED
  BY <1>1, Invariance, PTL

(* An app shown as running is supervised, unless a start overtook a stop.    *)
THEOREM RunningIsSupervisedAlways == Spec => []RunningIsSupervised
<1>1. IInv => RunningIsSupervised
  BY DEF IInv
<1> QED
  BY <1>1, Invariance, PTL

(* A line that passes verification was stamped with the current nonce, and   *)
(* no stopped nonce is ever current again.                                   *)
LEMMA VerifyStep ==
  IInv /\ [Next]_vars
    => \A l \in Lives : (at[l] = "verify" /\ at'[l] = "deliver")
                          => peer[l] \notin stopped
<1> SUFFICES ASSUME IInv, [Next]_vars, NEW k \in Lives,
                    at[k] = "verify", at'[k] = "deliver"
             PROVE  peer[k] \notin stopped
  OBVIOUS
<1> USE DEF IInv, TypeOK, Places, Childful, Go
<1>1. ASSUME NEW l \in Lives, Verify(l) PROVE peer[k] \notin stopped
  BY <1>1 DEF Verify, Verified, StoppedIsPast
<1>2. ASSUME NEW l \in Lives, FailPending(l) PROVE FALSE
  <2>1. k # l
    BY <1>2 DEF FailPending, AfterDrain
  <2> QED
    BY <1>2, <2>1 DEF FailPending
<1>3. ASSUME NEW l \in Lives,
             \/ Top(l) \/ Launch(l) \/ Accept(l) \/ Hello(l) \/ Forward(l)
             \/ Speak(l) \/ Check(l) \/ Deliver(l)
      PROVE FALSE
  BY <1>3 DEF Top, Launch, Accept, Hello, Forward, Speak, Check, Deliver
<1>4. ASSUME NEW l \in Lives,
             \/ Disconnect(l) \/ HearStop(l) \/ ChildExits(l) \/ Restart(l)
             \/ StoppedWhileDeciding(l) \/ GiveUp(l) \/ Quit(l) \/ Unbind(l)
      PROVE FALSE
  BY <1>4 DEF Disconnect, HearStop, ChildExits, Restart, StoppedWhileDeciding,
              GiveUp, Quit, Unbind, InSelect
<1>5. ASSUME NEW c \in Callers, StartStore(c) PROVE FALSE
  BY <1>5 DEF StartStore
<1>6. ASSUME NEW c \in Callers,
             \/ StartFlip(c) \/ StartMint(c) \/ StopFlip(c) \/ StopDrain(c)
             \/ StopWake(c)
      PROVE FALSE
  BY <1>6 DEF StartFlip, StartMint, StopFlip, StopDrain, StopWake
<1>7. ASSUME NEW r \in Requests, Request(r) \/ TimeOut(r) PROVE FALSE
  BY <1>7 DEF Request, TimeOut
<1>8. ASSUME UNCHANGED vars PROVE FALSE
  BY <1>8 DEF vars
<1> QED
  BY <1>1, <1>2, <1>3, <1>4, <1>5, <1>6, <1>7, <1>8
     DEF Next, Call, Finish, Work, Child, Peer, Ending

(* A stopped child is never heard again, whatever is in flight.              *)
THEOREM StopSilencesAlways == Spec => StopSilences
<1>1. IInv /\ [Next]_vars
        => [\A l \in Lives : (at[l] = "verify" /\ at'[l] = "deliver")
                                => peer[l] \notin stopped]_vars
  BY VerifyStep
<1> QED
  BY <1>1, Invariance, PTL DEF Spec, StopSilences
=============================================================================
