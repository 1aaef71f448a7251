---------------------------- MODULE AppSupervisor ----------------------------
(* One micro-app and the tasks of the daemon that run it: the registry entry *)
(* (running flag, launch nonce, token), the callers of start, stop and       *)
(* request_op, and the lifecycle tasks that bind the app's socket, launch    *)
(* its sandboxed child, relay what it says and restart it.  A step is one    *)
(* scope of the registry lock or one branch of a select!.                    *)
(*                                                                           *)
(* A token is represented by the nonce it was minted from, and a child by    *)
(* the token in its environment: nothing else of either is ever compared.    *)
EXTENDS Integers, Sequences, FiniteSets

CONSTANTS Starters, Stoppers,  \* tasks that start and that stop the app: a tool
                        \* of the model only starts it, a spoken command may both
          Lives,        \* lifecycle tasks that can exist at one time
          Nobody,       \* no lifecycle
          Requests,     \* request_op calls, by their id
          MaxRestarts,  \* MAX_RESTARTS
          MaxPending,   \* MAX_PENDING_REQUESTS
          MaxNonce      \* bound of the model: launches and restarts together

ASSUME BoundsAssumption ==
  /\ MaxRestarts \in Nat /\ MaxPending \in Nat /\ MaxNonce \in Nat
  /\ IsFiniteSet(Lives) /\ Nobody \notin Lives

Callers == Starters \cup Stoppers

NoToken == -1
Unasked == -2
NoNonce == 0

VARIABLES
  running, nonce, token,  \* AppEntry: the flag, this launch's nonce and token
  fresh,                  \* the last nonce handed out (fresh_nonce never repeats)
  pending,                \* AppEntry.pending: ids with a waiter
  queue,                  \* op_tx / op_rx: the ops no connection has forwarded,
                          \* with the nonce of the launch they were meant for
  rx,                     \* the lifecycle whose connection took op_rx, or Nobody
  sock,                   \* the lifecycle whose listener is bound at the path
  pc, minted,             \* callers: where each is, the token start minted
  at,                     \* lifecycles: where each is
  tok, restarts, woken,   \* its child's token, RestartGovernor, a wake to act on
  peer, line,             \* its connection: the child's token, the line read
  reply, asked,           \* requests: their outcome, the child that got the op
  stopped, flip, crossed  \* history: nonces stop() ended; who flipped running
                          \* last; this start overtook a stop before its notify

entry == <<running, nonce, token, fresh>>
calls == <<pending, reply>>
ops   == <<queue, rx, asked>>
tasks == <<tok, restarts>>
conns == <<peer, line>>
hist  == <<stopped, flip, crossed>>
vars  == <<entry, calls, ops, sock, pc, minted, at, tasks, woken, conns, hist>>

Childful == {"listen", "hello", "serve", "check", "verify", "deliver"}
Places   == Childful \cup {"free", "top", "bind", "halt", "unbind", "exited",
                           "decide", "broken", "quit"}

(* A child process runs from the launch until run_once returns             *)
(* (kill_on_drop), and a lifecycle hears a notify only inside a select!.     *)
ChildUp(l)   == at[l] \in Childful
InSelect(l)  == at[l] \in {"listen", "serve"}

Init ==
  /\ running = FALSE /\ nonce = NoNonce /\ token = NoToken /\ fresh = 0
  /\ pending = {} /\ queue = <<>> /\ rx = Nobody /\ sock = Nobody
  /\ pc = [c \in Callers |-> "idle"] /\ minted = [c \in Callers |-> NoToken]
  /\ at = [l \in Lives |-> "free"] /\ tok = [l \in Lives |-> NoToken]
  /\ restarts = [l \in Lives |-> 0] /\ woken = [l \in Lives |-> FALSE]
  /\ peer = [l \in Lives |-> NoToken] /\ line = [l \in Lives |-> {}]
  /\ reply = [r \in Requests |-> "unsent"]
  /\ asked = [r \in Requests |-> Unasked]
  /\ stopped = {} /\ flip = "none" /\ crossed = FALSE

-----------------------------------------------------------------------------
(* start: three scopes of the lock, then the lifecycle is spawned.           *)

Starting(c) == pc[c] \in {"mint", "store"}
Stopping(c) == pc[c] \in {"drain", "wake"}

(* A start needs a slot of Lives: a bound of the model.                      *)
SlotFree == Cardinality({l \in Lives : at[l] = "free"})
              > Cardinality({c \in Callers : Starting(c)})

StartFlip(c) ==
  /\ pc[c] = "idle" /\ ~running /\ fresh < MaxNonce /\ SlotFree
  /\ fresh' = fresh + 1 /\ nonce' = fresh' /\ running' = TRUE
  /\ crossed' = \E d \in Callers : Stopping(d)
  /\ pc' = [pc EXCEPT ![c] = "mint"]
  /\ UNCHANGED <<token, calls, ops, sock, minted, at, tasks, woken, conns,
                 stopped, flip>>

StartMint(c) ==
  /\ pc[c] = "mint"
  /\ minted' = [minted EXCEPT ![c] = nonce]
  /\ pc' = [pc EXCEPT ![c] = "store"]
  /\ UNCHANGED <<entry, calls, ops, sock, at, tasks, woken, conns, hist>>

(* The slots are alike: which free one the new task takes does not matter.  *)
StartStore(c) ==
  /\ pc[c] = "store"
  /\ token' = minted[c] /\ minted' = [minted EXCEPT ![c] = NoToken]
  /\ pc' = [pc EXCEPT ![c] = "idle"]
  /\ \E l \in Lives : at[l] = "free"
  /\ at' = [at EXCEPT ![CHOOSE l \in Lives : at[l] = "free"] = "top"]
  /\ UNCHANGED <<running, nonce, fresh, calls, ops, sock, tasks, woken, conns,
                 hist>>

-----------------------------------------------------------------------------
(* stop: flip and forget the token, fail the waiters, wake the lifecycle.    *)
(* notify_waiters leaves no permit: only a task inside its select! hears it. *)

DropWaiters ==
  /\ reply' = [r \in Requests |-> IF r \in pending THEN "gone" ELSE reply[r]]
  /\ pending' = {}

(* Mutant: the nonce survives the stop.                                      *)
StopFlipKeepsNonce(c) ==
  /\ pc[c] = "idle" /\ running
  /\ running' = FALSE
  /\ stopped' = stopped \cup {nonce} /\ flip' = "stop" /\ crossed' = FALSE
  /\ pc' = [pc EXCEPT ![c] = "drain"]
  /\ UNCHANGED <<fresh, nonce, token, calls, ops, sock, minted, at, tasks, woken,
                 conns>>

StopFlip(c) ==
  /\ pc[c] = "idle" /\ running
  /\ running' = FALSE /\ nonce' = NoNonce /\ token' = NoToken
  /\ stopped' = stopped \cup {nonce} /\ flip' = "stop" /\ crossed' = FALSE
  /\ pc' = [pc EXCEPT ![c] = "drain"]
  /\ UNCHANGED <<fresh, calls, ops, sock, minted, at, tasks, woken, conns>>

StopDrain(c) ==
  /\ pc[c] = "drain"
  /\ DropWaiters
  /\ pc' = [pc EXCEPT ![c] = "wake"]
  /\ UNCHANGED <<entry, ops, sock, minted, at, tasks, woken, conns, hist>>

StopWake(c) ==
  /\ pc[c] = "wake"
  /\ woken' = [l \in Lives |-> woken[l] \/ InSelect(l)]
  /\ pc' = [pc EXCEPT ![c] = "idle"]
  /\ UNCHANGED <<entry, calls, ops, sock, minted, at, tasks, conns, hist>>

-----------------------------------------------------------------------------
(* request_op: the waiter and its op go in under one lock scope, then the    *)
(* caller waits for an answer, a dropped sender or its timeout.              *)

(* Mutant: the flag is not read in the scope that registers the waiter.      *)
RequestUnchecked(r) ==
  /\ reply[r] = "unsent" /\ Cardinality(pending) < MaxPending
  /\ pending' = pending \cup {r}
  /\ reply' = [reply EXCEPT ![r] = "waiting"]
  /\ queue' = Append(queue, [op |-> r, sent |-> nonce])
  /\ UNCHANGED <<entry, rx, asked, sock, pc, minted, at, tasks, woken, conns,
                 hist>>

Request(r) ==
  /\ reply[r] = "unsent" /\ running /\ Cardinality(pending) < MaxPending
  /\ pending' = pending \cup {r}
  /\ reply' = [reply EXCEPT ![r] = "waiting"]
  /\ queue' = Append(queue, [op |-> r, sent |-> nonce])
  /\ UNCHANGED <<entry, rx, asked, sock, pc, minted, at, tasks, woken, conns,
                 hist>>

(* Mutant: a timed-out waiter stays in the map.                              *)
TimeOutKeepsWaiter(r) ==
  /\ reply[r] = "waiting"
  /\ reply' = [reply EXCEPT ![r] = "late"]
  /\ UNCHANGED <<entry, pending, ops, sock, pc, minted, at, tasks, woken, conns,
                 hist>>

TimeOut(r) ==
  /\ reply[r] = "waiting"
  /\ pending' = pending \ {r}
  /\ reply' = [reply EXCEPT ![r] = "late"]
  /\ UNCHANGED <<entry, ops, sock, pc, minted, at, tasks, woken, conns, hist>>

-----------------------------------------------------------------------------
(* The lifecycle task.  Go(l, p) moves it to p; leaving a select! by another *)
(* branch than the notify drops the wake it may have had.                    *)

Go(l, p) == at' = [at EXCEPT ![l] = p]
LeaveSelect(l) == woken' = [woken EXCEPT ![l] = FALSE]
HangUp(l) == /\ rx' = IF rx = l THEN Nobody ELSE rx
             /\ peer' = [peer EXCEPT ![l] = NoToken]
             /\ line' = [line EXCEPT ![l] = {}]

Top(l) ==
  /\ at[l] = "top"
  /\ Go(l, IF running THEN "bind" ELSE "unbind")
  /\ tok' = [tok EXCEPT ![l] = IF running THEN token ELSE @]
  /\ UNCHANGED <<entry, calls, ops, sock, pc, minted, restarts, woken, conns,
                 hist>>

(* run_once until its select!: the old socket is removed, the new one bound  *)
(* and the child spawned, or one of these fails.                             *)
Launch(l) ==
  /\ at[l] = "bind"
  /\ \/ Go(l, "listen") /\ sock' = l
     \/ Go(l, "broken") /\ sock' \in {Nobody, l}
  /\ UNCHANGED <<entry, calls, ops, pc, minted, tasks, woken, conns, hist>>

(* The child that connects is whichever dialled the path: of two lifecycles  *)
(* the one whose listener is bound there takes the children of both.         *)
Accept(l) ==
  /\ at[l] = "listen" /\ sock = l
  /\ \E c \in Lives : ChildUp(c) /\ peer' = [peer EXCEPT ![l] = tok[c]]
  /\ Go(l, "hello") /\ LeaveSelect(l)
  /\ UNCHANGED <<entry, calls, ops, sock, pc, minted, tasks, line, hist>>

(* handle_conn until its select!: it takes the op receiver if it is there.   *)
Hello(l) ==
  /\ at[l] = "hello"
  /\ rx' = IF rx = Nobody THEN l ELSE rx
  /\ Go(l, "serve")
  /\ UNCHANGED <<entry, calls, queue, asked, sock, pc, minted, tasks, woken,
                 conns, hist>>

(* An op goes to the peer, or is lost when the peer has gone.                *)
Forward(l) ==
  /\ at[l] = "serve" /\ rx = l /\ queue # <<>>
  /\ queue' = Tail(queue)
  /\ \/ asked' = [asked EXCEPT ![Head(queue).op] = peer[l]]
     \/ asked' = asked
  /\ LeaveSelect(l)
  /\ UNCHANGED <<entry, calls, rx, sock, pc, minted, at, tasks, conns, hist>>

(* The peer says something: a status line, or the answer to an op it got.    *)
Speak(l) ==
  /\ at[l] = "serve"
  /\ \E said \in {{}} \cup {{r} : r \in {q \in Requests : asked[q] = peer[l]}} :
       line' = [line EXCEPT ![l] = said]
  /\ Go(l, "check") /\ LeaveSelect(l)
  /\ UNCHANGED <<entry, calls, ops, sock, pc, minted, tasks, peer, hist>>

(* Mutant: a line is relayed without asking whether the app is still wanted. *)
CheckNothing(l) ==
  /\ at[l] = "check"
  /\ Go(l, "verify")
  /\ UNCHANGED <<entry, calls, ops, sock, pc, minted, tasks, woken, conns, hist>>

(* host_wants_running, asked for every line.                                 *)
Check(l) ==
  /\ at[l] = "check"
  /\ Go(l, IF running THEN "verify" ELSE "halt")
  /\ IF running THEN UNCHANGED <<rx, conns>> ELSE HangUp(l)
  /\ UNCHANGED <<entry, calls, queue, asked, sock, pc, minted, tasks, woken,
                 hist>>

Verified(l) == nonce # NoNonce /\ token # NoToken /\ peer[l] = nonce

Verify(l) ==
  /\ at[l] = "verify"
  /\ Go(l, IF Verified(l) THEN "deliver" ELSE "serve")
  /\ line' = IF Verified(l) THEN line ELSE [line EXCEPT ![l] = {}]
  /\ UNCHANGED <<entry, calls, ops, sock, pc, minted, tasks, woken, peer, hist>>

(* A result goes to its waiter if it still has one; anything else is         *)
(* telemetry and changes nothing here.                                       *)
Deliver(l) ==
  /\ at[l] = "deliver"
  /\ reply' = [r \in Requests |->
                 IF r \in line[l] \cap pending THEN "answered" ELSE reply[r]]
  /\ pending' = pending \ line[l]
  /\ line' = [line EXCEPT ![l] = {}]
  /\ Go(l, "serve")
  /\ UNCHANGED <<entry, ops, sock, pc, minted, tasks, woken, peer, hist>>

Disconnect(l) ==
  /\ at[l] = "serve"
  /\ HangUp(l) /\ Go(l, "listen") /\ LeaveSelect(l)
  /\ UNCHANGED <<entry, calls, queue, asked, sock, pc, minted, tasks, hist>>

HearStop(l) ==
  /\ InSelect(l) /\ woken[l]
  /\ HangUp(l) /\ Go(l, "halt") /\ LeaveSelect(l)
  /\ UNCHANGED <<entry, calls, queue, asked, sock, pc, minted, tasks, hist>>

ChildExits(l) ==
  /\ InSelect(l)
  /\ HangUp(l) /\ Go(l, "exited") /\ LeaveSelect(l)
  /\ UNCHANGED <<entry, calls, queue, asked, sock, pc, minted, tasks, hist>>

-----------------------------------------------------------------------------
(* How a launch ends: stopped by the host, the child exited, or no launch.   *)
(* Each fails the waiters first and then goes its way.                       *)

AfterDrain == [halt |-> "unbind", exited |-> "decide", broken |-> "quit"]

FailPending(l) ==
  /\ at[l] \in DOMAIN AfterDrain
  /\ DropWaiters
  /\ Go(l, AfterDrain[at[l]])
  /\ tok' = [tok EXCEPT ![l] = NoToken]
  /\ UNCHANGED <<entry, ops, sock, pc, minted, restarts, woken, conns, hist>>

(* The governor counts the restarts of the window: time may have moved some  *)
(* of them out of it.  A restart rotates the nonce and mints at once.        *)
Restart(l) ==
  /\ at[l] = "decide" /\ running /\ fresh < MaxNonce
  /\ \E inWindow \in 0..restarts[l] :
       /\ inWindow < MaxRestarts
       /\ restarts' = [restarts EXCEPT ![l] = inWindow + 1]
  /\ fresh' = fresh + 1 /\ nonce' = fresh' /\ token' = fresh'
  /\ Go(l, "top")
  /\ UNCHANGED <<running, calls, ops, sock, pc, minted, tok, woken, conns, hist>>

StoppedWhileDeciding(l) ==
  /\ at[l] = "decide" /\ ~running /\ MaxRestarts > 0
  /\ Go(l, "unbind")
  /\ UNCHANGED <<entry, calls, ops, sock, pc, minted, tasks, woken, conns, hist>>

GiveUp(l) ==
  /\ at[l] = "decide" /\ restarts[l] >= MaxRestarts
  /\ Go(l, "quit")
  /\ UNCHANGED <<entry, calls, ops, sock, pc, minted, tasks, woken, conns, hist>>

(* Mutant: giving up forgets the flag.                                       *)
QuitKeepsFlag(l) ==
  /\ at[l] = "quit"
  /\ nonce' = NoNonce /\ token' = NoToken
  /\ Go(l, "unbind")
  /\ UNCHANGED <<running, fresh, calls, ops, sock, pc, minted, tasks, woken,
                 conns, hist>>

Quit(l) ==
  /\ at[l] = "quit"
  /\ running' = FALSE /\ nonce' = NoNonce /\ token' = NoToken
  /\ flip' = IF running THEN "quit" ELSE flip
  /\ crossed' = FALSE
  /\ Go(l, "unbind")
  /\ UNCHANGED <<fresh, calls, ops, sock, pc, minted, tasks, woken, conns,
                 stopped>>

(* cleanup_socket removes the path whoever is bound there.                   *)
Unbind(l) ==
  /\ at[l] = "unbind"
  /\ sock' = Nobody
  /\ Go(l, "free")
  /\ restarts' = [restarts EXCEPT ![l] = 0]
  /\ UNCHANGED <<entry, calls, ops, pc, minted, tok, woken, conns, hist>>

-----------------------------------------------------------------------------
Call(c) == (c \in Starters /\ StartFlip(c)) \/ (c \in Stoppers /\ StopFlip(c))
Finish(c) == StartMint(c) \/ StartStore(c) \/ StopDrain(c) \/ StopWake(c)
Ending(l) == \/ FailPending(l) \/ Restart(l) \/ StoppedWhileDeciding(l)
             \/ GiveUp(l) \/ Quit(l) \/ Unbind(l)
Work(l) == \/ Top(l) \/ Launch(l) \/ Hello(l) \/ Check(l) \/ Verify(l)
           \/ Deliver(l) \/ HearStop(l) \/ Ending(l)
Child(l) == Speak(l) \/ ChildExits(l)
Peer(l) == Accept(l) \/ Forward(l) \/ Disconnect(l)

Next == \/ \E c \in Callers : Call(c) \/ Finish(c)
        \/ \E r \in Requests : Request(r) \/ TimeOut(r)
        \/ \E l \in Lives : Work(l) \/ Child(l) \/ Peer(l)

Spec == Init /\ [][Next]_vars

(* Tasks are scheduled: a step that stays possible is taken.                 *)
Scheduled == /\ \A c \in Callers : WF_vars(Finish(c))
             /\ \A l \in Lives : WF_vars(Work(l))
QuietSpec == Spec /\ Scheduled

(* Besides, no child is both silent and immortal: in the end it says         *)
(* something on its connection or exits.                                     *)
FairSpec == QuietSpec /\ \A l \in Lives : SF_vars(Child(l))

-----------------------------------------------------------------------------
(* Properties.                                                               *)

Tokens == -1..MaxNonce
Ops == [op : Requests, sent : 0..MaxNonce]

TypeOK ==
  /\ running \in BOOLEAN /\ nonce \in 0..MaxNonce /\ token \in Tokens
  /\ fresh \in 0..MaxNonce
  /\ pending \subseteq Requests /\ queue \in Seq(Ops)
  /\ rx \in Lives \cup {Nobody} /\ sock \in Lives \cup {Nobody}
  /\ pc \in [Callers -> {"idle", "mint", "store", "drain", "wake"}]
  /\ minted \in [Callers -> Tokens]
  /\ at \in [Lives -> Places] /\ tok \in [Lives -> Tokens]
  /\ restarts \in [Lives -> 0..MaxRestarts] /\ woken \in [Lives -> BOOLEAN]
  /\ peer \in [Lives -> Tokens] /\ line \in [Lives -> SUBSET Requests]
  /\ reply \in [Requests -> {"unsent", "waiting", "answered", "gone", "late"}]
  /\ asked \in [Requests -> Tokens \cup {Unasked}]
  /\ stopped \subseteq 0..MaxNonce /\ flip \in {"none", "stop", "quit"}
  /\ crossed \in BOOLEAN

(* A stop leaves no request waiting: once the flag that a stop put down is   *)
(* down and no stop still has to drain, nobody waits for an answer, because  *)
(* request_op checks the flag and registers its waiter under one lock scope. *)
StopDrains ==
  (~running /\ flip = "stop" /\ ~\E c \in Callers : pc[c] = "drain")
    => \A r \in Requests : reply[r] # "waiting"

(* A request whose caller still waits has its waiter in the map that every   *)
(* terminal path drains, and nobody else is in it: no timeout, answer or     *)
(* teardown leaves a waiter nobody can wake or a sender nobody awaits.       *)
WaitersKnown == pending = {r \in Requests : reply[r] = "waiting"}

(* An app shown as running is being run: unless a start overtook a stop      *)
(* between its flip and its notify, a set flag has a start on its way or a   *)
(* lifecycle that has not been told to end.  start is a no-op on a running   *)
(* app, so a flag without a lifecycle would stay until somebody stops it.    *)
Supervising(l) == ~woken[l] /\ at[l] \notin {"free", "halt", "unbind"}
RunningIsSupervised ==
  (running /\ ~crossed)
    => \/ \E c \in Callers : Starting(c)
       \/ \E l \in Lives : Supervising(l)

(* What a stop cut off stays cut off: no line of a child whose nonce a stop  *)
(* has ended passes verification, whatever was in flight, restarted or       *)
(* stored late.                                                              *)
StopSilences ==
  [][\A l \in Lives : (at[l] = "verify" /\ at'[l] = "deliver")
                        => peer[l] \notin stopped]_vars

(* An app that is stopped and not started again comes to rest: no lifecycle  *)
(* and no child is left (under FairSpec: the child speaks or exits).         *)
StoppedComesToRest ==
  (<>[]~running) => <>[](\A l \in Lives : at[l] = "free")

(* The same without the child's help, as stop promises it: it wakes the      *)
(* lifecycle, which tears a quiet app down immediately.                      *)
StopTearsDown ==
  (<>[]~running) => <>[](\A l \in Lives : ~ChildUp(l))

(* An op queued for a launch that was stopped is not given to another: as    *)
(* send_op and request_op promise, it is never queued for a future launch.   *)
NoStaleOp ==
  [][\A r \in Requests :
       asked'[r] # asked[r] /\ Head(queue).sent \in stopped
         => asked'[r] = Head(queue).sent]_vars
=============================================================================
