----------------------------- MODULE Telemetry -----------------------------
(***************************************************************************)
(* The telemetry hub (telemetry.rs): a live broadcast with no history, in  *)
(* front of which the latest frame of every announce key is retained for   *)
(* the clients that connect later.                                         *)
(*                                                                         *)
(* An emitter retains its frame and then sends it, two steps.  A client is *)
(* subscribed when its connection is accepted, is shown the retained frames*)
(* after the handshake, one by one, and only then the live ones.  A frame  *)
(* is its key and a number; what it says is data.                          *)
(***************************************************************************)
EXTENDS Integers, Sequences

CONSTANTS
  Emitters,    \* the tasks that emit
  Clients,     \* the sockets
  Keys,        \* what a frame is about
  Sticky,      \* the keys sticky_key retains
  Emits,       \* per emitter the keys it emits
  None,
  Ring,        \* the broadcast channel keeps this many frames
  StickyCap,   \* STICKY_CAP
  MaxFrames    \* bound: frames emitted

Frame == [key : Keys, n : 1 .. MaxFrames]

ASSUME TelemetryAssumption ==
  /\ Sticky \subseteq Keys
  /\ Emits \in [Emitters -> SUBSET Keys]
  /\ Ring \in Nat \ {0} /\ StickyCap \in Nat \ {0} /\ MaxFrames \in Nat
  /\ None \notin Frame

\* Is announcing k the business of one task?  The lockdown posture is not: the
\* voice loop and every command connection emit it.
OneEmitter(k) ==
  \A e, f \in Emitters : k \in Emits[e] \cap Emits[f] => e = f

VARIABLES
  sticky,      \* STICKY, in order of insertion
  sent,        \* every frame handed to the channel
  minted,      \* frames built so far
  out,         \* per emitter the frame it retained and has not sent yet
  pc,          \* where each connection is
  joined,      \* Len(sent) when the client was subscribed
  pos,         \* the last frame of sent its receiver is past
  replay,      \* retained frames it has still to be shown
  lagged,      \* has its receiver skipped frames?
  view         \* per key the last frame it was shown

hub     == <<sticky, sent, minted, out>>
clients == <<pc, joined, pos, replay, lagged, view>>
vars    == <<hub, clients>>

-----------------------------------------------------------------------------
(* emit.                                                                     *)

\* A frame takes the place of its predecessor; a new key at the cap evicts the
\* key that was inserted first, however recent its frame.
RetainSticky(f) ==
  IF \E i \in DOMAIN sticky : sticky[i].key = f.key
  THEN [i \in DOMAIN sticky |-> IF sticky[i].key = f.key THEN f ELSE sticky[i]]
  ELSE Append(IF Len(sticky) >= StickyCap THEN Tail(sticky) ELSE sticky, f)

Emit(e) ==
  /\ out[e] = None /\ minted < MaxFrames
  /\ minted' = minted + 1
  /\ \E k \in Emits[e] :
       LET f == [key |-> k, n |-> minted + 1] IN
       /\ out' = [out EXCEPT ![e] = f]
       /\ sticky' = IF k \in Sticky THEN RetainSticky(f) ELSE sticky
  /\ UNCHANGED <<sent, clients>>

Send(e) ==
  /\ out[e] # None
  /\ sent' = Append(sent, out[e])
  /\ out' = [out EXCEPT ![e] = None]
  /\ UNCHANGED <<sticky, minted, clients>>

-----------------------------------------------------------------------------
(* serve.                                                                    *)

Accept(c) ==
  /\ pc[c] = "off"
  /\ pc' = [pc EXCEPT ![c] = "handshake"]
  /\ joined' = [joined EXCEPT ![c] = Len(sent)]
  /\ pos' = [pos EXCEPT ![c] = Len(sent)]
  /\ lagged' = [lagged EXCEPT ![c] = FALSE]
  /\ UNCHANGED <<hub, replay, view>>

Snapshot(c) ==
  /\ pc[c] = "handshake"
  /\ pc' = [pc EXCEPT ![c] = "replay"]
  /\ replay' = [replay EXCEPT ![c] = sticky]
  /\ UNCHANGED <<hub, joined, pos, lagged, view>>

Show(c, f) == view' = [view EXCEPT ![c][f.key] = f]

Replay(c) ==
  /\ pc[c] = "replay" /\ replay[c] # <<>>
  /\ Show(c, Head(replay[c]))
  /\ replay' = [replay EXCEPT ![c] = Tail(@)]
  /\ UNCHANGED <<hub, pc, joined, pos, lagged>>

\* Mutant: the client is subscribed once the replay is over.
GoLiveFromNow(c) ==
  /\ pc[c] = "replay" /\ replay[c] = <<>>
  /\ pc' = [pc EXCEPT ![c] = "live"]
  /\ pos' = [pos EXCEPT ![c] = Len(sent)]
  /\ UNCHANGED <<hub, joined, replay, lagged, view>>

GoLive(c) ==
  /\ pc[c] = "replay" /\ replay[c] = <<>>
  /\ pc' = [pc EXCEPT ![c] = "live"]
  /\ UNCHANGED <<hub, joined, pos, replay, lagged, view>>

Behind(c) == Len(sent) - pos[c] > Ring

Receive(c) ==
  /\ pc[c] = "live" /\ pos[c] < Len(sent) /\ ~Behind(c)
  /\ Show(c, sent[pos[c] + 1])
  /\ pos' = [pos EXCEPT ![c] = @ + 1]
  /\ UNCHANGED <<hub, pc, joined, replay, lagged>>

\* Mutant: a receiver that lagged resumes at the end of the channel.
LaggedToEnd(c) ==
  /\ pc[c] = "live" /\ Behind(c)
  /\ pos' = [pos EXCEPT ![c] = Len(sent)]
  /\ lagged' = [lagged EXCEPT ![c] = TRUE]
  /\ UNCHANGED <<hub, pc, joined, replay, view>>

\* Mutant: the receiver is told that it lagged, again and again.
LaggedStays(c) ==
  /\ pc[c] = "live" /\ Behind(c)
  /\ lagged' = [lagged EXCEPT ![c] = TRUE]
  /\ UNCHANGED <<hub, pc, joined, pos, replay, view>>

\* The channel overran the receiver, which resumes at the oldest frame kept.
Lagged(c) ==
  /\ pc[c] = "live" /\ Behind(c)
  /\ pos' = [pos EXCEPT ![c] = Len(sent) - Ring]
  /\ lagged' = [lagged EXCEPT ![c] = TRUE]
  /\ UNCHANGED <<hub, pc, joined, replay, view>>

\* The handshake is refused, a send fails or the socket closes.  The HUD keeps
\* what it shows of the announces and connects again.
Disconnect(c) ==
  /\ pc[c] # "off"
  /\ pc' = [pc EXCEPT ![c] = "off"]
  /\ replay' = [replay EXCEPT ![c] = <<>>]
  /\ UNCHANGED <<hub, joined, pos, lagged, view>>

-----------------------------------------------------------------------------
Init ==
  /\ sticky = <<>> /\ sent = <<>> /\ minted = 0
  /\ out = [e \in Emitters |-> None]
  /\ pc = [c \in Clients |-> "off"]
  /\ joined = [c \in Clients |-> 0] /\ pos = [c \in Clients |-> 0]
  /\ replay = [c \in Clients |-> <<>>]
  /\ lagged = [c \in Clients |-> FALSE]
  /\ view = [c \in Clients |-> [k \in Keys |-> None]]

Serve(c) ==
  Snapshot(c) \/ Replay(c) \/ GoLive(c) \/ Receive(c) \/ Lagged(c)

Next ==
  \/ \E e \in Emitters : Emit(e) \/ Send(e)
  \/ \E c \in Clients : Accept(c) \/ Serve(c) \/ Disconnect(c)

\* emit does not await between its two steps, and a connection's task is
\* scheduled as long as its peer reads.
Fairness ==
  /\ \A e \in Emitters : WF_vars(Send(e))
  /\ \A c \in Clients : WF_vars(Serve(c))

Spec == Init /\ [][Next]_vars
FairSpec == Spec /\ Fairness

-----------------------------------------------------------------------------
\* Every variable keeps its type, and the hub retains at most STICKY_CAP frames.
TypeOK ==
  /\ sticky \in Seq(Frame) /\ Len(sticky) <= StickyCap
  /\ sent \in Seq(Frame)
  /\ minted \in 0 .. MaxFrames
  /\ out \in [Emitters -> Frame \cup {None}]
  /\ pc \in [Clients -> {"off", "handshake", "replay", "live"}]
  /\ joined \in [Clients -> Nat] /\ pos \in [Clients -> Nat]
  /\ \A c \in Clients : joined[c] <= pos[c] /\ pos[c] <= Len(sent)
  /\ replay \in [Clients -> Seq(Frame)]
  /\ lagged \in [Clients -> BOOLEAN]
  /\ view \in [Clients -> [Keys -> Frame \cup {None}]]

CaughtUp(c) == pc[c] = "live" /\ pos[c] = Len(sent)

InFlight(k) == \E e \in Emitters : out[e] # None /\ out[e].key = k

ShowsRetained(c, i) ==
  OneEmitter(sticky[i].key) => view[c][sticky[i].key] = sticky[i]

\* serve, the subscription before the snapshot: whenever a client has drained
\* its receiver without a lag, what it shows of an announce of one task is the
\* very frame the hub retains, whatever was emitted, replaced and evicted while
\* it connected.
CaughtUpShowsRetained ==
  \A c \in Clients : CaughtUp(c) /\ ~lagged[c] =>
    \A i \in DOMAIN sticky :
      InFlight(sticky[i].key) \/ ShowsRetained(c, i)

\* Is the i-th frame the last one sent about its key?
LastOfKey(i) == \A j \in i + 1 .. Len(sent) : sent[j].key # sent[i].key

\* serve, Lagged: a slow client misses frames, but of the last Ring frames sent
\* since it connected it misses none.
RecentAlwaysShown ==
  \A c \in Clients : CaughtUp(c) =>
    \A i \in DOMAIN sent :
      i > joined[c] /\ i > Len(sent) - Ring /\ LastOfKey(i) =>
        view[c][sent[i].key] = sent[i]

\* A client that stays connected ends up with nothing left to receive, and
\* unless it lagged with every announce of one task the hub retains.
SettlesOnLatest ==
  \A c \in Clients :
    <>[](pc[c] # "off") =>
      <>[](/\ CaughtUp(c)
           /\ lagged[c] \/ \A i \in DOMAIN sticky : ShowsRetained(c, i))
=============================================================================
