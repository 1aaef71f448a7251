-------------------------- MODULE Telemetry_proofs --------------------------
(***************************************************************************)
(* Theorems about the telemetry hub, for any emitters, clients, keys, ring *)
(* and cap: type correctness, that a client that is caught up and did not  *)
(* lag shows every retained frame, and that a slow one misses none of the  *)
(* last Ring frames.                                                       *)
(***************************************************************************)
EXTENDS Telemetry, TLAPS

-----------------------------------------------------------------------------
(* retain_sticky. *)

\* At most one frame per key.
KeysOnce(s) ==
  \A i, j \in 1 .. Len(s) : s[i].key = s[j].key => i = j

LEMMA RetainStickyShape ==
  ASSUME sticky \in Seq(Frame), Len(sticky) <= StickyCap, KeysOnce(sticky),
         NEW f \in Frame
  PROVE  /\ RetainSticky(f) \in Seq(Frame)
         /\ Len(RetainSticky(f)) <= StickyCap
         /\ KeysOnce(RetainSticky(f))
         /\ \A i \in 1 .. Len(RetainSticky(f)) :
              \/ RetainSticky(f)[i] = f
              \/ /\ RetainSticky(f)[i].key # f.key
                 /\ \E j \in 1 .. Len(sticky) : RetainSticky(f)[i] = sticky[j]
  <1> USE TelemetryAssumption DEF TelemetryAssumption
  <1>1. DOMAIN sticky = 1 .. Len(sticky) /\ Len(sticky) \in Nat
    OBVIOUS
  <1>2. CASE \E i \in DOMAIN sticky : sticky[i].key = f.key
    <2> DEFINE s == [i \in DOMAIN sticky |->
                       IF sticky[i].key = f.key THEN f ELSE sticky[i]]
    <2>1. RetainSticky(f) = s
      BY <1>2 DEF RetainSticky
    <2>2. s \in Seq(Frame) /\ Len(s) = Len(sticky)
      <3>1. s \in [1 .. Len(sticky) -> Frame]
        BY <1>1
      <3> HIDE DEF s
      <3> QED
        BY <1>1, <3>1
    <2>3. \A i \in 1 .. Len(sticky) : s[i].key = sticky[i].key
      BY <1>1
    <2>4. KeysOnce(s)
      <3> HIDE DEF s
      <3> QED
        BY <2>2, <2>3 DEF KeysOnce
    <2>5. \A i \in 1 .. Len(sticky) :
            \/ s[i] = f
            \/ s[i].key # f.key /\ s[i] = sticky[i]
      BY <1>1
    <2> HIDE DEF s
    <2> QED
      BY <2>1, <2>2, <2>4, <2>5
  <1>3. CASE ~ \E i \in DOMAIN sticky : sticky[i].key = f.key
    <2> DEFINE b == IF Len(sticky) >= StickyCap THEN Tail(sticky) ELSE sticky
               s == Append(b, f)
    <2>1. RetainSticky(f) = s
      BY <1>3 DEF RetainSticky
    <2>2. b \in Seq(Frame) /\ Len(b) \in Nat /\ Len(b) + 1 <= StickyCap
      <3>1. CASE Len(sticky) >= StickyCap
        BY <1>1, <3>1
      <3>2. CASE ~(Len(sticky) >= StickyCap)
        BY <1>1, <3>2
      <3> QED
        BY <3>1, <3>2
    <2>3. \A i \in 1 .. Len(b) : \E j \in 1 .. Len(sticky) : b[i] = sticky[j]
      <3>1. CASE Len(sticky) >= StickyCap
        <4>1. sticky # <<>>
          BY <3>1
        <4>2. \A i \in 1 .. Len(b) : b[i] = sticky[i + 1] /\ i + 1 \in 1 .. Len(sticky)
          BY <1>1, <3>1, <4>1
        <4> QED
          BY <4>2
      <3>2. CASE ~(Len(sticky) >= StickyCap)
        BY <3>2
      <3> QED
        BY <3>1, <3>2
    <2>4. KeysOnce(b)
      <3>1. CASE Len(sticky) >= StickyCap
        <4>1. sticky # <<>>
          BY <3>1
        <4>2. \A i \in 1 .. Len(b) : b[i] = sticky[i + 1] /\ i + 1 \in 1 .. Len(sticky)
          BY <1>1, <3>1, <4>1
        <4>3. ASSUME NEW i \in 1 .. Len(b), NEW j \in 1 .. Len(b), b[i].key = b[j].key
              PROVE  i = j
          <5>1. i + 1 = j + 1
            BY <4>2, <4>3 DEF KeysOnce
          <5> QED
            BY <2>2, <5>1
        <4> QED
          BY <4>3 DEF KeysOnce
      <3>2. CASE ~(Len(sticky) >= StickyCap)
        BY <3>2
      <3> QED
        BY <3>1, <3>2
    <2>5. \A i \in 1 .. Len(b) : b[i].key # f.key
      BY <1>1, <1>3, <2>3
    <2> HIDE DEF b
    <2>6. /\ s \in Seq(Frame) /\ Len(s) = Len(b) + 1
          /\ \A i \in 1 .. Len(b) : s[i] = b[i]
          /\ s[Len(b) + 1] = f
      BY <2>2
    <2> HIDE DEF s
    <2>7. \A i \in 1 .. Len(s) : i \in 1 .. Len(b) \/ i = Len(b) + 1
      BY <2>2, <2>6
    <2>8. KeysOnce(s)
      <3>1. ASSUME NEW i \in 1 .. Len(s), NEW j \in 1 .. Len(s), s[i].key = s[j].key
            PROVE  i = j
        BY <2>4, <2>5, <2>6, <2>7, <3>1 DEF KeysOnce
      <3> QED
        BY <3>1 DEF KeysOnce
    <2> QED
      BY <2>1, <2>2, <2>3, <2>5, <2>6, <2>7, <2>8
  <1> QED
    BY <1>2, <1>3

-----------------------------------------------------------------------------
(* Type correctness, with the keys of the retained frames. *)

(* The retained frames are of sticky keys, one each; a frame on its way, of  *)
(* a key that one task emits, is still the retained frame of its key.        *)
HubOK ==
  /\ KeysOnce(sticky)
  /\ \A i \in 1 .. Len(sticky) : sticky[i].key \in Sticky
  /\ \A e \in Emitters : out[e] # None =>
       /\ out[e].key \in Emits[e]
       /\ OneEmitter(out[e].key) =>
            \A i \in 1 .. Len(sticky) :
              sticky[i].key = out[e].key => sticky[i] = out[e]

LEMMA InitHub == Init => TypeOK /\ HubOK
  <1> SUFFICES ASSUME Init PROVE TypeOK /\ HubOK
    OBVIOUS
  <1> USE TelemetryAssumption DEF TelemetryAssumption
  <1>1. /\ sticky \in Seq(Frame) /\ Len(sticky) = 0 /\ sent \in Seq(Frame)
        /\ Len(sent) = 0 /\ Len(sticky) <= StickyCap /\ minted \in 0 .. MaxFrames
    BY DEF Init
  <1>2. /\ joined \in [Clients -> Nat] /\ pos \in [Clients -> Nat]
        /\ \A c \in Clients : joined[c] <= pos[c] /\ pos[c] <= Len(sent)
    BY <1>1 DEF Init
  <1>3. /\ replay \in [Clients -> Seq(Frame)] /\ lagged \in [Clients -> BOOLEAN]
        /\ pc \in [Clients -> {"off", "handshake", "replay", "live"}]
    BY DEF Init
  <1>4. /\ view \in [Clients -> [Keys -> Frame \cup {None}]]
        /\ out \in [Emitters -> Frame \cup {None}]
    BY DEF Init
  <1>5. HubOK
    BY <1>1 DEF Init, HubOK, KeysOnce
  <1> QED
    BY <1>1, <1>2, <1>3, <1>4, <1>5 DEF TypeOK

LEMMA HubStep == TypeOK /\ HubOK /\ [Next]_vars => TypeOK' /\ HubOK'
  <1> SUFFICES ASSUME TypeOK, HubOK, [Next]_vars
               PROVE  TypeOK' /\ HubOK'
    OBVIOUS
  <1> USE TelemetryAssumption DEF TelemetryAssumption
  <1>1. ASSUME NEW e \in Emitters, Emit(e) PROVE TypeOK' /\ HubOK'
    <2>1. PICK k \in Emits[e] :
            LET f == [key |-> k, n |-> minted + 1] IN
            /\ out' = [out EXCEPT ![e] = f]
            /\ sticky' = IF k \in Sticky THEN RetainSticky(f) ELSE sticky
      BY <1>1 DEF Emit
    <2> DEFINE f == [key |-> k, n |-> minted + 1]
    <2>2. f \in Frame /\ minted' \in 0 .. MaxFrames
      <3>1. k \in Keys
        OBVIOUS
      <3>2. minted + 1 \in 1 .. MaxFrames /\ minted' = minted + 1
        BY <1>1 DEF Emit, TypeOK
      <3> QED
        BY <3>1, <3>2 DEF Frame
    <2>3. f.key = k /\ f # None
      BY <2>2
    <2> HIDE DEF f
    <2>4. out' = [out EXCEPT ![e] = f] /\ out[e] = None
      BY <1>1, <2>1 DEF Emit, f
    <2>5. /\ sticky' \in Seq(Frame) /\ Len(sticky') <= StickyCap
          /\ KeysOnce(sticky)'
          /\ \A i \in 1 .. Len(sticky') :
               \/ sticky'[i] = f /\ k \in Sticky
               \/ \E j \in 1 .. Len(sticky) :
                    sticky'[i] = sticky[j] /\ (k \in Sticky => sticky[j].key # k)
      <3>1. CASE k \in Sticky
        <4>1. sticky' = RetainSticky(f)
          BY <2>1, <3>1 DEF f
        <4> DEFINE s == RetainSticky(f)
        <4>2. /\ sticky \in Seq(Frame) /\ Len(sticky) <= StickyCap
              /\ KeysOnce(sticky)
          BY DEF TypeOK, HubOK
        <4>3. /\ s \in Seq(Frame) /\ Len(s) <= StickyCap /\ KeysOnce(s)
              /\ \A i \in 1 .. Len(s) :
                   \/ s[i] = f
                   \/ /\ s[i].key # f.key
                      /\ \E j \in 1 .. Len(sticky) : s[i] = sticky[j]
          BY <2>2, <4>2, RetainStickyShape
        <4>4. sticky' = s
          BY <4>1
        <4> HIDE DEF s
        <4>5. KeysOnce(sticky)'
          BY <4>3, <4>4 DEF KeysOnce
        <4> QED
          BY <2>3, <3>1, <4>3, <4>4, <4>5
      <3>2. CASE k \notin Sticky
        <4>1. sticky' = sticky
          BY <2>1, <3>2
        <4> QED
          BY <3>2, <4>1 DEF TypeOK, HubOK, KeysOnce
      <3> QED
        BY <3>1, <3>2
    <2>6. TypeOK'
      BY <1>1, <2>2, <2>4, <2>5 DEF TypeOK, Emit, clients
    <2>7. \A i \in 1 .. Len(sticky') : sticky'[i].key \in Sticky
      BY <2>3, <2>5 DEF HubOK
    <2>8. ASSUME NEW d \in Emitters, out'[d] # None
          PROVE  /\ out'[d].key \in Emits[d]
                 /\ OneEmitter(out'[d].key) =>
                      \A i \in 1 .. Len(sticky') :
                        sticky'[i].key = out'[d].key => sticky'[i] = out'[d]
      <3>1. CASE d = e
        <4>1. out'[d] = f
          BY <2>4, <3>1 DEF TypeOK
        <4> QED
          BY <2>3, <2>5, <3>1, <4>1 DEF HubOK
      <3>2. CASE d # e
        <4>1. out'[d] = out[d]
          BY <2>4, <3>2 DEF TypeOK
        <4>2. /\ out[d].key \in Emits[d]
              /\ OneEmitter(out[d].key) => out[d].key # k
          BY <2>8, <3>2, <4>1 DEF HubOK, OneEmitter
        <4> QED
          BY <2>3, <2>5, <2>8, <4>1, <4>2 DEF HubOK
      <3> QED
        BY <3>1, <3>2
    <2> QED
      BY <2>5, <2>6, <2>7, <2>8 DEF HubOK
  <1>2. ASSUME NEW e \in Emitters, Send(e) PROVE TypeOK' /\ HubOK'
    <2>1. out[e] \in Frame
      BY <1>2 DEF Send, TypeOK
    <2>2. sent' \in Seq(Frame) /\ Len(sent') = Len(sent) + 1 /\ Len(sent) \in Nat
      BY <1>2, <2>1 DEF Send, TypeOK
    <2>3. out' \in [Emitters -> Frame \cup {None}]
      BY <1>2 DEF Send, TypeOK
    <2>4. \A c \in Clients : joined[c] <= pos[c] /\ pos[c] <= Len(sent')
      BY <2>2 DEF TypeOK
    <2>5. TypeOK'
      BY <1>2, <2>2, <2>3, <2>4 DEF Send, TypeOK, clients
    <2>6. \A d \in Emitters : out'[d] # None => out'[d] = out[d]
      BY <1>2 DEF Send, TypeOK
    <2>7. sticky' = sticky
      BY <1>2 DEF Send
    <2>8. HubOK'
      BY <2>6, <2>7 DEF HubOK, KeysOnce
    <2> QED
      BY <2>5, <2>8
  <1>3. ASSUME NEW c \in Clients, Accept(c) PROVE TypeOK'
    BY <1>3 DEF Accept, TypeOK, hub
  <1>4. ASSUME NEW c \in Clients, Snapshot(c) PROVE TypeOK'
    BY <1>4 DEF Snapshot, TypeOK, hub
  <1>5. ASSUME NEW c \in Clients, Replay(c) PROVE TypeOK'
    <2>1. Head(replay[c]) \in Frame /\ Tail(replay[c]) \in Seq(Frame)
      BY <1>5 DEF Replay, TypeOK
    <2>2. view' \in [Clients -> [Keys -> Frame \cup {None}]]
      BY <1>5, <2>1 DEF Replay, Show, TypeOK, Frame
    <2> QED
      BY <1>5, <2>1, <2>2 DEF Replay, TypeOK, hub
  <1>6. ASSUME NEW c \in Clients, GoLive(c) PROVE TypeOK'
    BY <1>6 DEF GoLive, TypeOK, hub
  <1>7. ASSUME NEW c \in Clients, Receive(c) PROVE TypeOK'
    <2>1. sent[pos[c] + 1] \in Frame /\ pos[c] + 1 <= Len(sent)
      BY <1>7 DEF Receive, TypeOK
    <2>2. view' \in [Clients -> [Keys -> Frame \cup {None}]]
      BY <1>7, <2>1 DEF Receive, Show, TypeOK, Frame
    <2>3. /\ pos' \in [Clients -> Nat]
          /\ \A d \in Clients : joined[d] <= pos'[d] /\ pos'[d] <= Len(sent)
      BY <1>7, <2>1 DEF Receive, TypeOK
    <2> QED
      BY <1>7, <2>2, <2>3 DEF Receive, TypeOK, hub
  <1>8. ASSUME NEW c \in Clients, Lagged(c) PROVE TypeOK'
    BY <1>8 DEF Lagged, Behind, TypeOK, hub
  <1>9. ASSUME NEW c \in Clients, Disconnect(c) PROVE TypeOK'
    BY <1>9 DEF Disconnect, TypeOK, hub
  <1>10. ASSUME NEW c \in Clients, Accept(c) \/ Serve(c) \/ Disconnect(c)
         PROVE  HubOK'
    BY <1>10 DEF Accept, Serve, Snapshot, Replay, GoLive, Receive, Lagged,
                 Disconnect, hub, HubOK, KeysOnce
  <1>11. CASE UNCHANGED vars
    BY <1>11 DEF vars, hub, clients, TypeOK, HubOK, KeysOnce
  <1> QED
    BY <1>1, <1>2, <1>3, <1>4, <1>5, <1>6, <1>7, <1>8, <1>9, <1>10, <1>11
    DEF Next, Serve

-----------------------------------------------------------------------------
(* What a client that has not lagged is going to show. *)

(* Frame f is among those the client still has to receive, and is the last   *)
(* of its key there.                                                         *)
Coming(c, f) ==
  \E j \in pos[c] + 1 .. Len(sent) : sent[j] = f /\ LastOfKey(j)

NothingComing(c, k) == \A j \in pos[c] + 1 .. Len(sent) : sent[j].key # k

(* The client has f already, or will be shown it before it goes live.        *)
Has(c, f) ==
  /\ pc[c] = "replay" =>
       /\ \A i \in 1 .. Len(replay[c]) :
            replay[c][i].key = f.key => replay[c][i] = f
       /\ \/ view[c][f.key] = f
          \/ \E i \in 1 .. Len(replay[c]) : replay[c][i] = f
  /\ pc[c] = "live" => view[c][f.key] = f

Due(c, f) == Coming(c, f) \/ (NothingComing(c, f.key) /\ Has(c, f))

WillShow ==
  \A c \in Clients : pc[c] # "off" /\ ~lagged[c] =>
    \A i \in 1 .. Len(sticky) :
      OneEmitter(sticky[i].key) /\ ~InFlight(sticky[i].key) => Due(c, sticky[i])

(* The hub is left alone and so is all of this of the other clients.         *)
LEMMA OthersWillShow ==
  ASSUME WillShow, NEW c \in Clients, UNCHANGED hub,
         \A d \in Clients \ {c} :
           /\ pc'[d] = pc[d] /\ pos'[d] = pos[d] /\ replay'[d] = replay[d]
           /\ lagged'[d] = lagged[d] /\ view'[d] = view[d],
         pc'[c] # "off" /\ ~lagged'[c] =>
           \A i \in 1 .. Len(sticky) :
             OneEmitter(sticky[i].key) /\ ~InFlight(sticky[i].key)
               => Due(c, sticky[i])'
  PROVE  WillShow'
  <1>1. /\ sticky' = sticky /\ sent' = sent /\ out' = out
    BY DEF hub
  <1>2. ASSUME NEW d \in Clients \ {c}, NEW f
        PROVE  Due(d, f) => Due(d, f)'
    BY <1>1 DEF Due, Coming, NothingComing, Has, LastOfKey
  <1> QED
    BY <1>1, <1>2 DEF WillShow, InFlight, OneEmitter

LEMMA WillShowStep ==
  TypeOK /\ TypeOK' /\ HubOK /\ WillShow /\ [Next]_vars => WillShow'
  <1> SUFFICES ASSUME TypeOK, TypeOK', HubOK, WillShow, [Next]_vars
               PROVE  WillShow'
    OBVIOUS
  <1> USE TelemetryAssumption DEF TelemetryAssumption
  <1>1. ASSUME NEW e \in Emitters, Emit(e) PROVE WillShow'
    <2>1. PICK k \in Emits[e] :
            LET f == [key |-> k, n |-> minted + 1] IN
            /\ out' = [out EXCEPT ![e] = f]
            /\ sticky' = IF k \in Sticky THEN RetainSticky(f) ELSE sticky
      BY <1>1 DEF Emit
    <2> DEFINE f == [key |-> k, n |-> minted + 1]
    <2>2. f \in Frame
      <3>1. k \in Keys
        OBVIOUS
      <3>2. minted + 1 \in 1 .. MaxFrames
        BY <1>1 DEF Emit, TypeOK
      <3> QED
        BY <3>1, <3>2 DEF Frame
    <2>3. f.key = k /\ f # None
      BY <2>2
    <2> HIDE DEF f
    <2>4. out' = [out EXCEPT ![e] = f] /\ out[e] = None
      BY <1>1, <2>1 DEF Emit, f
    <2>5. UNCHANGED <<sent, clients>>
      BY <1>1 DEF Emit
    <2>6. InFlight(k)'
      BY <2>3, <2>4 DEF InFlight, TypeOK
    <2>7. \A i \in 1 .. Len(sticky') :
            \/ sticky'[i].key = k
            \/ \E j \in 1 .. Len(sticky) : sticky'[i] = sticky[j]
      <3>1. CASE k \in Sticky
        <4>1. sticky' = RetainSticky(f)
          BY <2>1, <3>1 DEF f
        <4>2. /\ sticky \in Seq(Frame) /\ Len(sticky) <= StickyCap
              /\ KeysOnce(sticky)
          BY DEF TypeOK, HubOK
        <4>3. \A i \in 1 .. Len(RetainSticky(f)) :
                \/ RetainSticky(f)[i] = f
                \/ \E j \in 1 .. Len(sticky) : RetainSticky(f)[i] = sticky[j]
          BY <2>2, <4>2, RetainStickyShape
        <4> QED
          BY <2>3, <4>1, <4>3
      <3>2. CASE k \notin Sticky
        BY <2>1, <3>2
      <3> QED
        BY <3>1, <3>2
    <2>8. ASSUME NEW q, InFlight(q) PROVE InFlight(q)'
      <3>1. PICK d \in Emitters : out[d] # None /\ out[d].key = q
        BY <2>8 DEF InFlight
      <3>2. out'[d] = out[d]
        BY <2>4, <3>1 DEF TypeOK
      <3> QED
        BY <3>1, <3>2 DEF InFlight
    <2>9. ASSUME NEW c \in Clients, NEW g PROVE Due(c, g) => Due(c, g)'
      BY <2>5 DEF Due, Coming, NothingComing, Has, LastOfKey, clients
    <2>10. ASSUME NEW c \in Clients, pc'[c] # "off", ~lagged'[c],
                  NEW i \in 1 .. Len(sticky'), OneEmitter(sticky[i].key)',
                  ~InFlight(sticky[i].key)'
           PROVE  Due(c, sticky[i])'
      <3>1. sticky'[i].key # k
        BY <2>6, <2>10 DEF InFlight
      <3>2. PICK j \in 1 .. Len(sticky) : sticky'[i] = sticky[j]
        BY <2>7, <3>1
      <3>3. PICK g : g = sticky[j]
        OBVIOUS
      <3>4. ~InFlight(g.key)
        <4>1. ~InFlight(g.key)'
          BY <2>10, <3>2, <3>3 DEF InFlight
        <4> QED
          BY <2>8, <4>1
      <3>5. pc[c] # "off" /\ ~lagged[c]
        BY <2>5, <2>10 DEF clients
      <3>6. Due(c, g)
        <4>1. OneEmitter(sticky[j].key)
          BY <2>10, <3>2 DEF OneEmitter
        <4> QED
          BY <3>3, <3>4, <3>5, <4>1 DEF WillShow
      <3>7. Due(c, g)'
        BY <2>9, <3>6
      <3> QED
        BY <3>2, <3>3, <3>7 DEF Due, Coming, NothingComing, Has
    <2> QED
      BY <2>10 DEF WillShow
  <1>2. ASSUME NEW e \in Emitters, Send(e) PROVE WillShow'
    <2> DEFINE f == out[e]
    <2>0. PICK m \in Nat : m = Len(sent) + 1
      BY DEF TypeOK
    <2>1. f \in Frame /\ sent' = Append(sent, f) /\ UNCHANGED <<sticky, clients>>
      BY <1>2 DEF Send, TypeOK
    <2>2. /\ Len(sent') = m /\ Len(sent) \in Nat /\ sent'[m] = f
          /\ \A j \in 1 .. Len(sent) : sent'[j] = sent[j]
      BY <2>0, <2>1 DEF TypeOK
    <2>3. \A c \in Clients : pos[c] \in Nat /\ pos[c] <= Len(sent)
      BY DEF TypeOK
    <2>4. ASSUME NEW c \in Clients, NEW i \in 1 .. Len(sticky),
                 pc[c] # "off", ~lagged[c], OneEmitter(sticky[i].key),
                 ~InFlight(sticky[i].key)'
          PROVE  Due(c, sticky[i])'
      <3>1. CASE sticky[i].key = f.key
        <4>1. sticky[i] = f
          BY <1>2, <2>4, <3>1 DEF Send, HubOK
        <4>2. m \in pos[c] + 1 .. Len(sent')
          BY <2>0, <2>2, <2>3
        <4>3. LastOfKey(m)'
          BY <2>0, <2>2 DEF LastOfKey
        <4>4. sent'[m] = sticky[i]
          BY <2>2, <4>1
        <4>5. pos' = pos /\ sticky' = sticky
          BY <2>1 DEF clients
        <4> HIDE DEF f
        <4>6. Coming(c, sticky[i])'
          BY <4>2, <4>3, <4>4, <4>5 DEF Coming
        <4> QED
          BY <4>6 DEF Due
      <3>2. CASE sticky[i].key # f.key
        <4>1. ~InFlight(sticky[i].key)
          <5>1. ASSUME NEW d \in Emitters, out[d] # None, out[d].key = sticky[i].key
                PROVE  FALSE
            <6>1. d # e /\ out'[d] = out[d]
              BY <1>2, <3>2, <5>1 DEF Send, TypeOK
            <6> QED
              BY <2>1, <2>4, <5>1, <6>1 DEF InFlight
          <5> QED
            BY <5>1 DEF InFlight
        <4>2. Due(c, sticky[i])
          BY <2>4, <4>1 DEF WillShow
        <4>3. CASE Coming(c, sticky[i])
          <5>1. PICK j \in pos[c] + 1 .. Len(sent) :
                  sent[j] = sticky[i] /\ LastOfKey(j)
            BY <4>3 DEF Coming
          <5>2. j \in 1 .. Len(sent) /\ j \in pos[c] + 1 .. Len(sent')
            BY <2>0, <2>2, <2>3, <5>1
          <5>3. sent'[j] = sticky[i]
            BY <2>2, <5>1, <5>2
          <5>4. ASSUME NEW l \in j + 1 .. Len(sent') PROVE sent'[l].key # sent'[j].key
            <6>1. l = m \/ (l \in j + 1 .. Len(sent) /\ l \in 1 .. Len(sent))
              BY <2>0, <2>2, <5>2
            <6> QED
              BY <2>2, <3>2, <5>1, <5>3, <6>1 DEF LastOfKey
          <5>5. LastOfKey(j)'
            BY <5>4 DEF LastOfKey
          <5> QED
            BY <2>1, <5>2, <5>3, <5>5 DEF Due, Coming, clients
        <4>4. CASE NothingComing(c, sticky[i].key) /\ Has(c, sticky[i])
          <5>1. ASSUME NEW l \in pos[c] + 1 .. Len(sent')
                PROVE  sent'[l].key # sticky[i].key
            <6>1. l = m \/ (l \in pos[c] + 1 .. Len(sent) /\ l \in 1 .. Len(sent))
              BY <2>0, <2>2, <2>3
            <6> QED
              BY <2>2, <3>2, <4>4, <6>1 DEF NothingComing
          <5>2. NothingComing(c, sticky[i].key)'
            BY <2>1, <5>1 DEF NothingComing, clients
          <5>3. Has(c, sticky[i])'
            BY <2>1, <4>4 DEF Has, clients
          <5> QED
            BY <2>1, <5>2, <5>3 DEF Due
        <4> QED
          BY <4>2, <4>3, <4>4 DEF Due
      <3> QED
        BY <3>1, <3>2
    <2> QED
      BY <2>1, <2>4 DEF WillShow, clients
  <1>3. ASSUME NEW c \in Clients, Accept(c) PROVE WillShow'
    <2>1. pos'[c] = Len(sent) /\ pc'[c] = "handshake" /\ sent' = sent
      BY <1>3 DEF Accept, TypeOK, hub
    <2>2. ASSUME NEW f PROVE Due(c, f)'
      <3>1. Len(sent) \in Nat
        BY DEF TypeOK
      <3>2. NothingComing(c, f.key)'
        BY <2>1, <3>1 DEF NothingComing
      <3> QED
        BY <2>1, <3>2 DEF Due, Has
    <2> QED
      BY <1>3, <2>2, OthersWillShow DEF Accept, TypeOK
  <1>4. ASSUME NEW c \in Clients, Snapshot(c) PROVE WillShow'
    <2>1. /\ pc[c] = "handshake" /\ pc'[c] = "replay" /\ replay'[c] = sticky
          /\ UNCHANGED <<hub, pos, lagged, view>>
      BY <1>4 DEF Snapshot, TypeOK
    <2>2. ASSUME NEW i \in 1 .. Len(sticky), pc'[c] # "off", ~lagged'[c],
                 OneEmitter(sticky[i].key), ~InFlight(sticky[i].key)
          PROVE  Due(c, sticky[i])'
      <3>1. Due(c, sticky[i])
        BY <2>1, <2>2 DEF WillShow
      <3>2. Coming(c, sticky[i]) => Coming(c, sticky[i])'
        BY <2>1 DEF Coming, LastOfKey, hub
      <3>3. NothingComing(c, sticky[i].key) => NothingComing(c, sticky[i].key)'
        BY <2>1 DEF NothingComing, hub
      <3>4. Has(c, sticky[i])'
        BY <2>1 DEF Has, HubOK, KeysOnce, hub
      <3> QED
        BY <3>1, <3>2, <3>3, <3>4 DEF Due
    <2> QED
      BY <1>4, <2>2, OthersWillShow DEF Snapshot, TypeOK
  <1>5. ASSUME NEW c \in Clients, Replay(c) PROVE WillShow'
    <2> DEFINE h == Head(replay[c])
    <2>1. /\ replay[c] \in Seq(Frame) /\ replay[c] # <<>> /\ h \in Frame
          /\ pc[c] = "replay" /\ pc' = pc /\ replay'[c] = Tail(replay[c])
          /\ UNCHANGED <<hub, pos, lagged>>
      BY <1>5 DEF Replay, TypeOK
    <2>2. /\ view'[c][h.key] = h
          /\ \A k \in Keys : k # h.key => view'[c][k] = view[c][k]
      BY <1>5, <2>1 DEF Replay, Show, TypeOK, Frame
    <2>3. /\ Len(replay[c]) \in Nat /\ Len(replay[c]) >= 1 /\ h = replay[c][1]
          /\ Len(Tail(replay[c])) = Len(replay[c]) - 1
          /\ \A i \in 1 .. Len(replay[c]) - 1 : Tail(replay[c])[i] = replay[c][i + 1]
      BY <2>1
    <2> HIDE DEF h
    <2>4. ASSUME NEW f \in Frame, Has(c, f) PROVE Has(c, f)'
      <3>1. \A i \in 1 .. Len(replay[c]) : replay[c][i].key = f.key => replay[c][i] = f
        BY <2>1, <2>4 DEF Has
      <3>2. h.key = f.key => h = f
        BY <2>3, <3>1
      <3>3. \A i \in 1 .. Len(replay'[c]) : replay'[c][i].key = f.key => replay'[c][i] = f
        <4>1. ASSUME NEW i \in 1 .. Len(replay'[c])
              PROVE  replay'[c][i] = replay[c][i + 1] /\ i + 1 \in 1 .. Len(replay[c])
          BY <2>1, <2>3
        <4> QED
          BY <3>1, <4>1
      <3>4. \/ view'[c][f.key] = f
            \/ \E i \in 1 .. Len(replay'[c]) : replay'[c][i] = f
        <4>1. CASE h.key = f.key
          BY <2>2, <3>2, <4>1
        <4>2. CASE h.key # f.key /\ view[c][f.key] = f
          BY <2>2, <4>2 DEF Frame
        <4>3. ASSUME NEW i \in 1 .. Len(replay[c]), replay[c][i] = f, h.key # f.key
              PROVE  \E j \in 1 .. Len(replay'[c]) : replay'[c][j] = f
          <5>1. i # 1
            BY <2>3, <4>3
          <5>2. i - 1 \in 1 .. Len(replay'[c]) /\ replay'[c][i - 1] = f
            BY <2>1, <2>3, <4>3, <5>1
          <5> QED
            BY <5>2
        <4> QED
          BY <2>1, <2>4, <4>1, <4>2, <4>3 DEF Has
      <3> QED
        BY <2>1, <3>3, <3>4 DEF Has
    <2>5. ASSUME NEW i \in 1 .. Len(sticky), pc'[c] # "off", ~lagged'[c],
                 OneEmitter(sticky[i].key), ~InFlight(sticky[i].key)
          PROVE  Due(c, sticky[i])'
      <3>1. Due(c, sticky[i]) /\ sticky' = sticky
        BY <2>1, <2>5 DEF WillShow, hub
      <3>5. sticky[i] \in Frame
        BY DEF TypeOK
      <3>2. Coming(c, sticky[i]) => Coming(c, sticky[i])'
        BY <2>1 DEF Coming, LastOfKey, hub
      <3>3. NothingComing(c, sticky[i].key) => NothingComing(c, sticky[i].key)'
        BY <2>1 DEF NothingComing, hub
      <3>4. Has(c, sticky[i]) => Has(c, sticky[i])'
        BY <2>4, <3>1, <3>5 DEF Has
      <3> QED
        BY <3>1, <3>2, <3>3, <3>4 DEF Due
    <2>6. \A d \in Clients \ {c} : view'[d] = view[d] /\ replay'[d] = replay[d]
      BY <1>5 DEF Replay, Show, TypeOK
    <2> QED
      BY <2>1, <2>5, <2>6, OthersWillShow
  <1>6. ASSUME NEW c \in Clients, GoLive(c) PROVE WillShow'
    <2>1. /\ pc[c] = "replay" /\ replay[c] = <<>> /\ pc'[c] = "live"
          /\ UNCHANGED <<hub, pos, replay, lagged, view>>
      BY <1>6 DEF GoLive, TypeOK
    <2>2. ASSUME NEW i \in 1 .. Len(sticky), pc'[c] # "off", ~lagged'[c],
                 OneEmitter(sticky[i].key), ~InFlight(sticky[i].key)
          PROVE  Due(c, sticky[i])'
      <3>1. Due(c, sticky[i])
        BY <2>1, <2>2 DEF WillShow
      <3>2. Coming(c, sticky[i]) => Coming(c, sticky[i])'
        BY <2>1 DEF Coming, LastOfKey, hub
      <3>3. NothingComing(c, sticky[i].key) => NothingComing(c, sticky[i].key)'
        BY <2>1 DEF NothingComing, hub
      <3>4. Has(c, sticky[i]) => Has(c, sticky[i])'
        BY <2>1 DEF Has, hub
      <3> QED
        BY <3>1, <3>2, <3>3, <3>4 DEF Due
    <2> QED
      BY <1>6, <2>2, OthersWillShow DEF GoLive, TypeOK
  <1>7. ASSUME NEW c \in Clients, Receive(c) PROVE WillShow'
    <2> DEFINE p == pos[c] + 1
               g == sent[p]
    <2>1. /\ pc[c] = "live" /\ pc' = pc /\ pos'[c] = p
          /\ UNCHANGED <<hub, replay, lagged>>
      BY <1>7 DEF Receive, TypeOK
    <2>2. p \in Nat \ {0} /\ p <= Len(sent) /\ Len(sent) \in Nat /\ g \in Frame
      BY <1>7 DEF Receive, TypeOK
    <2>3. p \in pos[c] + 1 .. Len(sent)
      BY <1>7, <2>2 DEF TypeOK
    <2>4. /\ view'[c][g.key] = g
          /\ \A k \in Keys : k # g.key => view'[c][k] = view[c][k]
      BY <1>7, <2>2 DEF Receive, Show, TypeOK, Frame
    <2>5. \A l \in p + 1 .. Len(sent) : l \in pos[c] + 1 .. Len(sent)
      BY <2>2, <2>3 DEF TypeOK
    <2>6. \A l \in pos[c] + 1 .. Len(sent) : l = p \/ l \in p + 1 .. Len(sent)
      BY <2>2, <2>3 DEF TypeOK
    <2> HIDE DEF p, g
    <2>7. ASSUME NEW i \in 1 .. Len(sticky), pc'[c] # "off", ~lagged'[c],
                 OneEmitter(sticky[i].key), ~InFlight(sticky[i].key)
          PROVE  Due(c, sticky[i])'
      <3> DEFINE f == sticky[i]
      <3>1. Due(c, f) /\ f \in Frame /\ sticky' = sticky /\ sent' = sent
        <4>1. Due(c, f) /\ sticky' = sticky /\ sent' = sent
          BY <2>1, <2>7 DEF WillShow, hub
        <4>2. f \in Frame
          BY DEF TypeOK
        <4> QED
          BY <4>1, <4>2
      <3> HIDE DEF f
      <3>2. CASE Coming(c, f)
        <4>1. PICK j \in pos[c] + 1 .. Len(sent) : sent[j] = f /\ LastOfKey(j)
          BY <3>2 DEF Coming
        <4>2. CASE j = p
          <5>1. g = f /\ \A l \in p + 1 .. Len(sent) : sent[l].key # f.key
            BY <4>1, <4>2 DEF LastOfKey, g
          <5>2. \A l \in pos'[c] + 1 .. Len(sent') : sent'[l].key # f.key
            BY <2>1, <3>1, <5>1
          <5>3. view'[c][f.key] = f /\ pc'[c] = "live"
            BY <2>1, <2>4, <5>1
          <5> QED
            BY <3>1, <5>2, <5>3 DEF Due, NothingComing, Has, f
        <4>3. CASE j # p
          <5>1. j \in pos'[c] + 1 .. Len(sent') /\ sent'[j] = f /\ LastOfKey(j)'
            BY <2>1, <2>6, <3>1, <4>1, <4>3 DEF LastOfKey
          <5> QED
            BY <3>1, <5>1 DEF Due, Coming, f
        <4> QED
          BY <4>2, <4>3
      <3>3. CASE NothingComing(c, f.key) /\ Has(c, f)
        <4>1. g.key # f.key
          BY <2>3, <3>3 DEF NothingComing, g
        <4>2. \A l \in pos'[c] + 1 .. Len(sent') : sent'[l].key # f.key
          BY <2>1, <2>5, <3>1, <3>3 DEF NothingComing
        <4>3. view'[c][f.key] = f /\ pc'[c] = "live"
          BY <2>1, <2>4, <3>1, <3>3, <4>1 DEF Has, Frame
        <4> QED
          BY <3>1, <4>2, <4>3 DEF Due, NothingComing, Has, f
      <3> QED
        BY <3>1, <3>2, <3>3 DEF Due
    <2>8. \A d \in Clients \ {c} : view'[d] = view[d] /\ pos'[d] = pos[d]
      BY <1>7 DEF Receive, Show, TypeOK
    <2> QED
      BY <2>1, <2>7, <2>8, OthersWillShow
  <1>8. ASSUME NEW c \in Clients, Lagged(c) PROVE WillShow'
    BY <1>8, OthersWillShow DEF Lagged, TypeOK
  <1>9. ASSUME NEW c \in Clients, Disconnect(c) PROVE WillShow'
    BY <1>9, OthersWillShow DEF Disconnect, TypeOK
  <1>10. CASE UNCHANGED vars
    <2>1. UNCHANGED <<sticky, sent, out, pc, pos, replay, lagged, view>>
      BY <1>10 DEF vars, hub, clients
    <2>2. ASSUME NEW c \in Clients, NEW f PROVE Due(c, f)' = Due(c, f)
      BY <2>1 DEF Due, Coming, NothingComing, Has, LastOfKey
    <2> QED
      BY <2>1, <2>2 DEF WillShow, InFlight
  <1> QED
    BY <1>1, <1>2, <1>3, <1>4, <1>5, <1>6, <1>7, <1>8, <1>9, <1>10
    DEF Next, Serve

-----------------------------------------------------------------------------
(* What a slow client has been shown. *)

(* Until it goes live a client has received nothing; of the frames it is     *)
(* past, those still in the ring are what it shows.                          *)
Received ==
  \A c \in Clients :
    /\ pc[c] \in {"handshake", "replay"} => pos[c] = joined[c]
    /\ pc[c] = "live" =>
         \A i \in 1 .. pos[c] :
           i > joined[c] /\ i > Len(sent) - Ring /\ LastOfKey(i) =>
             view[c][sent[i].key] = sent[i]

LEMMA ReceivedStep ==
  TypeOK /\ TypeOK' /\ Received /\ [Next]_vars => Received'
  <1> SUFFICES ASSUME TypeOK, TypeOK', Received, [Next]_vars
               PROVE  Received'
    OBVIOUS
  <1> USE TelemetryAssumption DEF TelemetryAssumption
  <1>1. ASSUME NEW e \in Emitters, Emit(e) PROVE Received'
    BY <1>1 DEF Emit, Received, clients, LastOfKey
  <1>2. ASSUME NEW e \in Emitters, Send(e) PROVE Received'
    <2>1. out[e] \in Frame /\ sent' = Append(sent, out[e]) /\ UNCHANGED clients
      BY <1>2 DEF Send, TypeOK
    <2>2. /\ Len(sent') = Len(sent) + 1 /\ Len(sent) \in Nat
          /\ \A j \in 1 .. Len(sent) : sent'[j] = sent[j]
      BY <2>1 DEF TypeOK
    <2>3. ASSUME NEW c \in Clients, pc[c] = "live", NEW i \in 1 .. pos[c],
                 i > joined[c], i > Len(sent') - Ring, LastOfKey(i)'
          PROVE  view[c][sent'[i].key] = sent'[i]
      <3>1. i \in 1 .. Len(sent) /\ i > Len(sent) - Ring
        BY <2>2, <2>3 DEF TypeOK
      <3>2. LastOfKey(i)
        BY <2>2, <2>3, <3>1 DEF LastOfKey
      <3> QED
        BY <2>2, <2>3, <3>1, <3>2 DEF Received
    <2> QED
      BY <2>1, <2>3 DEF Received, clients
  <1>3. ASSUME NEW c \in Clients, Accept(c) PROVE Received'
    BY <1>3 DEF Accept, Received, TypeOK, hub, LastOfKey
  <1>4. ASSUME NEW c \in Clients, Snapshot(c) PROVE Received'
    BY <1>4 DEF Snapshot, Received, TypeOK, hub, LastOfKey
  <1>5. ASSUME NEW c \in Clients, Replay(c) PROVE Received'
    BY <1>5 DEF Replay, Show, Received, TypeOK, hub, LastOfKey
  <1>6. ASSUME NEW c \in Clients, GoLive(c) PROVE Received'
    <2>1. pos[c] = joined[c] /\ joined[c] \in Nat
      BY <1>6 DEF GoLive, Received, TypeOK
    <2>2. \A i \in 1 .. pos[c] : ~(i > joined[c])
      BY <2>1
    <2> QED
      BY <1>6, <2>2 DEF GoLive, Received, TypeOK, hub, LastOfKey
  <1>7. ASSUME NEW c \in Clients, Receive(c) PROVE Received'
    <2> DEFINE p == pos[c] + 1
               g == sent[p]
    <2>1. /\ pc[c] = "live" /\ pc' = pc /\ pos'[c] = p
          /\ UNCHANGED <<hub, joined>>
      BY <1>7 DEF Receive, TypeOK
    <2>2. p \in Nat \ {0} /\ p <= Len(sent) /\ Len(sent) \in Nat /\ g \in Frame
      BY <1>7 DEF Receive, TypeOK
    <2>3. /\ view'[c][g.key] = g
          /\ \A k \in Keys : k # g.key => view'[c][k] = view[c][k]
      BY <1>7, <2>2 DEF Receive, Show, TypeOK, Frame
    <2>4. \A i \in 1 .. p : i = p \/ (i \in 1 .. pos[c] /\ p \in i + 1 .. Len(sent))
      BY <2>2 DEF TypeOK
    <2>5. sent' = sent
      BY <2>1 DEF hub
    <2>6. ASSUME NEW i \in 1 .. p, i > joined[c], i > Len(sent) - Ring, LastOfKey(i)
          PROVE  view'[c][sent[i].key] = sent[i]
      <3>1. CASE i = p
        BY <2>3, <3>1
      <3>2. CASE i # p
        <4>1. g.key # sent[i].key
          BY <2>4, <2>6, <3>2 DEF LastOfKey
        <4>2. i \in 1 .. Len(sent)
          BY <2>2, <2>6
        <4>3. sent[i] \in Frame
          BY <4>2 DEF TypeOK
        <4> QED
          BY <2>1, <2>3, <2>4, <2>6, <3>2, <4>1, <4>3 DEF Received, Frame
      <3> QED
        BY <3>1, <3>2
    <2>7. \A d \in Clients \ {c} : view'[d] = view[d] /\ pos'[d] = pos[d]
      BY <1>7 DEF Receive, Show, TypeOK
    <2> HIDE DEF p, g
    <2> QED
      BY <2>1, <2>5, <2>6, <2>7 DEF Received, LastOfKey
  <1>8. ASSUME NEW c \in Clients, Lagged(c) PROVE Received'
    <2>1. \A i \in 1 .. pos'[c] : ~(i > Len(sent) - Ring)
      BY <1>8 DEF Lagged, Behind, TypeOK
    <2> QED
      BY <1>8, <2>1 DEF Lagged, Received, TypeOK, hub, LastOfKey
  <1>9. ASSUME NEW c \in Clients, Disconnect(c) PROVE Received'
    BY <1>9 DEF Disconnect, Received, TypeOK, hub, LastOfKey
  <1>10. CASE UNCHANGED vars
    BY <1>10 DEF vars, hub, clients, Received, LastOfKey
  <1> QED
    BY <1>1, <1>2, <1>3, <1>4, <1>5, <1>6, <1>7, <1>8, <1>9, <1>10
    DEF Next, Serve

-----------------------------------------------------------------------------
(* The theorems. *)

IInv == TypeOK /\ HubOK /\ WillShow /\ Received

LEMMA InitIInv == Init => IInv
  BY InitHub DEF Init, IInv, WillShow, Received

LEMMA NextIInv == IInv /\ [Next]_vars => IInv'
  BY HubStep, WillShowStep, ReceivedStep DEF IInv

LEMMA Invariant == Spec => []IInv
  BY InitIInv, NextIInv, PTL DEF Spec

LEMMA CaughtUpLemma == IInv => CaughtUpShowsRetained
  <1> SUFFICES ASSUME IInv, NEW c \in Clients, CaughtUp(c), ~lagged[c],
                      NEW i \in DOMAIN sticky,
                      OneEmitter(sticky[i].key), ~InFlight(sticky[i].key)
               PROVE  view[c][sticky[i].key] = sticky[i]
    BY DEF CaughtUpShowsRetained, ShowsRetained
  <1>1. i \in 1 .. Len(sticky) /\ Len(sent) \in Nat
    BY DEF IInv, TypeOK
  <1>2. Due(c, sticky[i])
    BY <1>1 DEF IInv, WillShow, CaughtUp
  <1>3. pos[c] + 1 .. Len(sent) = {}
    BY <1>1 DEF CaughtUp
  <1> QED
    BY <1>2, <1>3 DEF Due, Coming, Has, CaughtUp

LEMMA RecentLemma == IInv => RecentAlwaysShown
  <1> SUFFICES ASSUME IInv, NEW c \in Clients, CaughtUp(c),
                      NEW i \in DOMAIN sent, i > joined[c],
                      i > Len(sent) - Ring, LastOfKey(i)
               PROVE  view[c][sent[i].key] = sent[i]
    BY DEF RecentAlwaysShown
  <1>1. i \in 1 .. pos[c]
    BY DEF IInv, TypeOK, CaughtUp
  <1> QED
    BY <1>1 DEF IInv, Received, CaughtUp

(* Every variable of the hub keeps its type and the cap holds.               *)
THEOREM TypeCorrect == Spec => []TypeOK
  BY Invariant, PTL DEF IInv

(* serve: what a client that has drained its receiver without a lag shows of *)
(* an announce of one task is what the hub retains.                          *)
THEOREM CaughtUpShowsRetainedHolds == Spec => []CaughtUpShowsRetained
  BY Invariant, CaughtUpLemma, PTL

(* serve, Lagged: of the last Ring frames since it connected a client that   *)
(* has drained its receiver misses none.                                     *)
THEOREM RecentAlwaysShownHolds == Spec => []RecentAlwaysShown
  BY Invariant, RecentLemma, PTL
=============================================================================
