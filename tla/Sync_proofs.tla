---------------------------- MODULE Sync_proofs ----------------------------
(* That an import plans against the store it writes to, and so never loses   *)
(* or overwrites a newer fact, nor any value unnoted, outside the keys where *)
(* its view has gone astray: for any devices, keys, values and sessions.     *)
EXTENDS Sync, TLAPS

(* A session under way runs on a device, and its files are in its inbox.     *)
Located ==
  \A s \in Sessions :
    /\ pc[s] # "idle" => home[s] \in Devices
    /\ pc[s] = "merge" => todo[s] \subseteq DOMAIN inbox[home[s]]

Inv == TypeOK /\ Located /\ ViewFaithful

-----------------------------------------------------------------------------
(* Stores.                                                                   *)

(* What a store is made of.                                                  *)
LEMMA StoreParts ==
  ASSUME NEW f \in Stores
  PROVE  /\ f = [k \in DOMAIN f |-> f[k]] /\ DOMAIN f \subseteq Keys
         /\ \A k \in DOMAIN f : /\ f[k] \in Fact /\ f[k].val \in Values
                                /\ f[k].ts \in 1..MaxTime /\ f[k].ts \in Nat
BY DEF Stores, Fact

(* A part of a store is one.                                                 *)
LEMMA PartOfStore ==
  ASSUME NEW f \in Stores, NEW ks \in SUBSET DOMAIN f
  PROVE  [k \in ks |-> f[k]] \in Stores
<1>1. ks \in SUBSET Keys /\ \A k \in ks : f[k] \in Fact
  BY StoreParts
<1>2. [k \in ks |-> f[k]] \in [ks -> Fact]
  BY <1>1
<1> QED
  BY <1>1, <1>2 DEF Stores

(* A store without facts is one.                                             *)
LEMMA NothingIsStore == Nothing \in Stores
BY DEF Nothing, Stores

(* A bundle is a part of the store it was made from.                         *)
LEMMA SyncablePart ==
  ASSUME NEW f \in Stores
  PROVE  /\ Syncable(f) \in Stores /\ DOMAIN Syncable(f) \subseteq DOMAIN f
         /\ \A k \in DOMAIN Syncable(f) : Syncable(f)[k] = f[k]
<1> DEFINE Kept == {k \in DOMAIN f :
                     Cardinality({j \in DOMAIN f : j < k}) < MaxBundle}
<1>1. Syncable(f) = [k \in Kept |-> f[k]]
  BY DEF Syncable
<1>2. Kept \in SUBSET DOMAIN f
  OBVIOUS
<1> HIDE DEF Kept
<1> QED
  BY <1>1, <1>2, PartOfStore

(* Writing facts of a bundle into a store.                                   *)
LEMMA UpsertedStore ==
  ASSUME NEW f \in Stores, NEW b \in Stores, NEW ks \in SUBSET DOMAIN b
  PROVE  /\ Upserted(f, b, ks) \in Stores
         /\ DOMAIN Upserted(f, b, ks) = DOMAIN f \cup ks
         /\ \A k \in DOMAIN f \cup ks :
              Upserted(f, b, ks)[k] = IF k \in ks THEN b[k] ELSE f[k]
<1>1. /\ DOMAIN f \cup ks \in SUBSET Keys
      /\ \A k \in DOMAIN f : f[k] \in Fact
      /\ \A k \in DOMAIN b : b[k] \in Fact
  BY StoreParts
<1>2. [k \in DOMAIN f \cup ks |-> IF k \in ks THEN b[k] ELSE f[k]]
        \in [DOMAIN f \cup ks -> Fact]
  BY <1>1
<1> QED
  BY <1>1, <1>2 DEF Upserted, Stores

(* Only facts of the bundle are applied: those the view lacks, and those     *)
(* that beat a different value.                                              *)
LEMMA AppliedParts ==
  ASSUME NEW f, NEW b, NEW from, NEW here
  PROVE  /\ Applied(f, b, from, here) \subseteq DOMAIN b
         /\ \A k \in Applied(f, b, from, here) \cap DOMAIN f :
              k \in Diverging(f, b) /\ Beats(b[k], from, f[k], here)
BY DEF Applied, Diverging

(* The conflicts of a bundle have the right type.                            *)
LEMMA ConflictsType ==
  ASSUME NEW f \in Stores, NEW b \in Stores, NEW from, NEW here
  PROVE  Conflicts(f, b, from, here) \subseteq Conflict
<1>1. \A k \in Diverging(f, b) :
        k \in Keys /\ f[k].val \in Values /\ b[k].val \in Values
  BY StoreParts DEF Diverging
<1> QED
  BY <1>1 DEF Conflicts, Conflict

(* An inbox file is a bundle.                                                *)
LEMMA InboxParts ==
  ASSUME NEW i \in Inboxes
  PROVE  DOMAIN i \subseteq Devices /\ \A e \in DOMAIN i : i[e] \in Stores
BY DEF Inboxes

-----------------------------------------------------------------------------
(* The steps.                                                                *)

(* Nothing has happened yet.                                                 *)
LEMMA InitInv == Init => Inv
<1> SUFFICES ASSUME Init PROVE Inv
  OBVIOUS
<1>1. Nothing \in Stores /\ Nothing \in Inboxes
  BY NothingIsStore DEF Nothing, Inboxes
<1>2. TypeOK
  BY <1>1, SyncAssumption DEF Init, TypeOK, SyncAssumption
<1>3. Located /\ ViewFaithful
  BY DEF Init, Located, ViewFaithful
<1> QED
  BY <1>2, <1>3 DEF Inv

(* What the user writes is a store, and differs from the old one in the key  *)
(* written.                                                                  *)
LEMMA WriteStep ==
  ASSUME Inv, NEW d \in Devices, Write(d)
  PROVE  \E k \in Keys, new \in Stores :
           /\ facts' = [facts EXCEPT ![d] = new]
           /\ DOMAIN new \ {k} = DOMAIN facts[d] \ {k}
           /\ \A j \in DOMAIN new \ {k} : new[j] = facts[d][j]
           /\ Stray(d, {k})
           /\ clock' \in [Devices -> 0..MaxTime]
           /\ UNCHANGED <<files, pc, home, todo, view, news>>
<1> USE DEF Inv, TypeOK
<1>1. PICK k \in Keys, t \in 1..MaxTime :
        Forget(d, k, t) \/ \E v \in Values : Edit(d, k, v, t)
  BY DEF Write
<1>2. facts[d] \in Stores /\ t \in 0..MaxTime
  BY SyncAssumption DEF SyncAssumption
<1>3. CASE Forget(d, k, t)
  <2>1. [j \in DOMAIN facts[d] \ {k} |-> facts[d][j]] \in Stores
    BY <1>2, PartOfStore
  <2>2. clock' \in [Devices -> 0..MaxTime]
    BY <1>2, <1>3 DEF Forget, At
  <2> QED
    <3> DEFINE new == [j \in DOMAIN facts[d] \ {k} |-> facts[d][j]]
    <3>1. /\ facts' = [facts EXCEPT ![d] = new] /\ Stray(d, {k})
          /\ UNCHANGED <<files, pc, home, todo, view, news>>
      BY <1>3 DEF Forget
    <3>2. /\ new \in Stores /\ DOMAIN new = DOMAIN facts[d] \ {k}
          /\ \A j \in DOMAIN new : new[j] = facts[d][j]
      BY <2>1
    <3> HIDE DEF new
    <3> QED
      BY <2>2, <3>1, <3>2
<1>4. CASE \E v \in Values : Edit(d, k, v, t)
  <2>1. PICK v \in Values : Edit(d, k, v, t)
    BY <1>4
  <2> DEFINE one == [j \in {k} |-> [val |-> v, ts |-> t]]
             new == Upserted(facts[d], one, {k})
  <2>2. one \in Stores /\ DOMAIN one = {k}
    <3>1. [val |-> v, ts |-> t] \in Fact
      BY DEF Fact
    <3>2. one \in [{k} -> Fact] /\ {k} \in SUBSET Keys
      BY <3>1
    <3> QED
      BY <3>2 DEF Stores
  <2>3. facts' = [facts EXCEPT ![d] = new] /\ Stray(d, {k})
        /\ UNCHANGED <<files, pc, home, todo, view, news>>
    BY <2>1 DEF Edit
  <2>4. clock' \in [Devices -> 0..MaxTime]
    BY <1>2, <2>1 DEF Edit, At
  <2> HIDE DEF one
  <2>5. /\ new \in Stores /\ DOMAIN new = DOMAIN facts[d] \cup {k}
        /\ \A j \in DOMAIN new \ {k} : new[j] = facts[d][j]
    <3>0. PICK ks : ks = {k}
      OBVIOUS
    <3>1. PICK f \in Stores, o \in Stores : f = facts[d] /\ o = one
      BY <1>2, <2>2
    <3>2. ks \in SUBSET DOMAIN o
      BY <2>2, <3>0, <3>1
    <3>3. PICK u : u = Upserted(f, o, ks)
      OBVIOUS
    <3>4. /\ u \in Stores /\ DOMAIN u = DOMAIN f \cup ks
          /\ \A j \in DOMAIN f \cup ks : u[j] = IF j \in ks THEN o[j] ELSE f[j]
      <4>1. /\ Upserted(f, o, ks) \in Stores
            /\ DOMAIN Upserted(f, o, ks) = DOMAIN f \cup ks
            /\ \A j \in DOMAIN f \cup ks :
                 Upserted(f, o, ks)[j] = IF j \in ks THEN o[j] ELSE f[j]
        <5>1. Upserted(f, o, ks) \in Stores
          BY ONLY <3>2, UpsertedStore
        <5>2. DOMAIN Upserted(f, o, ks) = DOMAIN f \cup ks
          BY ONLY Zenon DEF Upserted
        <5>3. \A j \in DOMAIN f \cup ks :
                Upserted(f, o, ks)[j] = IF j \in ks THEN o[j] ELSE f[j]
          BY ONLY Zenon DEF Upserted
        <5> QED
          BY ONLY <5>1, <5>2, <5>3
      <4>2. u \in Stores /\ DOMAIN u = DOMAIN f \cup ks
        BY ONLY <3>3, <4>1
      <4>3. ASSUME NEW j \in DOMAIN f \cup ks PROVE u[j] = IF j \in ks THEN o[j] ELSE f[j]
        BY ONLY <3>3, <4>1, <4>3
      <4> QED
        BY ONLY <4>2, <4>3
    <3>5. u = new
      BY <3>0, <3>1, <3>3, Zenon
    <3>6. DOMAIN u = DOMAIN f \cup {k} /\ \A j \in DOMAIN u \ {k} : u[j] = f[j]
      BY <3>0, <3>1, <3>4
    <3> HIDE DEF new
    <3> QED
      BY <3>1, <3>4, <3>5, <3>6
  <2>6. DOMAIN new \ {k} = DOMAIN facts[d] \ {k}
    BY <2>5
  <2> HIDE DEF new
  <2> QED
    BY <2>3, <2>4, <2>5, <2>6
<1> QED
  BY <1>1, <1>3, <1>4

(* What a merge reads and writes.                                            *)
LEMMA MergeStep ==
  ASSUME Inv, NEW s \in Sessions, NEW from \in todo[s],
         NEW ks \in SUBSET Wins(s, from), MergeStoring(s, from, ks)
  PROVE  LET d == home[s]
             bundle == inbox[d][from]
             wins == Wins(s, from)
         IN /\ d \in Devices /\ pc[s] = "merge" /\ pc' = pc /\ home' = home
            /\ bundle \in Stores /\ wins \subseteq DOMAIN bundle
            /\ facts[d] \in Stores /\ view[s] \in Stores
            /\ facts' = [facts EXCEPT ![d] = Upserted(facts[d], bundle, ks)]
            /\ view' = [view EXCEPT ![s] = Upserted(view[s], bundle, wins)]
            /\ news' = [news EXCEPT
                  ![s] = news[s] \cup Conflicts(view[s], bundle, from, d)]
<1> USE DEF Inv, TypeOK, Located
<1>1. pc[s] = "merge"
  BY DEF MergeStoring, NextFile
<1>2. home[s] \in Devices /\ from \in DOMAIN inbox[home[s]]
  BY <1>1
<1>3. inbox[home[s]] \in Inboxes
  BY <1>2
<1>4. inbox[home[s]][from] \in Stores
  BY <1>2, <1>3, InboxParts
<1>5. Wins(s, from) \subseteq DOMAIN inbox[home[s]][from]
  BY AppliedParts DEF Wins
<1> QED
  BY <1>1, <1>2, <1>4, <1>5 DEF MergeStoring

(* The cases of a step.                                                      *)
Cases ==
  \/ \E d \in Devices : Write(d) \/ Crash(d) \/ \E s \in Sessions : Export(s, d)
  \/ \E s \in Sessions : Load(s) \/ Finish(s) \/ \E from \in todo[s] : Skip(s, from)
  \/ \E s \in Sessions : \E from \in todo[s] : \E ks \in SUBSET Wins(s, from) :
       MergeStoring(s, from, ks)
  \/ \E from, d \in Devices : Deliver(from, d)
  \/ UNCHANGED vars

(* Merge and MergePartly differ in what got stored.                          *)
LEMMA StepCases == [Next]_vars => Cases
<1>1. ASSUME NEW s \in Sessions, NEW from \in todo[s],
             Merge(s, from) \/ MergePartly(s, from)
      PROVE  \E ks \in SUBSET Wins(s, from) : MergeStoring(s, from, ks)
  <2>1. CASE Merge(s, from)
    <3>1. Wins(s, from) \in SUBSET Wins(s, from)
      OBVIOUS
    <3> QED
      BY <2>1, <3>1 DEF Merge
  <2>2. CASE MergePartly(s, from)
    BY <2>2 DEF MergePartly
  <2> QED
    BY <1>1, <2>1, <2>2
<1> QED
  BY <1>1, Zenon DEF Next, Import, Files, Cases

(* Sessions that end leave everything well typed.                            *)
LEMMA RestType ==
  ASSUME Inv, NEW ss \in SUBSET Sessions, Rest(ss), UNCHANGED <<facts, clock, files>>
  PROVE  Inv'
<1> USE DEF Inv, Rest, files
<1>1. TypeOK'
  BY NothingIsStore DEF TypeOK
<1>2. Located'
  BY DEF Located
<1>3. ViewFaithful'
  <2>1. ASSUME NEW s \in Sessions, pc'[s] = "merge"
        PROVE  /\ s \notin ss /\ pc[s] = "merge" /\ home'[s] = home[s]
               /\ view'[s] = view[s] /\ strayed'[s] = strayed[s]
    BY <2>1
  <2> QED
    BY <2>1 DEF ViewFaithful
<1> QED
  BY <1>1, <1>2, <1>3

(* A write of the user: the sessions that run on the device note the key.    *)
LEMMA WriteInv == ASSUME Inv, NEW d \in Devices, Write(d) PROVE Inv'
<1>1. PICK k \in Keys, new \in Stores :
        /\ facts' = [facts EXCEPT ![d] = new]
        /\ DOMAIN new \ {k} = DOMAIN facts[d] \ {k}
        /\ \A j \in DOMAIN new \ {k} : new[j] = facts[d][j]
        /\ Stray(d, {k})
        /\ clock' \in [Devices -> 0..MaxTime]
        /\ UNCHANGED <<files, pc, home, todo, view, news>>
  BY WriteStep
<1>2. TypeOK'
  BY <1>1 DEF Inv, TypeOK, Stray, files
<1>3. Located'
  BY <1>1 DEF Inv, Located, files
<1>4. ViewFaithful'
  <2> SUFFICES ASSUME NEW s \in Sessions, pc[s] = "merge",
                      NEW j \in Keys \ strayed'[s]
               PROVE  /\ j \in DOMAIN view[s] <=> j \in DOMAIN facts'[home[s]]
                      /\ j \in DOMAIN facts'[home[s]] =>
                           view[s][j] = facts'[home[s]][j]
    BY <1>1 DEF ViewFaithful
  <2>1. home[s] \in Devices
    BY DEF Inv, Located
  <2>2. /\ j \in DOMAIN view[s] <=> j \in DOMAIN facts[home[s]]
        /\ j \in DOMAIN facts[home[s]] => view[s][j] = facts[home[s]][j]
    BY <1>1 DEF Inv, ViewFaithful, Stray
  <2>3. CASE home[s] = d
    <3>1. j # k
      BY <1>1, <2>3 DEF Stray
    <3>2. facts'[d] = new
      BY <1>1 DEF Inv, TypeOK
    <3> QED
      BY <1>1, <2>2, <2>3, <3>1, <3>2
  <2>4. CASE home[s] # d
    <3>1. facts'[home[s]] = facts[home[s]]
      BY <1>1, <2>1, <2>4 DEF Inv, TypeOK
    <3> QED
      BY <2>2, <3>1
  <2> QED
    BY <2>3, <2>4
<1> QED
  BY <1>2, <1>3, <1>4 DEF Inv

(* An export touches the outbox only.                                        *)
LEMMA ExportInv ==
  ASSUME Inv, NEW s \in Sessions, NEW d \in Devices, Export(s, d) PROVE Inv'
<1>1. Syncable(facts[d]) \in Stores
  BY SyncablePart DEF Inv, TypeOK
<1>2. TypeOK'
  BY <1>1 DEF Inv, TypeOK, Export, work
<1>3. Located'
  BY DEF Inv, TypeOK, Located, Export, work
<1>4. ViewFaithful'
  <2>1. \A t \in Sessions : pc'[t] = "merge" =>
          pc[t] = "merge" /\ home'[t] = home[t]
    BY DEF Inv, TypeOK, Export
  <2> QED
    BY <2>1 DEF Inv, ViewFaithful, Export, work
<1> QED
  BY <1>2, <1>3, <1>4 DEF Inv

(* A delivery touches the inbox only, and only adds to the files in it.      *)
LEMMA DeliverInv ==
  ASSUME Inv, NEW from \in Devices, NEW d \in Devices, Deliver(from, d) PROVE Inv'
<1>1. PICK bundle \in outbox[from] :
        inbox' = [inbox EXCEPT ![d] =
                    [e \in DOMAIN @ \cup {from} |-> IF e = from THEN bundle
                                                    ELSE @[e]]]
  BY DEF Deliver
<1> DEFINE new == [e \in DOMAIN inbox[d] \cup {from} |->
                     IF e = from THEN bundle ELSE inbox[d][e]]
<1>2. inbox' = [inbox EXCEPT ![d] = new]
  BY <1>1
<1>3. bundle \in Stores /\ inbox[d] \in Inboxes
  BY DEF Inv, TypeOK
<1>4. DOMAIN inbox[d] \subseteq Devices /\ \A e \in DOMAIN inbox[d] : inbox[d][e] \in Stores
  BY <1>3, InboxParts
<1>5. new \in Inboxes /\ DOMAIN inbox[d] \subseteq DOMAIN new
  <2>1. new \in [DOMAIN inbox[d] \cup {from} -> Stores]
    BY <1>3, <1>4
  <2> QED
    BY <1>4, <2>1 DEF Inboxes
<1> HIDE DEF new
<1>6. TypeOK'
  BY <1>2, <1>5 DEF Inv, TypeOK, Deliver, work
<1>7. Located'
  <2>1. \A e \in Devices : DOMAIN inbox[e] \subseteq DOMAIN inbox'[e]
    BY <1>2, <1>5 DEF Inv, TypeOK
  <2> QED
    BY <2>1 DEF Inv, Located, Deliver, work
<1>8. ViewFaithful'
  BY DEF Inv, ViewFaithful, Deliver, work
<1> QED
  BY <1>6, <1>7, <1>8 DEF Inv

(* The view is loaded: what the bound cuts off has strayed.                  *)
LEMMA LoadInv == ASSUME Inv, NEW s \in Sessions, Load(s) PROVE Inv'
<1>1. home[s] \in Devices /\ pc[s] = "sealed"
  BY DEF Inv, Located, Load
<1>2. facts[home[s]] \in Stores /\ inbox[home[s]] \in Inboxes
  BY <1>1 DEF Inv, TypeOK
<1>3. /\ Syncable(facts[home[s]]) \in Stores
      /\ DOMAIN Syncable(facts[home[s]]) \subseteq DOMAIN facts[home[s]]
      /\ \A k \in DOMAIN Syncable(facts[home[s]]) :
           Syncable(facts[home[s]])[k] = facts[home[s]][k]
  BY <1>2, SyncablePart
<1>4. DOMAIN inbox[home[s]] \subseteq Devices /\ DOMAIN facts[home[s]] \subseteq Keys
  BY <1>2, InboxParts, StoreParts
<1>5. TypeOK'
  BY <1>3, <1>4 DEF Inv, TypeOK, Load, files
<1>6. Located'
  <2>1. \A t \in Sessions \ {s} : pc'[t] = pc[t] /\ todo'[t] = todo[t]
    BY DEF Inv, TypeOK, Load
  <2>2. todo'[s] = DOMAIN inbox[home[s]]
    BY DEF Inv, TypeOK, Load
  <2> QED
    BY <1>1, <2>1, <2>2 DEF Inv, Located, Load, files
<1>7. ViewFaithful'
  <2>1. /\ view'[s] = Syncable(facts[home[s]])
        /\ strayed'[s] = DOMAIN facts[home[s]] \ DOMAIN Syncable(facts[home[s]])
    BY DEF Inv, TypeOK, Load
  <2>2. \A t \in Sessions \ {s} :
          pc'[t] = pc[t] /\ view'[t] = view[t] /\ strayed'[t] = strayed[t]
    BY DEF Inv, TypeOK, Load
  <2>3. facts' = facts /\ home' = home
    BY DEF Load
  <2>4. ASSUME NEW k \in Keys \ strayed'[s]
        PROVE  /\ k \in DOMAIN view'[s] <=> k \in DOMAIN facts'[home'[s]]
               /\ k \in DOMAIN facts'[home'[s]] =>
                    view'[s][k] = facts'[home'[s]][k]
    BY <1>3, <2>1, <2>3
  <2> QED
    BY <2>2, <2>3, <2>4 DEF Inv, ViewFaithful
<1> QED
  BY <1>5, <1>6, <1>7 DEF Inv

(* A skipped file is only ticked off.                                        *)
LEMMA SkipInv ==
  ASSUME Inv, NEW s \in Sessions, NEW from \in todo[s], Skip(s, from) PROVE Inv'
<1>1. TypeOK'
  BY DEF Inv, TypeOK, Skip, files
<1>2. Located'
  <2>1. \A t \in Sessions : todo'[t] \subseteq todo[t]
    BY DEF Inv, TypeOK, Skip
  <2> QED
    BY <2>1 DEF Inv, Located, Skip, files
<1>3. ViewFaithful'
  BY DEF Inv, ViewFaithful, Skip
<1> QED
  BY <1>1, <1>2, <1>3 DEF Inv

(* A merge: a key that has not strayed is either written in both places or   *)
(* in neither.                                                               *)
LEMMA MergeInv ==
  ASSUME Inv, NEW s \in Sessions, NEW from \in todo[s],
         NEW ks \in SUBSET Wins(s, from), MergeStoring(s, from, ks)
  PROVE  Inv'
<1>0. PICK d, b, wins, l, v, f, w :
        /\ d = home[s] /\ b = inbox[d][from] /\ wins = Wins(s, from)
        /\ l = facts[d] /\ v = view[s]
        /\ f = Upserted(l, b, ks) /\ w = Upserted(v, b, wins)
  OBVIOUS
<1>1. /\ d \in Devices /\ b \in Stores /\ wins \subseteq DOMAIN b
      /\ l \in Stores /\ v \in Stores
      /\ facts' = [facts EXCEPT ![d] = f] /\ view' = [view EXCEPT ![s] = w]
      /\ news' = [news EXCEPT ![s] = news[s] \cup Conflicts(v, b, from, d)]
      /\ pc[s] = "merge" /\ pc' = pc /\ home' = home
  BY <1>0, MergeStep
<1>2. ks \in SUBSET DOMAIN b /\ wins \in SUBSET DOMAIN b /\ ks \subseteq wins
      /\ DOMAIN b \subseteq Keys
  BY <1>1, <1>0, StoreParts
<1>3. /\ f \in Stores /\ DOMAIN f = DOMAIN l \cup ks
      /\ \A k \in DOMAIN l \cup ks : f[k] = IF k \in ks THEN b[k] ELSE l[k]
  <2>1. l \in Stores /\ b \in Stores /\ ks \in SUBSET DOMAIN b /\ f = Upserted(l, b, ks)
    BY <1>1, <1>2, <1>0
  <2> QED
    BY ONLY <2>1, UpsertedStore
<1>4. /\ w \in Stores /\ DOMAIN w = DOMAIN v \cup wins
      /\ \A k \in DOMAIN v \cup wins : w[k] = IF k \in wins THEN b[k] ELSE v[k]
  <2>1. v \in Stores /\ b \in Stores /\ wins \in SUBSET DOMAIN b /\ w = Upserted(v, b, wins)
    BY <1>1, <1>2, <1>0
  <2> QED
    BY ONLY <2>1, UpsertedStore
<1>5. /\ todo' = [todo EXCEPT ![s] = @ \ {from}] /\ UNCHANGED <<clock, files>>
      /\ strayed' = [t \in Sessions |->
           IF t = s THEN (strayed[s] \ ks) \cup (wins \ ks)
           ELSE IF home[t] = d /\ pc[t] = "merge" THEN strayed[t] \cup ks
           ELSE strayed[t]]
  BY <1>1, <1>0 DEF MergeStoring
<1>6. Conflicts(v, b, from, d) \subseteq Conflict
  BY <1>1, ConflictsType
<1>7. TypeOK'
  BY <1>1, <1>2, <1>3, <1>4, <1>5, <1>6 DEF Inv, TypeOK, files
<1>8. Located'
  <2>1. \A t \in Sessions : todo'[t] \subseteq todo[t]
    BY <1>5 DEF Inv, TypeOK
  <2> QED
    BY <1>1, <1>5, <2>1 DEF Inv, Located, files
<1>9. ViewFaithful'
  <2> SUFFICES ASSUME NEW t \in Sessions, pc[t] = "merge",
                      NEW k \in Keys \ strayed'[t]
               PROVE  /\ k \in DOMAIN view'[t] <=> k \in DOMAIN facts'[home[t]]
                      /\ k \in DOMAIN facts'[home[t]] =>
                           view'[t][k] = facts'[home[t]][k]
    BY <1>1 DEF ViewFaithful
  <2>1. /\ home[t] \in Devices /\ facts'[d] = f /\ view'[s] = w
        /\ d = home[s] /\ l = facts[d] /\ v = view[s]
    BY <1>1, <1>0 DEF Inv, TypeOK, Located
  <2>2. k \notin strayed[t] =>
          /\ k \in DOMAIN view[t] <=> k \in DOMAIN facts[home[t]]
          /\ k \in DOMAIN facts[home[t]] => view[t][k] = facts[home[t]][k]
    BY DEF Inv, ViewFaithful
  <2>3. CASE t = s
    <3>1. k \in ks \/ (k \notin strayed[s] /\ k \notin wins /\ k \notin ks)
      BY <1>2, <1>5, <2>3
    <3> QED
      BY <1>1, <1>2, <1>3, <1>4, <2>1, <2>2, <2>3, <3>1
  <2>4. CASE t # s /\ home[t] = d
    <3>1. k \notin strayed[t] /\ k \notin ks /\ view'[t] = view[t]
      BY <1>1, <1>5, <2>4 DEF Inv, TypeOK
    <3> QED
      BY <1>3, <2>1, <2>2, <2>4, <3>1
  <2>5. CASE t # s /\ home[t] # d
    <3>1. k \notin strayed[t] /\ view'[t] = view[t] /\ facts'[home[t]] = facts[home[t]]
      BY <1>1, <1>5, <2>1, <2>5 DEF Inv, TypeOK
    <3> QED
      BY <2>2, <3>1
  <2> QED
    BY <2>3, <2>4, <2>5
<1> QED
  BY <1>7, <1>8, <1>9 DEF Inv

(* The invariant is inductive.                                               *)
LEMMA NextInv == Inv /\ [Next]_vars => Inv'
<1> SUFFICES ASSUME Inv, [Next]_vars PROVE Inv'
  OBVIOUS
<1>1. Cases
  BY StepCases
<1>2. ASSUME NEW d \in Devices, Crash(d) PROVE Inv'
  <2>1. /\ {s \in Sessions : home[s] = d} \in SUBSET Sessions
        /\ Rest({s \in Sessions : home[s] = d}) /\ UNCHANGED <<facts, clock, files>>
    BY <1>2 DEF Crash
  <2> QED
    BY <2>1, RestType
<1>3. ASSUME NEW s \in Sessions, Finish(s) PROVE Inv'
  <2>1. {s} \in SUBSET Sessions /\ Rest({s}) /\ UNCHANGED <<facts, clock, files>>
    BY <1>3 DEF Finish
  <2> QED
    BY <2>1, RestType
<1>4. CASE UNCHANGED vars
  BY <1>4 DEF vars, files, work, Inv, TypeOK, Located, ViewFaithful
<1> QED
  BY <1>1, <1>2, <1>3, <1>4, WriteInv, ExportInv, DeliverInv, LoadInv, SkipInv,
     MergeInv DEF Cases

-----------------------------------------------------------------------------
(* The theorems.                                                             *)

(* The invariant holds always.                                               *)
LEMMA Invariance == Spec => []Inv
BY InitInv, NextInv, PTL DEF Spec

(* Every variable keeps its type.                                            *)
THEOREM TypeCorrect == Spec => []TypeOK
<1>1. Inv => TypeOK
  BY DEF Inv
<1> QED
  BY <1>1, Invariance, PTL

(* An import plans each bundle against what the store really holds, except   *)
(* in the keys that strayed.                                                 *)
THEOREM ViewFaithfulAlways == Spec => []ViewFaithful
<1>1. Inv => ViewFaithful
  BY DEF Inv
<1> QED
  BY <1>1, Invariance, PTL

(* A step that merges a file for s is a merge or a skip of s.                *)
LEMMA MergeCases ==
  ASSUME Inv, [Next]_vars, NEW s \in Sessions, Merges(s)
  PROVE  \E from \in todo[s] :
           \/ Skip(s, from)
           \/ \E ks \in SUBSET Wins(s, from) : MergeStoring(s, from, ks)
<1> USE DEF Merges, Inv, TypeOK
<1>1. Cases
  BY StepCases
<1>2. ASSUME NEW d \in Devices, Write(d) PROVE FALSE
  BY <1>2, WriteStep
<1>3. ASSUME NEW d \in Devices, Crash(d) PROVE FALSE
  BY <1>3 DEF Crash, Rest
<1>4. ASSUME NEW t \in Sessions, NEW d \in Devices, Export(t, d) PROVE FALSE
  BY <1>4 DEF Export, work
<1>5. ASSUME NEW t \in Sessions, Load(t) PROVE FALSE
  BY <1>5 DEF Load
<1>6. ASSUME NEW t \in Sessions, Finish(t) PROVE FALSE
  BY <1>6 DEF Finish, Rest
<1>7. ASSUME NEW t \in Sessions, NEW from \in todo[t], Skip(t, from) PROVE t = s
  BY <1>7 DEF Skip
<1>8. ASSUME NEW t \in Sessions, NEW from \in todo[t],
             NEW ks \in SUBSET Wins(t, from), MergeStoring(t, from, ks)
      PROVE  t = s
  BY <1>8 DEF MergeStoring
<1>9. ASSUME NEW from \in Devices, NEW d \in Devices, Deliver(from, d) PROVE FALSE
  BY <1>9 DEF Deliver, work
<1>10. CASE UNCHANGED vars
  BY <1>10 DEF vars, work
<1> HIDE DEF Merges, Inv, TypeOK
<1> QED
  BY <1>1, <1>2, <1>3, <1>4, <1>5, <1>6, <1>7, <1>8, <1>9, <1>10 DEF Cases

(* A merge leaves a key that has not strayed as it is, or replaces its fact  *)
(* by one that diverges from it and beats it.                                *)
LEMMA MergeSound ==
  ASSUME Inv, [Next]_vars, NEW s \in Sessions, Merges(s),
         NEW k \in DOMAIN facts[home[s]] \ strayed[s]
  PROVE  /\ k \in DOMAIN facts'[home[s]]
         /\ \/ facts'[home[s]][k] = facts[home[s]][k]
            \/ /\ facts'[home[s]][k].ts >= facts[home[s]][k].ts
               /\ [key |-> k, ours |-> facts[home[s]][k].val,
                   theirs |-> facts'[home[s]][k].val] \in news'[s]
<1>1. PICK from \in todo[s] :
        \/ Skip(s, from)
        \/ \E ks \in SUBSET Wins(s, from) : MergeStoring(s, from, ks)
  BY MergeCases
<1>2. CASE Skip(s, from)
  BY <1>2 DEF Skip
<1>3. CASE \E ks \in SUBSET Wins(s, from) : MergeStoring(s, from, ks)
  <2>1. PICK ks \in SUBSET Wins(s, from) : MergeStoring(s, from, ks)
    BY <1>3
  <2>2. PICK d, b, wins, v, l :
          /\ d = home[s] /\ b = inbox[d][from] /\ wins = Wins(s, from)
          /\ v = view[s] /\ l = facts[d]
    OBVIOUS
  <2>3. /\ d \in Devices /\ pc[s] = "merge" /\ b \in Stores /\ wins \subseteq DOMAIN b
        /\ l \in Stores /\ v \in Stores
        /\ facts' = [facts EXCEPT ![d] = Upserted(l, b, ks)]
        /\ news' = [news EXCEPT ![s] = news[s] \cup Conflicts(v, b, from, d)]
    BY <2>1, <2>2, MergeStep
  <2>4. PICK f : f = Upserted(l, b, ks)
    OBVIOUS
  <2>5. ks \in SUBSET DOMAIN b
    BY <2>2, <2>3
  <2>6. /\ DOMAIN f = DOMAIN l \cup ks
        /\ \A j \in DOMAIN l \cup ks : f[j] = IF j \in ks THEN b[j] ELSE l[j]
    <3>1. /\ DOMAIN Upserted(l, b, ks) = DOMAIN l \cup ks
          /\ \A j \in DOMAIN l \cup ks :
               Upserted(l, b, ks)[j] = IF j \in ks THEN b[j] ELSE l[j]
      BY ONLY Zenon DEF Upserted
    <3>2. DOMAIN f = DOMAIN l \cup ks
      BY ONLY <2>4, <3>1
    <3>3. ASSUME NEW j \in DOMAIN l \cup ks PROVE f[j] = IF j \in ks THEN b[j] ELSE l[j]
      BY ONLY <2>4, <3>1, <3>3
    <3> QED
      BY ONLY <3>2, <3>3
  <2>7. facts'[d] = f /\ news'[s] = news[s] \cup Conflicts(v, b, from, d)
    BY <2>3, <2>4 DEF Inv, TypeOK
  <2>8. k \in DOMAIN l /\ k \in DOMAIN v /\ v[k] = l[k] /\ k \in Keys
    <3>1. k \in Keys \ strayed[s] /\ k \in DOMAIN l
      BY <2>2, <2>3, StoreParts
    <3> QED
      BY <2>2, <2>3, <3>1 DEF Inv, ViewFaithful
  <2>9. CASE k \in ks
    <3>1. k \in Applied(v, b, from, d) \cap DOMAIN v
      BY <2>2, <2>8, <2>9 DEF Wins
    <3>2. k \in Diverging(v, b) /\ Beats(b[k], from, v[k], d)
      BY <3>1, AppliedParts
    <3>3. b[k].ts \in Nat /\ l[k].ts \in Nat
      BY <2>3, <2>5, <2>8, <2>9, StoreParts
    <3>4. b[k].ts >= l[k].ts
      BY <2>8, <3>2, <3>3 DEF Beats
    <3>5. [key |-> k, ours |-> v[k].val, theirs |-> b[k].val]
            \in Conflicts(v, b, from, d)
      BY <3>2 DEF Conflicts
    <3> QED
      BY <2>2, <2>6, <2>7, <2>8, <2>9, <3>4, <3>5
  <2>10. CASE k \notin ks
    BY <2>2, <2>6, <2>7, <2>8, <2>10
  <2> QED
    BY <2>9, <2>10
<1> QED
  BY <1>1, <1>2, <1>3

(* A merge never puts an older fact in the place of a newer one, whatever    *)
(* stale bundles come in whatever order, but where the view has strayed.     *)
THEOREM NewestWinsAlways == Spec => NewestWins
<1>1. Inv /\ [Next]_vars
        => [\A s \in Sessions : Merges(s) =>
              LET d == home[s] IN
              \A k \in DOMAIN facts[d] \ strayed[s] :
                k \in DOMAIN facts'[d] /\ facts'[d][k].ts >= facts[d][k].ts]_vars
  <2> SUFFICES ASSUME Inv, [Next]_vars, NEW s \in Sessions, Merges(s),
                      NEW k \in DOMAIN facts[home[s]] \ strayed[s]
               PROVE  /\ k \in DOMAIN facts'[home[s]]
                      /\ facts'[home[s]][k].ts >= facts[home[s]][k].ts
    OBVIOUS
  <2>1. facts[home[s]][k].ts \in Nat
    <3>1. home[s] \in Devices
      BY DEF Inv, Located, Merges
    <3>2. facts[home[s]] \in Stores
      BY <3>1 DEF Inv, TypeOK
    <3> QED
      BY <3>2, StoreParts
  <2>2. facts[home[s]][k].ts >= facts[home[s]][k].ts
    BY <2>1
  <2> QED
    BY <2>2, MergeSound
<1> QED
  BY <1>1, Invariance, PTL DEF Spec, NewestWins

(* A merge that overwrites a value notes both values as a conflict, with the *)
(* same exception.                                                           *)
THEOREM NoSilentClobberAlways == Spec => NoSilentClobber
<1>1. Inv /\ [Next]_vars
        => [\A s \in Sessions : Merges(s) =>
              LET d == home[s] IN
              \A k \in DOMAIN facts[d] \ strayed[s] :
                facts'[d][k].val # facts[d][k].val =>
                  [key |-> k, ours |-> facts[d][k].val, theirs |-> facts'[d][k].val]
                    \in news'[s]]_vars
  BY MergeSound
<1> QED
  BY <1>1, Invariance, PTL DEF Spec, NoSilentClobber
=============================================================================
