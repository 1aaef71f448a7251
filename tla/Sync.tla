------------------------------- MODULE Sync -------------------------------
(* Federated sync of facts between the user's own devices.  A device seals   *)
(* its facts into a bundle in its outbox; a courier (a push to the peer, or  *)
(* a hand) puts bundles into the inboxes of other devices, where a file      *)
(* stays until a later bundle of the same device replaces it; an import      *)
(* merges every file of the inbox into the store, bundle by bundle.  All of  *)
(* it happens when an operator asks, while the user keeps editing.           *)
(*                                                                           *)
(* A store and a bundle are partial functions from keys to facts.  Reserved  *)
(* keys never leave a device, so no key here is reserved.  Sealing is        *)
(* transparent.                                                              *)
EXTENDS Integers, FiniteSets

CONSTANTS Devices,     \* their ids, which the tie-break compares
          Keys,        \* in the order the store lists them
          Values,      \* in the order of their bytes
          Sessions,    \* calls of sync_now that can be under way at a time
          Routes,      \* the courier's: pairs of an exporter and a device
          Faults,      \* what may go wrong: a failed write, a crash
          MaxBundle,   \* MAX_BUNDLE_FACTS
          Start,       \* what each device's clock shows at first
          MaxTime      \* bound of the model: the clocks' last tick

ASSUME SyncAssumption ==
  /\ Devices \subseteq Nat \ {0} /\ Keys \subseteq Nat /\ Values \subseteq Nat
  /\ IsFiniteSet(Devices)
  /\ Routes \subseteq Devices \X Devices
  /\ Faults \subseteq {"disk", "crash"}
  /\ MaxBundle \in Nat /\ MaxTime \in Nat /\ Start \in [Devices -> 0..MaxTime]

VARIABLES
  facts,    \* the store of each device
  clock,    \* the time of a device's last edit: clocks are not synchronised
  outbox,   \* the bundle files a device has sealed: one, or none yet
  inbox,    \* the bundle files a device was given, by their exporter
  pc,       \* sessions: "idle", "sealed" or "merge"
  home,     \* the device a session runs on
  todo,     \* the exporters whose files the import has still to read
  view,     \* the import's working copy of the local facts
  news,     \* the conflicts of this import, in memory
  strayed   \* history: keys in which the store may differ from the view

files == <<outbox, inbox>>
work  == <<todo, view, news, strayed>>
vars  == <<facts, clock, files, pc, home, work>>

Fact   == [val : Values, ts : 1..MaxTime]
Stores == UNION {[ks -> Fact] : ks \in SUBSET Keys}
Conflict == [key : Keys, ours : Values, theirs : Values]
Nowhere == 0
Nothing == [k \in {} |-> k]

-----------------------------------------------------------------------------
(* The merge.                                                                *)

(* syncable_facts: ordered by key, cut at the bound.                         *)
Syncable(store) ==
  LET Kept == {k \in DOMAIN store :
                 Cardinality({j \in DOMAIN store : j < k}) < MaxBundle}
  IN [k \in Kept |-> store[k]]

(* Mutant: on a tie the remote fact wins.                                    *)
RemoteTakesTies(remote, from, local, here) == remote.ts >= local.ts

(* Mutant: the older fact wins.                                              *)
OlderWins(remote, from, local, here) == remote.ts < local.ts

(* remote_beats_local: the newer one; on a tie, by (device, value).          *)
Beats(remote, from, local, here) ==
  \/ remote.ts > local.ts
  \/ /\ remote.ts = local.ts
     /\ from > here \/ (from = here /\ remote.val > local.val)

Diverging(local, bundle) ==
  {k \in DOMAIN bundle \cap DOMAIN local : bundle[k].val # local[k].val}

(* plan_merge: the remote facts to write, and the conflicts to log.          *)
Applied(local, bundle, from, here) ==
  (DOMAIN bundle \ DOMAIN local)
    \cup {k \in Diverging(local, bundle) : Beats(bundle[k], from, local[k], here)}

(* Mutant: a conflict is only recorded when ours is kept.                    *)
KeptConflicts(local, bundle, from, here) ==
  {[key |-> k, ours |-> local[k].val, theirs |-> bundle[k].val] :
     k \in Diverging(local, bundle) \ Applied(local, bundle, from, here)}

Conflicts(local, bundle, from, here) ==
  {[key |-> k, ours |-> local[k].val, theirs |-> bundle[k].val] :
     k \in Diverging(local, bundle)}

(* upsert_fact_at with the fact's own timestamp, for the keys of ks.         *)
Upserted(store, bundle, ks) ==
  [k \in DOMAIN store \cup ks |-> IF k \in ks THEN bundle[k] ELSE store[k]]

-----------------------------------------------------------------------------
Init ==
  /\ facts = [d \in Devices |-> Nothing] /\ clock = Start
  /\ outbox = [d \in Devices |-> {}] /\ inbox = [d \in Devices |-> Nothing]
  /\ pc = [s \in Sessions |-> "idle"] /\ home = [s \in Sessions |-> Nowhere]
  /\ todo = [s \in Sessions |-> {}]
  /\ view = [s \in Sessions |-> Nothing] /\ news = [s \in Sessions |-> {}]
  /\ strayed = [s \in Sessions |-> {}]

(* An import that runs on d now has a view that is off in the keys of ks.    *)
Stray(d, ks) ==
  strayed' = [s \in Sessions |-> IF home[s] = d /\ pc[s] = "merge"
                                 THEN strayed[s] \cup ks ELSE strayed[s]]

(* The user writes at a later time of the device's clock, which only moves   *)
(* forward, if at its own pace.                                              *)
At(d, t) == t > clock[d] /\ clock' = [clock EXCEPT ![d] = t]

Edit(d, k, v, t) ==
  /\ At(d, t)
  /\ facts' = [facts EXCEPT ![d] =
                 Upserted(@, [j \in {k} |-> [val |-> v, ts |-> t]], {k})]
  /\ Stray(d, {k})
  /\ UNCHANGED <<files, pc, home, todo, view, news>>

(* A fact is deleted without a trace.                                        *)
Forget(d, k, t) ==
  /\ At(d, t) /\ k \in DOMAIN facts[d]
  /\ facts' = [facts EXCEPT ![d] = [j \in DOMAIN @ \ {k} |-> @[j]]]
  /\ Stray(d, {k})
  /\ UNCHANGED <<files, pc, home, todo, view, news>>

(* The export half of sync_now; the file may fail to be written.             *)
Export(s, d) ==
  /\ pc[s] = "idle"
  /\ pc' = [pc EXCEPT ![s] = "sealed"] /\ home' = [home EXCEPT ![s] = d]
  /\ \/ outbox' = [outbox EXCEPT ![d] = {Syncable(facts[d])}]
     \/ "disk" \in Faults /\ outbox' = outbox
  /\ UNCHANGED <<facts, clock, inbox, work>>

(* The courier: what is in an outbox gets into an inbox, sooner or later.    *)
Deliver(from, d) ==
  /\ <<from, d>> \in Routes /\ outbox[from] # {}
  /\ \E bundle \in outbox[from] :
       inbox' = [inbox EXCEPT ![d] =
                   [e \in DOMAIN @ \cup {from} |-> IF e = from THEN bundle
                                                   ELSE @[e]]]
  /\ UNCHANGED <<facts, clock, home, outbox, pc, work>>

(* The sessions of ss are over.                                              *)
Rest(ss) ==
  /\ pc' = [s \in Sessions |-> IF s \in ss THEN "idle" ELSE pc[s]]
  /\ home' = [s \in Sessions |-> IF s \in ss THEN Nowhere ELSE home[s]]
  /\ todo' = [s \in Sessions |-> IF s \in ss THEN {} ELSE todo[s]]
  /\ view' = [s \in Sessions |-> IF s \in ss THEN Nothing ELSE view[s]]
  /\ news' = [s \in Sessions |-> IF s \in ss THEN {} ELSE news[s]]
  /\ strayed' = [s \in Sessions |-> IF s \in ss THEN {} ELSE strayed[s]]

(* import_inbox lists the files, sorted, and loads its view.  What lies      *)
(* beyond the bound is in the store and not in the view.                     *)
Load(s) ==
  LET d == home[s] IN
  /\ pc[s] = "sealed"
  /\ pc' = [pc EXCEPT ![s] = "merge"]
  /\ todo' = [todo EXCEPT ![s] = DOMAIN inbox[d]]
  /\ view' = [view EXCEPT ![s] = Syncable(facts[d])]
  /\ strayed' = [strayed EXCEPT ![s] =
                   DOMAIN facts[d] \ DOMAIN Syncable(facts[d])]
  /\ UNCHANGED <<facts, clock, home, files, news>>

NextFile(s, from) == /\ pc[s] = "merge" /\ from \in todo[s]
                     /\ \A e \in todo[s] : from <= e

(* The import's own bundle is not merged, nor one that does not open.        *)
Skip(s, from) ==
  /\ NextFile(s, from) /\ (from = home[s] \/ "disk" \in Faults)
  /\ todo' = [todo EXCEPT ![s] = @ \ {from}]
  /\ UNCHANGED <<facts, clock, home, files, pc, view, news, strayed>>

(* One bundle: plan against the view, write what wins, fold it into the view.*)
(* A write may fail (ks is what got stored): it is folded all the same.      *)
Wins(s, from) == Applied(view[s], inbox[home[s]][from], from, home[s])

(* Mutant: the view is not folded forward.                                   *)
MergeUnfolded(s, from, ks) ==
  LET d      == home[s]
      bundle == inbox[d][from]
  IN /\ NextFile(s, from) /\ from # d
     /\ todo' = [todo EXCEPT ![s] = @ \ {from}]
     /\ facts' = [facts EXCEPT ![d] = Upserted(@, bundle, ks)]
     /\ view' = view
     /\ strayed' = [t \in Sessions |->
          IF t = s THEN (strayed[s] \ ks) \cup (Wins(s, from) \ ks)
          ELSE IF home[t] = d /\ pc[t] = "merge" THEN strayed[t] \cup ks
          ELSE strayed[t]]
     /\ news' = [news EXCEPT ![s] = @ \cup Conflicts(view[s], bundle, from, d)]
     /\ UNCHANGED <<clock, files, pc, home>>

MergeStoring(s, from, ks) ==
  LET d      == home[s]
      bundle == inbox[d][from]
  IN /\ NextFile(s, from) /\ from # d
     /\ todo' = [todo EXCEPT ![s] = @ \ {from}]
     /\ facts' = [facts EXCEPT ![d] = Upserted(@, bundle, ks)]
     /\ view' = [view EXCEPT ![s] = Upserted(@, bundle, Wins(s, from))]
     /\ strayed' = [t \in Sessions |->
          IF t = s THEN (strayed[s] \ ks) \cup (Wins(s, from) \ ks)
          ELSE IF home[t] = d /\ pc[t] = "merge" THEN strayed[t] \cup ks
          ELSE strayed[t]]
     /\ news' = [news EXCEPT ![s] = @ \cup Conflicts(view[s], bundle, from, d)]
     /\ UNCHANGED <<clock, files, pc, home>>

Merge(s, from) == MergeStoring(s, from, Wins(s, from))
MergePartly(s, from) ==
  /\ "disk" \in Faults
  /\ \E ks \in SUBSET Wins(s, from) \ {Wins(s, from)} : MergeStoring(s, from, ks)

(* The conflicts go to the sealed log, and the files stay where they are.    *)
Finish(s) ==
  /\ pc[s] = "merge" /\ todo[s] = {}
  /\ Rest({s})
  /\ UNCHANGED <<facts, clock, files>>

(* The daemon of d dies: its imports end where they are.                     *)
Crash(d) ==
  /\ "crash" \in Faults /\ \E s \in Sessions : home[s] = d
  /\ Rest({s \in Sessions : home[s] = d})
  /\ UNCHANGED <<facts, clock, files>>

Files(s)  == \E from \in todo[s] : Skip(s, from) \/ Merge(s, from)
Import(s) == Load(s) \/ Finish(s) \/ Files(s)
Write(d)  == \E k \in Keys, t \in 1..MaxTime :
               Forget(d, k, t) \/ \E v \in Values : Edit(d, k, v, t)

Next ==
  \/ \E d \in Devices : Write(d) \/ Crash(d) \/ \E s \in Sessions : Export(s, d)
  \/ \E s \in Sessions : Import(s) \/ \E from \in todo[s] : MergePartly(s, from)
  \/ \E from, d \in Devices : Deliver(from, d)

Spec == Init /\ [][Next]_vars

(* The operators keep syncing: every device syncs again and again, and the   *)
(* courier gets each outbox to its inboxes in the end.                       *)
FairSpec ==
  /\ Spec
  /\ \A s \in Sessions : WF_vars(Import(s))
  /\ \A d \in Devices : SF_vars(\E s \in Sessions : Export(s, d))
  /\ \A r \in Routes : WF_vars(Deliver(r[1], r[2]))

-----------------------------------------------------------------------------
(* Properties.                                                               *)

Inboxes == UNION {[ds -> Stores] : ds \in SUBSET Devices}

TypeOK ==
  /\ facts \in [Devices -> Stores] /\ clock \in [Devices -> 0..MaxTime]
  /\ outbox \in [Devices -> SUBSET Stores]
  /\ inbox \in [Devices -> Inboxes]
  /\ pc \in [Sessions -> {"idle", "sealed", "merge"}]
  /\ home \in [Sessions -> Devices \cup {Nowhere}]
  /\ todo \in [Sessions -> SUBSET Devices] /\ view \in [Sessions -> Stores]
  /\ news \in [Sessions -> SUBSET Conflict]
  /\ strayed \in [Sessions -> SUBSET Keys]

(* The import plans each bundle against what the store holds: its view is    *)
(* the store, the bundles merged so far included, but for the keys somebody  *)
(* else wrote meanwhile, the writes that failed, and the facts beyond the    *)
(* bound, which the view never had.                                          *)
ViewFaithful ==
  \A s \in Sessions : pc[s] = "merge" =>
    LET store == facts[home[s]] IN
    \A k \in Keys \ strayed[s] :
      /\ k \in DOMAIN view[s] <=> k \in DOMAIN store
      /\ k \in DOMAIN store => view[s][k] = store[k]

Merges(s) == pc[s] = "merge" /\ pc'[s] = "merge" /\ todo'[s] # todo[s]

(* A merge never loses a fact and never puts an older one in its place,      *)
(* whatever stale bundle lies in the inbox and in whatever order they came,  *)
(* except in the keys where the view had gone astray.                        *)
NewestWins ==
  [][\A s \in Sessions : Merges(s) =>
       LET d == home[s] IN
       \A k \in DOMAIN facts[d] \ strayed[s] :
         k \in DOMAIN facts'[d] /\ facts'[d][k].ts >= facts[d][k].ts]_vars

(* A merge that overwrites a value with another notes both as a conflict,    *)
(* with the same exception.                                                  *)
NoSilentClobber ==
  [][\A s \in Sessions : Merges(s) =>
       LET d == home[s] IN
       \A k \in DOMAIN facts[d] \ strayed[s] :
         facts'[d][k].val # facts[d][k].val =>
           [key |-> k, ours |-> facts[d][k].val, theirs |-> facts'[d][k].val]
             \in news'[s]]_vars

(* Devices that go on syncing come to agree on every value, ties included,   *)
(* once their users stop editing (as the clocks of the model make them).     *)
Agreed ==
  \A d, e \in Devices :
    /\ DOMAIN facts[d] = DOMAIN facts[e]
    /\ \A k \in DOMAIN facts[d] : facts[d][k].val = facts[e][k].val
Convergence == <>[]Agreed

(* The rule of plan_merge without the exception: of two different values of  *)
(* a key the newer one is kept.                                              *)
NewestAlwaysWins ==
  [][\A s \in Sessions : Merges(s) =>
       LET d == home[s] IN
       \A k \in DOMAIN facts[d] :
         facts'[d][k].val # facts[d][k].val =>
           facts'[d][k].ts >= facts[d][k].ts]_vars
=============================================================================
