---------------------------- MODULE PolicyProofs ----------------------------
(* A policy snapshot is freed exactly when nobody refers to it, whatever the   *)
(* number of workers, reloads, reports and decisions; a decision is made with  *)
(* one policy and one configuration; no hit and no decision goes uncounted.    *)
(* The caches a decision takes its subject and object from stay consistent,    *)
(* whatever their size (module Lru).                                           *)
EXTENDS Policy, SequenceTheorems, FiniteSetTheorems, TLAPS

Snapshot == [rules : Opinions \cup {"freed"}, refs : Int, hits : Nat, taken : Nat, used : Nat]
Places == {"idle", "config", "pinned", "built", "replied"}
Decision(n, m) ==
    [pc : Places, config : 0 .. m, policy : 0 .. n, mask : 0 .. n,
     answer : [allow : BOOLEAN, audit : BOOLEAN]]

PinnedBy(f, g) == {w \in Workers : f[w].policy = g}
References(f, a, o, r, g) == Cardinality(PinnedBy(f, g)) + Held(a, g) + Held(o, g) + Held(r, g)

Counted(s, n) == s.refs = n /\ (s.rules = "freed" <=> n = 0)
Balanced(s) == s.hits + s.taken = s.used

Verdict(it, t) ==
    IF it.mask = None THEN "deny"
    ELSE IF it.policy = None \/ t[it.policy].rules = "none" THEN "allow"
    ELSE t[it.policy].rules

(* A worker has a policy from the pin to the unpin, and only then, and the last *)
(* policy is dropped when no worker is left that could still pin one.  The      *)
(* answer is the one of the policy and of the configuration that were pinned.   *)
WorkerInv(it, t, c, a) ==
    /\ it \in Decision(Len(t), Len(c))
    /\ it.pc \in {"idle", "config"} => it.policy = None
    /\ it.pc \in {"pinned", "built", "replied"} => it.policy # None
    /\ it.pc # "idle" => a # None /\ it.config # None
    /\ it.pc \in {"idle", "config", "pinned"} => it.mask = None
    /\ it.pc = "built" => it.mask = it.policy
    /\ it.pc = "replied" => it.answer = Response(Verdict(it, t), c[it.config])

(* The snapshots t, the decisions f, the active, the replaced and the reported  *)
(* snapshot, and the configurations c fit together.                             *)
Sound(t, f, a, o, r, c) ==
    /\ t \in Seq(Snapshot) /\ c \in Seq(BOOLEAN)
    /\ a \in 0 .. Len(t) /\ o \in 0 .. Len(t) /\ r \in 0 .. Len(t)
    /\ f = [w \in Workers |-> f[w]]
    /\ \A w \in Workers : WorkerInv(f[w], t, c, a)
    /\ \A g \in 1 .. Len(t) : Counted(t[g], References(f, a, o, r, g)) /\ Balanced(t[g])

Tally ==
    /\ counters \in [allowed : Nat, denied : Nat, taken : Nat] /\ decided \in Nat
    /\ counters.allowed + counters.denied + counters.taken = decided

IInv ==
    /\ ff \in Opinions \cup {"bad line", NoFile}
    /\ Sound(snap, worker, active, old, reporter, configs)
    /\ Len(configs) # 0
    /\ Tally

-----------------------------------------------------------------------------
(* What a reference does to the table of the snapshots.                        *)

Kept(a, b) == a.hits = b.hits /\ a.taken = b.taken /\ a.used = b.used

(* Only the count changes.                                                     *)
LEMMA SetRefs ==
    ASSUME NEW r \in Snapshot, NEW n \in Int
    PROVE  /\ [r EXCEPT !.refs = n] \in Snapshot /\ [r EXCEPT !.refs = n].refs = n
           /\ [r EXCEPT !.refs = n].rules = r.rules /\ Kept([r EXCEPT !.refs = n], r)
  BY DEF Snapshot, Kept

(* policy_snapshot_free() keeps the accounting of the hits.                    *)
LEMMA FreeSnapshot ==
    ASSUME NEW r \in Snapshot
    PROVE  /\ policy_snapshot_free(r) \in Snapshot /\ policy_snapshot_free(r).refs = r.refs
           /\ policy_snapshot_free(r).rules = "freed" /\ Kept(policy_snapshot_free(r), r)
  BY DEF Snapshot, Kept, policy_snapshot_free

(* policy_snapshot_get() raises one count and changes nothing else.            *)
LEMMA GetTable ==
    ASSUME NEW t \in Seq(Snapshot), NEW g \in 0 .. Len(t)
    PROVE  /\ policy_snapshot_get(g, t) \in Seq(Snapshot)
           /\ Len(policy_snapshot_get(g, t)) = Len(t)
           /\ \A j \in 1 .. Len(t) :
                 /\ policy_snapshot_get(g, t)[j].refs = t[j].refs + Held(g, j)
                 /\ policy_snapshot_get(g, t)[j].rules = t[j].rules
                 /\ Kept(policy_snapshot_get(g, t)[j], t[j])
<1>0. \A j \in 1 .. Len(t) : t[j] \in Snapshot /\ t[j].refs \in Int
  <2>1. \A j \in 1 .. Len(t) : t[j] \in Snapshot
    OBVIOUS
  <2> QED
    BY <2>1 DEF Snapshot
<1>1. CASE g = None
  <2>1. policy_snapshot_get(g, t) = t
    BY <1>1 DEF policy_snapshot_get
  <2>2. \A j \in 1 .. Len(t) : Held(g, j) = 0 /\ j # g
    BY <1>1 DEF Held, None
  <2> QED
    BY <1>0, <2>1, <2>2 DEF Kept
<1>2. CASE g # None
  <2>1. g \in 1 .. Len(t) /\ t[g] \in Snapshot
    BY <1>0, <1>2 DEF None
  <2> DEFINE e == [t[g] EXCEPT !.refs = @ + 1]
  <2>2. e \in Snapshot /\ e.refs = t[g].refs + 1 /\ e.rules = t[g].rules /\ Kept(e, t[g])
    <3>1. t[g].refs + 1 \in Int
      BY <1>0, <2>1
    <3> QED
      BY <2>1, <3>1, SetRefs
  <2>3. policy_snapshot_get(g, t) = [t EXCEPT ![g] = e]
    BY <1>2 DEF policy_snapshot_get
  <2> HIDE DEF e
  <2>4. /\ [t EXCEPT ![g] = e] \in Seq(Snapshot)
        /\ Len([t EXCEPT ![g] = e]) = Len(t)
        /\ \A j \in 1 .. Len(t) : [t EXCEPT ![g] = e][j] = IF j = g THEN e ELSE t[j]
    BY <2>1, <2>2, ExceptSeq
  <2>5. \A j \in 1 .. Len(t) : t[j].refs + 0 = t[j].refs
    BY <1>0
  <2> QED
    BY <2>2, <2>3, <2>4, <2>5 DEF Held, Kept
<1> QED
  BY <1>1, <1>2

(* policy_snapshot_put() lowers one count, and frees at the last one.          *)
LEMMA PutTable ==
    ASSUME NEW t \in Seq(Snapshot), NEW g \in 0 .. Len(t)
    PROVE  /\ policy_snapshot_put(g, t) \in Seq(Snapshot)
           /\ Len(policy_snapshot_put(g, t)) = Len(t)
           /\ \A j \in 1 .. Len(t) :
                 /\ policy_snapshot_put(g, t)[j].refs = t[j].refs - Held(g, j)
                 /\ policy_snapshot_put(g, t)[j].rules =
                        IF j = g /\ t[j].refs = 1 THEN "freed" ELSE t[j].rules
                 /\ Kept(policy_snapshot_put(g, t)[j], t[j])
<1>0. \A j \in 1 .. Len(t) : t[j] \in Snapshot /\ t[j].refs \in Int
  <2>1. \A j \in 1 .. Len(t) : t[j] \in Snapshot
    OBVIOUS
  <2> QED
    BY <2>1 DEF Snapshot
<1>1. CASE g = None
  <2>1. policy_snapshot_put(g, t) = t
    BY <1>1 DEF policy_snapshot_put
  <2>2. \A j \in 1 .. Len(t) : Held(g, j) = 0 /\ j # g
    BY <1>1 DEF Held, None
  <2> QED
    BY <1>0, <2>1, <2>2 DEF Kept
<1>2. CASE g # None
  <2>1. g \in 1 .. Len(t) /\ t[g] \in Snapshot
    BY <1>0, <1>2 DEF None
  <2> DEFINE s == [t[g] EXCEPT !.refs = @ - 1]
             e == IF s.refs = 0 THEN policy_snapshot_free(s) ELSE s
  <2>2. /\ e \in Snapshot /\ e.refs = t[g].refs - 1 /\ Kept(e, t[g])
        /\ e.rules = IF t[g].refs = 1 THEN "freed" ELSE t[g].rules
    <3>1. t[g].refs - 1 \in Int /\ (t[g].refs - 1 = 0 <=> t[g].refs = 1)
      BY <1>0, <2>1
    <3>2. /\ s \in Snapshot /\ s.refs = t[g].refs - 1 /\ s.rules = t[g].rules
          /\ Kept(s, t[g])
      BY <2>1, <3>1, SetRefs
    <3> HIDE DEF s
    <3> QED
      BY <3>1, <3>2, FreeSnapshot DEF Kept
  <2>3. policy_snapshot_put(g, t) = [t EXCEPT ![g] = e]
    BY <1>2 DEF policy_snapshot_put
  <2> HIDE DEF e
  <2>4. /\ [t EXCEPT ![g] = e] \in Seq(Snapshot)
        /\ Len([t EXCEPT ![g] = e]) = Len(t)
        /\ \A j \in 1 .. Len(t) : [t EXCEPT ![g] = e][j] = IF j = g THEN e ELSE t[j]
    BY <2>1, <2>2, ExceptSeq
  <2>5. \A j \in 1 .. Len(t) : t[j].refs - 0 = t[j].refs
    BY <1>0
  <2> QED
    BY <2>2, <2>3, <2>4, <2>5 DEF Held, Kept
<1> QED
  BY <1>1, <1>2
-----------------------------------------------------------------------------
(* The workers that refer to a snapshot, before and after one of them changes  *)
(* its policy.                                                                 *)

(* A finite set of workers pins a snapshot.                                    *)
LEMMA PinCount ==
    ASSUME IsFiniteSet(Workers), NEW f, NEW g
    PROVE  /\ IsFiniteSet(PinnedBy(f, g))
           /\ Cardinality(PinnedBy(f, g)) \in Nat
           /\ Cardinality(PinnedBy(f, g)) = 0 <=> PinnedBy(f, g) = {}
<1>1. PinnedBy(f, g) \subseteq Workers
  BY DEF PinnedBy
<1>2. IsFiniteSet(PinnedBy(f, g))
  BY <1>1, FS_Subset
<1> QED
  BY <1>2, FS_CardinalityType, FS_EmptySet

Repins(f, h, w) ==
    f[w].policy # h[w].policy /\ \A v \in Workers \ {w} : h[v].policy = f[v].policy

(* A worker that changes its policy is counted for the new one.                *)
LEMMA Repin ==
    ASSUME IsFiniteSet(Workers), NEW f, NEW h, NEW w \in Workers, Repins(f, h, w), NEW g
    PROVE  Cardinality(PinnedBy(h, g)) =
              Cardinality(PinnedBy(f, g)) + Held(h[w].policy, g) - Held(f[w].policy, g)
<1>0. IsFiniteSet(PinnedBy(f, g)) /\ Cardinality(PinnedBy(f, g)) \in Nat
  BY PinCount
<1>1. CASE h[w].policy = g
  <2>1. PinnedBy(h, g) = PinnedBy(f, g) \cup {w} /\ w \notin PinnedBy(f, g)
    BY <1>1 DEF PinnedBy, Repins
  <2>2. Cardinality(PinnedBy(h, g)) = Cardinality(PinnedBy(f, g)) + 1
    BY <1>0, <2>1, FS_AddElement
  <2> QED
    BY <1>0, <1>1, <2>2 DEF Held, Repins
<1>2. CASE f[w].policy = g
  <2>1. PinnedBy(h, g) = PinnedBy(f, g) \ {w} /\ w \in PinnedBy(f, g)
    BY <1>2 DEF PinnedBy, Repins
  <2>2. Cardinality(PinnedBy(h, g)) = Cardinality(PinnedBy(f, g)) - 1
    BY <1>0, <2>1, FS_RemoveElement
  <2> QED
    BY <1>0, <1>2, <2>2 DEF Held, Repins
<1>3. CASE h[w].policy # g /\ f[w].policy # g
  <2>1. PinnedBy(h, g) = PinnedBy(f, g)
    BY <1>3 DEF PinnedBy, Repins
  <2> QED
    BY <1>0, <1>3, <2>1 DEF Held
<1> QED
  BY <1>1, <1>2, <1>3

(* Workers that keep their policies are counted as before.                     *)
LEMMA SamePins ==
    ASSUME NEW f, NEW h, \A v \in Workers : h[v].policy = f[v].policy, NEW g
    PROVE  Cardinality(PinnedBy(h, g)) = Cardinality(PinnedBy(f, g))
<1>1. PinnedBy(h, g) = PinnedBy(f, g)
  BY DEF PinnedBy
<1> QED
  BY <1>1
-----------------------------------------------------------------------------
(* What every step needs of the invariant.                                     *)

(* What SMT needs of a table.                                                  *)
LEMMA SeqFacts ==
    ASSUME NEW S, NEW t \in Seq(S)
    PROVE  /\ DOMAIN t = 1 .. Len(t) /\ Len(t) \in Nat
           /\ \A g \in 1 .. Len(t) : t[g] \in S
  OBVIOUS

(* The table with one entry.                                                   *)
LEMMA OneElement ==
    ASSUME NEW S, NEW e \in S
    PROVE  <<e>> \in Seq(S) /\ Len(<<e>>) = 1 /\ <<e>>[1] = e /\ DOMAIN <<e>> = {1}
  OBVIOUS

(* A snapshot that somebody refers to has a reference.                         *)
LEMMA ReferencesType ==
    ASSUME IsFiniteSet(Workers), NEW f, NEW a, NEW o, NEW r, NEW g
    PROVE  /\ References(f, a, o, r, g) \in Nat
           /\ a = g \/ o = g \/ r = g => References(f, a, o, r, g) # 0
           /\ \A w \in Workers : f[w].policy = g => References(f, a, o, r, g) # 0
<1>1. /\ Cardinality(PinnedBy(f, g)) \in Nat
      /\ Cardinality(PinnedBy(f, g)) = 0 <=> PinnedBy(f, g) = {}
  BY PinCount
<1>2. \A w \in Workers : f[w].policy = g => Cardinality(PinnedBy(f, g)) # 0
  BY <1>1 DEF PinnedBy
<1> QED
  BY <1>1, <1>2 DEF References, Held

(* Publications only add generations a decision can refer to.                  *)
LEMMA DecisionGrows ==
    ASSUME NEW n \in Nat, NEW m \in Nat, NEW n2 \in Nat, NEW m2 \in Nat, n <= n2, m <= m2,
           NEW d \in Decision(n, m)
    PROVE  d \in Decision(n2, m2)
  BY DEF Decision

(* What the other threads do does not disturb a decision, as long as the rules *)
(* of its policy stay what they are.                                           *)
LEMMA WorkerKept ==
    ASSUME NEW t, NEW t2, NEW c, NEW c2, NEW a, NEW a2, NEW it, WorkerInv(it, t, c, a),
           Len(t) \in Nat, Len(t2) \in Nat, Len(c) \in Nat, Len(c2) \in Nat,
           Len(t) <= Len(t2), Len(c) <= Len(c2),
           \A i \in 1 .. Len(c) : c2[i] = c[i],
           a # None => a2 # None \/ it.pc = "idle",
           it.policy # None => t2[it.policy].rules = t[it.policy].rules
    PROVE  WorkerInv(it, t2, c2, a2)
<1>1. it \in Decision(Len(t), Len(c))
  BY DEF WorkerInv
<1>2. it \in Decision(Len(t2), Len(c2))
  BY <1>1, DecisionGrows
<1>3. it.config # None => c2[it.config] = c[it.config]
  BY <1>1 DEF Decision, None
<1>4. Verdict(it, t2) = Verdict(it, t)
  BY DEF Verdict
<1> QED
  BY <1>2, <1>3, <1>4 DEF WorkerInv

(* The tables stay sound when the counts agree with the references, and the    *)
(* rules of a snapshot change only when it is freed.                           *)
Recounted(t, f, a, c, t2, f2, a2, o2, r2) ==
    /\ t2 \in Seq(Snapshot) /\ Len(t2) = Len(t)
    /\ a2 \in 0 .. Len(t) /\ o2 \in 0 .. Len(t) /\ r2 \in 0 .. Len(t)
    /\ f2 = [w \in Workers |-> f2[w]]
    /\ \A g \in 1 .. Len(t) : /\ Counted(t2[g], References(f2, a2, o2, r2, g)) /\ Balanced(t2[g])
                              /\ t2[g].rules \in {t[g].rules, "freed"}
    /\ \A w \in Workers : \/ WorkerInv(f2[w], t2, c, a2)
                          \/ f2[w] = f[w] /\ (a # None => a2 # None \/ f[w].pc = "idle")

(* Every decision that keeps its policy then keeps its rules: they are in use.  *)
LEMMA StaysSound ==
    ASSUME IsFiniteSet(Workers),
           NEW t, NEW f, NEW a, NEW o, NEW r, NEW c, Sound(t, f, a, o, r, c),
           NEW t2, NEW f2, NEW a2, NEW o2, NEW r2, Recounted(t, f, a, c, t2, f2, a2, o2, r2)
    PROVE  Sound(t2, f2, a2, o2, r2, c)
<1>0. /\ t2 \in Seq(Snapshot) /\ Len(t2) = Len(t)
      /\ a2 \in 0 .. Len(t2) /\ o2 \in 0 .. Len(t2) /\ r2 \in 0 .. Len(t2)
      /\ f2 = [w \in Workers |-> f2[w]]
      /\ \A g \in 1 .. Len(t2) : /\ Counted(t2[g], References(f2, a2, o2, r2, g))
                                 /\ Balanced(t2[g]) /\ t2[g].rules \in {t[g].rules, "freed"}
      /\ \A w \in Workers : \/ WorkerInv(f2[w], t2, c, a2)
                            \/ f2[w] = f[w] /\ (a # None => a2 # None \/ f[w].pc = "idle")
  BY Zenon DEF Recounted
<1>1. t \in Seq(Snapshot) /\ c \in Seq(BOOLEAN) /\ \A w \in Workers : WorkerInv(f[w], t, c, a)
  BY Zenon DEF Sound
<1>2. Len(t) \in Nat /\ Len(c) \in Nat
  BY <1>1, SeqFacts
<1>3. ASSUME NEW w \in Workers, f2[w] = f[w], a # None => a2 # None \/ f[w].pc = "idle"
      PROVE  WorkerInv(f2[w], t2, c, a2)
  <2>1. WorkerInv(f[w], t, c, a)
    BY <1>1
  <2>2. f[w].policy # None => t2[f[w].policy].rules = t[f[w].policy].rules
    <3> SUFFICES ASSUME f[w].policy # None
                 PROVE  t2[f[w].policy].rules = t[f[w].policy].rules
      OBVIOUS
    <3> DEFINE g == f[w].policy
    <3>1. g \in 1 .. Len(t)
      <4>1. f[w] \in Decision(Len(t), Len(c))
        BY <2>1 DEF WorkerInv
      <4>2. f[w].policy \in 0 .. Len(t)
        BY <4>1 DEF Decision
      <4> QED
        BY <1>2, <4>2 DEF None
    <3>2. References(f2, a2, o2, r2, g) # 0
      BY <1>3, ReferencesType
    <3>3. t2[g].rules # "freed"
      BY <1>0, <3>1, <3>2 DEF Counted
    <3> QED
      BY <1>0, <3>1, <3>3
  <2> QED
    BY <1>0, <1>2, <1>3, <2>1, <2>2, WorkerKept
<1>4. \A w \in Workers : WorkerInv(f2[w], t2, c, a2)
  BY <1>0, <1>3
<1> QED
  BY <1>0, <1>1, <1>4, Zenon DEF Sound

(* A reference that is dropped is the count that is lowered.                   *)
LEMMA PutCounted ==
    ASSUME NEW t \in Seq(Snapshot), NEW p \in 0 .. Len(t), NEW g \in 1 .. Len(t),
           NEW n \in Nat, NEW n2 \in Nat, n2 = n - Held(p, g), Counted(t[g], n), Balanced(t[g])
    PROVE  /\ Counted(policy_snapshot_put(p, t)[g], n2)
           /\ Balanced(policy_snapshot_put(p, t)[g])
           /\ policy_snapshot_put(p, t)[g].rules \in {t[g].rules, "freed"}
<1>1. /\ policy_snapshot_put(p, t)[g].refs = t[g].refs - Held(p, g)
      /\ policy_snapshot_put(p, t)[g].rules =
             IF g = p /\ t[g].refs = 1 THEN "freed" ELSE t[g].rules
      /\ Kept(policy_snapshot_put(p, t)[g], t[g])
  BY PutTable
<1>2. Counted(policy_snapshot_put(p, t)[g], n2)
  BY <1>1 DEF Counted, Held
<1> QED
  BY <1>1, <1>2 DEF Balanced, Kept

(* A reference that is taken is the count that is raised.                      *)
LEMMA GetCounted ==
    ASSUME NEW t \in Seq(Snapshot), NEW p \in 0 .. Len(t), NEW g \in 1 .. Len(t),
           NEW n \in Nat, NEW n2 \in Nat, n2 = n + Held(p, g), p = g => n # 0,
           Counted(t[g], n), Balanced(t[g])
    PROVE  /\ Counted(policy_snapshot_get(p, t)[g], n2)
           /\ Balanced(policy_snapshot_get(p, t)[g])
           /\ policy_snapshot_get(p, t)[g].rules \in {t[g].rules, "freed"}
<1>1. /\ policy_snapshot_get(p, t)[g].refs = t[g].refs + Held(p, g)
      /\ policy_snapshot_get(p, t)[g].rules = t[g].rules
      /\ Kept(policy_snapshot_get(p, t)[g], t[g])
  BY GetTable
<1>2. Counted(policy_snapshot_get(p, t)[g], n2)
  BY <1>1 DEF Counted, Held
<1> QED
  BY <1>1, <1>2 DEF Balanced, Kept

(* The first policy, before any event.                                         *)
LEMMA InitIInv ==
    ASSUME IsFiniteSet(Workers), Init
    PROVE  IInv
<1> DEFINE first == [rules |-> "deny audit", refs |-> 1, hits |-> 0, taken |-> 0, used |-> 0]
<1>1. first \in Snapshot
  BY DEF Snapshot, Opinions
<1>2. /\ snap = <<first>> /\ configs = <<FALSE>> /\ active = 1 /\ old = 0 /\ reporter = 0
      /\ worker = [w \in Workers |-> Idle] /\ ff = NoFile
      /\ counters = [allowed |-> 0, denied |-> 0, taken |-> 0] /\ decided = 0
  BY Zenon DEF Init, None
<1> HIDE DEF first
<1>3. snap \in Seq(Snapshot) /\ Len(snap) = 1 /\ snap[1] = first /\ DOMAIN snap = {1}
  BY <1>1, <1>2, OneElement
<1>4. configs \in Seq(BOOLEAN) /\ Len(configs) = 1
  <2>1. FALSE \in BOOLEAN
    OBVIOUS
  <2> QED
    BY <1>2, <2>1, OneElement
<1>5. Idle \in Decision(1, 1) /\ Idle.pc = "idle" /\ Idle.policy = None /\ Idle.mask = None
  BY DEF Idle, Decision, Places, None
<1>6. \A w \in Workers : worker[w] = Idle
  BY <1>2
<1>7. \A w \in Workers : WorkerInv(worker[w], snap, configs, active)
  BY <1>3, <1>4, <1>5, <1>6 DEF WorkerInv
<1>8. Counted(snap[1], References(worker, active, old, reporter, 1)) /\ Balanced(snap[1])
  <2>1. PinnedBy(worker, 1) = {}
    BY <1>5, <1>6 DEF PinnedBy, None
  <2>2. Cardinality(PinnedBy(worker, 1)) = 0
    BY <2>1, FS_EmptySet
  <2>3. Held(active, 1) = 1 /\ Held(old, 1) = 0 /\ Held(reporter, 1) = 0
    BY <1>2 DEF Held
  <2>4. References(worker, active, old, reporter, 1) = 1
    BY <2>2, <2>3 DEF References
  <2>5. Counted(first, 1) /\ Balanced(first)
    BY DEF first, Counted, Balanced
  <2> QED
    BY <1>3, <2>4, <2>5
<1>9. Sound(snap, worker, active, old, reporter, configs)
  <2>1. active \in 0 .. Len(snap) /\ old \in 0 .. Len(snap) /\ reporter \in 0 .. Len(snap)
    BY <1>2, <1>3
  <2>2. worker = [w \in Workers |-> worker[w]]
    BY <1>2
  <2>3. \A g \in 1 .. Len(snap) : g = 1
    BY <1>3
  <2> QED
    BY <1>3, <1>4, <1>7, <1>8, <2>1, <2>2, <2>3, Zenon DEF Sound
<1>10. Tally
  BY <1>2 DEF Tally
<1> QED
  <2>1. Len(configs) # 0
    BY <1>4
  <2> QED
    BY <1>2, <1>9, <1>10, <2>1, Zenon DEF IInv
-----------------------------------------------------------------------------
(* One lemma per change of the tables.                                         *)

(* What sound tables give to a step.                                           *)
LEMMA SoundFacts ==
    ASSUME IsFiniteSet(Workers),
           NEW t, NEW f, NEW a, NEW o, NEW r, NEW c, Sound(t, f, a, o, r, c)
    PROVE  /\ t \in Seq(Snapshot) /\ c \in Seq(BOOLEAN) /\ Len(t) \in Nat /\ Len(c) \in Nat
           /\ DOMAIN t = 1 .. Len(t)
           /\ a \in 0 .. Len(t) /\ o \in 0 .. Len(t) /\ r \in 0 .. Len(t)
           /\ f = [w \in Workers |-> f[w]]
           /\ \A w \in Workers : WorkerInv(f[w], t, c, a) /\ f[w] \in Decision(Len(t), Len(c))
           /\ \A g \in 1 .. Len(t) :
                 /\ t[g] \in Snapshot /\ References(f, a, o, r, g) \in Nat
                 /\ Counted(t[g], References(f, a, o, r, g)) /\ Balanced(t[g])
<1>1. /\ t \in Seq(Snapshot) /\ c \in Seq(BOOLEAN)
      /\ a \in 0 .. Len(t) /\ o \in 0 .. Len(t) /\ r \in 0 .. Len(t)
      /\ f = [w \in Workers |-> f[w]]
      /\ \A w \in Workers : WorkerInv(f[w], t, c, a)
      /\ \A g \in 1 .. Len(t) : Counted(t[g], References(f, a, o, r, g)) /\ Balanced(t[g])
  BY Zenon DEF Sound
<1>2. /\ DOMAIN t = 1 .. Len(t) /\ Len(t) \in Nat /\ Len(c) \in Nat
      /\ \A g \in 1 .. Len(t) : t[g] \in Snapshot
  BY <1>1, SeqFacts
<1>3. \A w \in Workers : f[w] \in Decision(Len(t), Len(c))
  BY <1>1 DEF WorkerInv
<1> QED
  BY <1>1, <1>2, <1>3, ReferencesType, Zenon

(* The active pointer, the replaced snapshot or the report drops its reference. *)
LEMMA DropReference ==
    ASSUME IsFiniteSet(Workers),
           NEW t, NEW f, NEW a, NEW o, NEW r, NEW c, Sound(t, f, a, o, r, c),
           NEW p, NEW a2, NEW o2, NEW r2,
           \/ p = a /\ a2 = None /\ o2 = o /\ r2 = r /\ \A w \in Workers : f[w].pc = "idle"
           \/ p = o /\ a2 = a /\ o2 = None /\ r2 = r
           \/ p = r /\ a2 = a /\ o2 = o /\ r2 = None
    PROVE  Sound(policy_snapshot_put(p, t), f, a2, o2, r2, c)
<1> DEFINE t2 == policy_snapshot_put(p, t)
<1>1. /\ t \in Seq(Snapshot) /\ Len(t) \in Nat /\ f = [w \in Workers |-> f[w]]
      /\ a \in 0 .. Len(t) /\ o \in 0 .. Len(t) /\ r \in 0 .. Len(t)
  BY SoundFacts, Zenon
<1>2. p \in 0 .. Len(t) /\ a2 \in 0 .. Len(t) /\ o2 \in 0 .. Len(t) /\ r2 \in 0 .. Len(t)
  BY <1>1 DEF None
<1>3. t2 \in Seq(Snapshot) /\ Len(t2) = Len(t)
  BY <1>1, <1>2, PutTable
<1>4. ASSUME NEW g \in 1 .. Len(t)
      PROVE  /\ Counted(t2[g], References(f, a2, o2, r2, g)) /\ Balanced(t2[g])
             /\ t2[g].rules \in {t[g].rules, "freed"}
  <2>1. /\ References(f, a, o, r, g) \in Nat /\ References(f, a2, o2, r2, g) \in Nat
        /\ Cardinality(PinnedBy(f, g)) \in Nat
    BY ReferencesType, PinCount
  <2>2. Held(None, g) = 0
    BY DEF Held, None
  <2>3. References(f, a2, o2, r2, g) = References(f, a, o, r, g) - Held(p, g)
    <3>1. /\ Held(a, g) \in Nat /\ Held(o, g) \in Nat /\ Held(r, g) \in Nat
      BY DEF Held
    <3> QED
      BY <2>1, <2>2, <3>1 DEF References
  <2>4. Counted(t[g], References(f, a, o, r, g)) /\ Balanced(t[g])
    BY SoundFacts
  <2> QED
    BY <1>1, <1>2, <2>1, <2>3, <2>4, PutCounted
<1>5. \A w \in Workers : a # None => a2 # None \/ f[w].pc = "idle"
  OBVIOUS
<1> HIDE DEF t2
<1>6. Sound(t2, f, a2, o2, r2, c)
  <2>1. Recounted(t, f, a, c, t2, f, a2, o2, r2)
    BY <1>1, <1>2, <1>3, <1>4, <1>5, Zenon DEF Recounted
  <2> QED
    BY <2>1, StaysSound
<1> QED
  BY <1>6 DEF t2

(* A report takes a reference to the active snapshot. *)
LEMMA ReportReference ==
    ASSUME IsFiniteSet(Workers),
           NEW t, NEW f, NEW a, NEW o, NEW c, Sound(t, f, a, o, None, c), a # None
    PROVE  Sound(policy_snapshot_get(a, t), f, a, o, a, c)
<1> DEFINE t2 == policy_snapshot_get(a, t)
<1>1. /\ t \in Seq(Snapshot) /\ Len(t) \in Nat /\ f = [w \in Workers |-> f[w]]
      /\ a \in 0 .. Len(t) /\ o \in 0 .. Len(t)
  BY SoundFacts, Zenon
<1>2. t2 \in Seq(Snapshot) /\ Len(t2) = Len(t)
  BY <1>1, GetTable
<1>3. ASSUME NEW g \in 1 .. Len(t)
      PROVE  /\ Counted(t2[g], References(f, a, o, a, g)) /\ Balanced(t2[g])
             /\ t2[g].rules \in {t[g].rules, "freed"}
  <2>1. /\ References(f, a, o, None, g) \in Nat /\ References(f, a, o, a, g) \in Nat
        /\ Cardinality(PinnedBy(f, g)) \in Nat /\ (a = g => References(f, a, o, None, g) # 0)
    BY ReferencesType, PinCount
  <2>2. References(f, a, o, a, g) = References(f, a, o, None, g) + Held(a, g)
    BY <2>1 DEF References, Held, None
  <2>3. Counted(t[g], References(f, a, o, None, g)) /\ Balanced(t[g])
    BY SoundFacts
  <2> QED
    BY <1>1, <2>1, <2>2, <2>3, GetCounted
<1> HIDE DEF t2
<1>4. Sound(t2, f, a, o, a, c)
  <2>1. Recounted(t, f, a, c, t2, f, a, o, a)
    BY <1>1, <1>2, <1>3, Zenon DEF Recounted
  <2> QED
    BY <2>1, StaysSound
<1> QED
  BY <1>4 DEF t2
(* A worker takes a reference, or drops the one it has. *)
LEMMA PinReference ==
    ASSUME IsFiniteSet(Workers),
           NEW t, NEW f, NEW a, NEW o, NEW r, NEW c, Sound(t, f, a, o, r, c),
           NEW w \in Workers, f[w].policy = None, a # None,
           NEW d, d.policy = a, WorkerInv(d, t, c, a), d.pc = "pinned"
    PROVE  Sound(policy_snapshot_get(a, t), [f EXCEPT ![w] = d], a, o, r, c)
<1> DEFINE t2 == policy_snapshot_get(a, t)
           f2 == [f EXCEPT ![w] = d]
<1>1. /\ t \in Seq(Snapshot) /\ Len(t) \in Nat /\ f = [v \in Workers |-> f[v]]
      /\ a \in 0 .. Len(t) /\ o \in 0 .. Len(t) /\ r \in 0 .. Len(t)
  BY SoundFacts, Zenon
<1>2. t2 \in Seq(Snapshot) /\ Len(t2) = Len(t)
  BY <1>1, GetTable
<1>3. f2 = [v \in Workers |-> f2[v]] /\ f2[w] = d /\ \A v \in Workers \ {w} : f2[v] = f[v]
  BY <1>1
<1>4. WorkerInv(d, t2, c, a)
  BY <1>2 DEF WorkerInv
<1> HIDE DEF f2
<1>5. ASSUME NEW g \in 1 .. Len(t)
      PROVE  /\ Counted(t2[g], References(f2, a, o, r, g)) /\ Balanced(t2[g])
             /\ t2[g].rules \in {t[g].rules, "freed"}
  <2>1. /\ References(f, a, o, r, g) \in Nat /\ References(f2, a, o, r, g) \in Nat
        /\ Cardinality(PinnedBy(f, g)) \in Nat /\ (a = g => References(f, a, o, r, g) # 0)
    BY ReferencesType, PinCount
  <2>2. Repins(f, f2, w)
    BY <1>3 DEF Repins
  <2>3. Cardinality(PinnedBy(f2, g)) =
            Cardinality(PinnedBy(f, g)) + Held(f2[w].policy, g) - Held(f[w].policy, g)
    BY <2>2, Repin
  <2>4. References(f2, a, o, r, g) = References(f, a, o, r, g) + Held(a, g)
    BY <1>3, <2>1, <2>3 DEF References, Held, None
  <2>5. Counted(t[g], References(f, a, o, r, g)) /\ Balanced(t[g])
    BY SoundFacts
  <2> QED
    BY <1>1, <2>1, <2>4, <2>5, GetCounted
<1> HIDE DEF t2
<1>6. \A v \in Workers : \/ WorkerInv(f2[v], t2, c, a)
                         \/ f2[v] = f[v] /\ (a # None => a # None \/ f[v].pc = "idle")
  BY <1>3, <1>4
<1>7. Sound(t2, f2, a, o, r, c)
  <2>1. Recounted(t, f, a, c, t2, f2, a, o, r)
    BY <1>1, <1>2, <1>3, <1>5, <1>6, Zenon DEF Recounted
  <2> QED
    BY <2>1, StaysSound
<1> QED
  BY <1>7 DEF t2, f2

(* policy_snapshot_unpin_current(): the worker's reference is dropped.         *)
LEMMA UnpinReference ==
    ASSUME IsFiniteSet(Workers),
           NEW t, NEW f, NEW a, NEW o, NEW r, NEW c, Sound(t, f, a, o, r, c),
           NEW w \in Workers, f[w].policy # None
    PROVE  Sound(policy_snapshot_put(f[w].policy, t), [f EXCEPT ![w] = Idle], a, o, r, c)
<1> DEFINE p == f[w].policy
           t2 == policy_snapshot_put(p, t)
           f2 == [f EXCEPT ![w] = Idle]
<1>1. /\ t \in Seq(Snapshot) /\ Len(t) \in Nat /\ Len(c) \in Nat
      /\ f = [v \in Workers |-> f[v]] /\ f[w] \in Decision(Len(t), Len(c))
      /\ a \in 0 .. Len(t) /\ o \in 0 .. Len(t) /\ r \in 0 .. Len(t)
  BY SoundFacts, Zenon
<1>2. p \in 0 .. Len(t)
  BY <1>1 DEF Decision
<1>3. t2 \in Seq(Snapshot) /\ Len(t2) = Len(t)
  BY <1>1, <1>2, PutTable
<1>4. f2 = [v \in Workers |-> f2[v]] /\ f2[w] = Idle /\ \A v \in Workers \ {w} : f2[v] = f[v]
  BY <1>1
<1>5. Idle.pc = "idle" /\ Idle.policy = None /\ Idle.mask = None
      /\ Idle \in Decision(Len(t2), Len(c))
  BY <1>1, <1>3 DEF Idle, Decision, Places, None
<1>6. WorkerInv(Idle, t2, c, a)
  BY <1>5 DEF WorkerInv
<1> HIDE DEF f2
<1>7. ASSUME NEW g \in 1 .. Len(t)
      PROVE  /\ Counted(t2[g], References(f2, a, o, r, g)) /\ Balanced(t2[g])
             /\ t2[g].rules \in {t[g].rules, "freed"}
  <2>1. /\ References(f, a, o, r, g) \in Nat /\ References(f2, a, o, r, g) \in Nat
        /\ Cardinality(PinnedBy(f, g)) \in Nat
    BY ReferencesType, PinCount
  <2>2. Repins(f, f2, w)
    BY <1>4, <1>5 DEF Repins
  <2>3. Cardinality(PinnedBy(f2, g)) =
            Cardinality(PinnedBy(f, g)) + Held(f2[w].policy, g) - Held(f[w].policy, g)
    BY <2>2, Repin
  <2>4. References(f2, a, o, r, g) = References(f, a, o, r, g) - Held(p, g)
    BY <1>4, <1>5, <2>1, <2>3 DEF References, Held, None
  <2>5. Counted(t[g], References(f, a, o, r, g)) /\ Balanced(t[g])
    BY SoundFacts
  <2> QED
    BY <1>1, <1>2, <2>1, <2>4, <2>5, PutCounted
<1> HIDE DEF t2
<1>8. \A v \in Workers : \/ WorkerInv(f2[v], t2, c, a)
                         \/ f2[v] = f[v] /\ (a # None => a # None \/ f[v].pc = "idle")
  BY <1>4, <1>6
<1>9. Sound(t2, f2, a, o, r, c)
  <2>1. Recounted(t, f, a, c, t2, f2, a, o, r)
    BY <1>1, <1>3, <1>4, <1>7, <1>8, Zenon DEF Recounted
  <2> QED
    BY <2>1, StaysSound
<1> QED
  BY <1>9 DEF t2, f2
(* A worker goes on with the policy it has. *)
LEMMA ChangeDecision ==
    ASSUME IsFiniteSet(Workers),
           NEW t, NEW f, NEW a, NEW o, NEW r, NEW c, Sound(t, f, a, o, r, c),
           NEW w \in Workers, NEW d, d.policy = f[w].policy, WorkerInv(d, t, c, a)
    PROVE  Sound(t, [f EXCEPT ![w] = d], a, o, r, c)
<1> DEFINE f2 == [f EXCEPT ![w] = d]
<1>1. /\ t \in Seq(Snapshot) /\ f = [v \in Workers |-> f[v]]
      /\ a \in 0 .. Len(t) /\ o \in 0 .. Len(t) /\ r \in 0 .. Len(t)
      /\ \A g \in 1 .. Len(t) : Counted(t[g], References(f, a, o, r, g)) /\ Balanced(t[g])
  BY SoundFacts, Zenon
<1>2. f2 = [v \in Workers |-> f2[v]] /\ f2[w] = d /\ \A v \in Workers \ {w} : f2[v] = f[v]
  BY <1>1
<1> HIDE DEF f2
<1>3. \A v \in Workers : f2[v].policy = f[v].policy
  BY <1>2
<1>4. \A g : References(f2, a, o, r, g) = References(f, a, o, r, g)
  BY <1>3, SamePins DEF References
<1>5. \A v \in Workers : \/ WorkerInv(f2[v], t, c, a)
                         \/ f2[v] = f[v] /\ (a # None => a # None \/ f[v].pc = "idle")
  BY <1>2
<1>6. \A g \in 1 .. Len(t) : /\ Counted(t[g], References(f2, a, o, r, g)) /\ Balanced(t[g])
                             /\ t[g].rules \in {t[g].rules, "freed"}
  BY <1>1, <1>4
<1>7. Recounted(t, f, a, c, t, f2, a, o, r)
  BY <1>1, <1>2, <1>5, <1>6, Zenon DEF Recounted
<1>8. Sound(t, f2, a, o, r, c)
  BY <1>7, StaysSound
<1> QED
  BY <1>8 DEF f2

(* A rule hit, or a report of the hits. *)
LEMMA ChangeHits ==
    ASSUME IsFiniteSet(Workers),
           NEW t, NEW f, NEW a, NEW o, NEW r, NEW c, Sound(t, f, a, o, r, c),
           NEW p \in 1 .. Len(t), NEW e \in Snapshot,
           e.refs = t[p].refs, e.rules = t[p].rules, Balanced(e)
    PROVE  Sound([t EXCEPT ![p] = e], f, a, o, r, c)
<1> DEFINE t2 == [t EXCEPT ![p] = e]
<1>1. /\ t \in Seq(Snapshot) /\ f = [v \in Workers |-> f[v]]
      /\ a \in 0 .. Len(t) /\ o \in 0 .. Len(t) /\ r \in 0 .. Len(t)
      /\ \A g \in 1 .. Len(t) : Counted(t[g], References(f, a, o, r, g)) /\ Balanced(t[g])
  BY SoundFacts, Zenon
<1>2. /\ t2 \in Seq(Snapshot) /\ Len(t2) = Len(t)
      /\ \A g \in 1 .. Len(t) : t2[g] = IF g = p THEN e ELSE t[g]
  BY <1>1, ExceptSeq
<1> HIDE DEF t2
<1>3. \A g \in 1 .. Len(t) : /\ Counted(t2[g], References(f, a, o, r, g)) /\ Balanced(t2[g])
                             /\ t2[g].rules \in {t[g].rules, "freed"}
  <2> TAKE g \in 1 .. Len(t)
  <2>1. CASE g = p
    BY <1>1, <1>2, <2>1 DEF Counted
  <2>2. CASE g # p
    BY <1>1, <1>2, <2>2
  <2> QED
    BY <2>1, <2>2
<1>4. Recounted(t, f, a, c, t2, f, a, o, r)
  BY <1>1, <1>2, <1>3, Zenon DEF Recounted
<1>5. Sound(t2, f, a, o, r, c)
  BY <1>4, StaysSound
<1> QED
  BY <1>5 DEF t2

(* A new policy is published: the pointer's reference goes to the publisher. *)
LEMMA PublishPolicy ==
    ASSUME IsFiniteSet(Workers),
           NEW t, NEW f, NEW a, NEW r, NEW c, Sound(t, f, a, None, r, c),
           NEW e \in Snapshot, e.refs = 1, e.rules # "freed", Balanced(e)
    PROVE  Sound(Append(t, e), f, Len(t) + 1, a, r, c)
<1> DEFINE t2 == Append(t, e)
           n == Len(t) + 1
<1>1. /\ t \in Seq(Snapshot) /\ Len(t) \in Nat /\ c \in Seq(BOOLEAN) /\ Len(c) \in Nat
      /\ a \in 0 .. Len(t) /\ r \in 0 .. Len(t) /\ f = [v \in Workers |-> f[v]]
      /\ \A v \in Workers : WorkerInv(f[v], t, c, a) /\ f[v] \in Decision(Len(t), Len(c))
      /\ \A g \in 1 .. Len(t) : Counted(t[g], References(f, a, None, r, g)) /\ Balanced(t[g])
  BY SoundFacts, Zenon
<1>2. /\ t2 \in Seq(Snapshot) /\ Len(t2) = n /\ t2[n] = e
      /\ \A g \in 1 .. Len(t) : t2[g] = t[g]
  BY <1>1, AppendProperties
<1> HIDE DEF t2
<1>3. \A v \in Workers : f[v].policy \in 0 .. Len(t)
  BY <1>1 DEF Decision
<1>4. ASSUME NEW v \in Workers
      PROVE  WorkerInv(f[v], t2, c, n)
  <2>1. f[v].policy # None => t2[f[v].policy].rules = t[f[v].policy].rules
    BY <1>1, <1>2, <1>3 DEF None
  <2>2. WorkerInv(f[v], t, c, a) /\ n # None /\ Len(t2) \in Nat /\ Len(t) <= Len(t2)
        /\ Len(c) <= Len(c)
    BY <1>1, <1>2 DEF None
  <2> QED
    BY <1>1, <2>1, <2>2, WorkerKept
<1>5. ASSUME NEW g \in 1 .. n
      PROVE  Counted(t2[g], References(f, n, a, r, g)) /\ Balanced(t2[g])
  <2>0. Cardinality(PinnedBy(f, g)) \in Nat /\ Held(None, g) = 0
    BY PinCount DEF Held, None
  <2>1. CASE g = n
    <3>1. PinnedBy(f, g) = {}
      BY <1>1, <1>3, <2>1 DEF PinnedBy
    <3>2. Cardinality(PinnedBy(f, g)) = 0
      BY <3>1, FS_EmptySet
    <3>3. Held(n, g) = 1 /\ Held(a, g) = 0 /\ Held(r, g) = 0
      BY <1>1, <2>1 DEF Held
    <3>4. References(f, n, a, r, g) = 1
      BY <3>2, <3>3 DEF References
    <3> QED
      BY <1>2, <2>1, <3>4 DEF Counted
  <2>2. CASE g # n
    <3>1. g \in 1 .. Len(t) /\ Held(n, g) = 0
      BY <1>1, <2>2 DEF Held
    <3>2. Held(a, g) \in Nat /\ Held(r, g) \in Nat
      BY DEF Held
    <3>3. References(f, n, a, r, g) = References(f, a, None, r, g)
      BY <2>0, <3>1, <3>2 DEF References
    <3> QED
      BY <1>1, <1>2, <3>1, <3>3
  <2> QED
    BY <2>1, <2>2
<1>6. n \in 0 .. Len(t2) /\ a \in 0 .. Len(t2) /\ r \in 0 .. Len(t2)
  BY <1>1, <1>2
<1> HIDE DEF n
<1>7. Sound(t2, f, n, a, r, c)
  BY <1>1, <1>2, <1>4, <1>5, <1>6, Zenon DEF Sound
<1> QED
  BY <1>7 DEF t2, n

(* A new configuration changes no decision that is under way.                  *)
LEMMA PublishConfig ==
    ASSUME IsFiniteSet(Workers),
           NEW t, NEW f, NEW a, NEW o, NEW r, NEW c, Sound(t, f, a, o, r, c), NEW b \in BOOLEAN
    PROVE  Sound(t, f, a, o, r, Append(c, b))
<1> DEFINE c2 == Append(c, b)
<1>1. /\ t \in Seq(Snapshot) /\ Len(t) \in Nat /\ c \in Seq(BOOLEAN) /\ Len(c) \in Nat
      /\ a \in 0 .. Len(t) /\ o \in 0 .. Len(t) /\ r \in 0 .. Len(t)
      /\ f = [v \in Workers |-> f[v]]
      /\ \A v \in Workers : WorkerInv(f[v], t, c, a)
      /\ \A g \in 1 .. Len(t) : Counted(t[g], References(f, a, o, r, g)) /\ Balanced(t[g])
  BY SoundFacts, Zenon
<1>2. /\ c2 \in Seq(BOOLEAN) /\ Len(c2) = Len(c) + 1
      /\ \A i \in 1 .. Len(c) : c2[i] = c[i]
  BY <1>1, AppendProperties
<1> HIDE DEF c2
<1>3. Len(c2) \in Nat /\ Len(c) <= Len(c2) /\ Len(t) <= Len(t)
  BY <1>1, <1>2
<1>4. \A v \in Workers : WorkerInv(f[v], t, c2, a)
  BY <1>1, <1>2, <1>3, WorkerKept
<1>5. Sound(t, f, a, o, r, c2)
  BY <1>1, <1>2, <1>4, Zenon DEF Sound
<1> QED
  BY <1>5 DEF c2
-----------------------------------------------------------------------------
(* The steps of a decision, for the worker that makes it.                      *)

Configured(it, n) == [it EXCEPT !.pc = "config", !.config = n]
PinnedTo(it, g) == [it EXCEPT !.pc = "pinned", !.policy = g]
Built(it, g) == [it EXCEPT !.pc = "built", !.mask = g]
Replied(it, y) == [it EXCEPT !.pc = "replied", !.answer = y]

(* decision_config_pin(): the last configuration.                              *)
LEMMA ConfigDecision ==
    ASSUME NEW t, NEW c, NEW a, NEW it, WorkerInv(it, t, c, a), it.pc = "idle", a # None,
           NEW n \in Nat, n = Len(c), n # None
    PROVE  WorkerInv(Configured(it, n), t, c, a) /\ Configured(it, n).policy = it.policy
<1> DEFINE d == Configured(it, n)
<1>1. it \in Decision(Len(t), n) /\ it.policy = None /\ it.mask = None /\ n \in 0 .. n
  BY DEF WorkerInv
<1>2. /\ d \in Decision(Len(t), n) /\ d.pc = "config" /\ d.config = n
      /\ d.policy = it.policy /\ d.mask = it.mask
  BY <1>1 DEF Decision, Places, Configured
<1> HIDE DEF d
<1>3. WorkerInv(d, t, c, a)
  BY <1>1, <1>2 DEF WorkerInv
<1> QED
  BY <1>2, <1>3 DEF d

(* policy_snapshot_pin_current(): the active policy, which there is.           *)
LEMMA PinDecision ==
    ASSUME NEW t, NEW c, NEW a \in 0 .. Len(t), NEW it, WorkerInv(it, t, c, a), it.pc = "config"
    PROVE  /\ WorkerInv(PinnedTo(it, a), t, c, a)
           /\ PinnedTo(it, a).policy = a /\ PinnedTo(it, a).pc = "pinned"
           /\ it.policy = None /\ a # None
  BY DEF PinnedTo, WorkerInv, Decision, Places, None

(* The mask is the one of the pinned policy.                                   *)
LEMMA BuildDecision ==
    ASSUME NEW t, NEW c, NEW a, NEW it, WorkerInv(it, t, c, a), it.pc = "pinned"
    PROVE  /\ WorkerInv(Built(it, it.policy), t, c, a)
           /\ Built(it, it.policy).policy = it.policy
  BY DEF Built, WorkerInv, Decision, Places, None

(* The answer is the verdict of the pinned generations.                        *)
LEMMA ReplyDecision ==
    ASSUME NEW t, NEW c \in Seq(BOOLEAN), NEW a, NEW it, WorkerInv(it, t, c, a),
           it.pc \in {"pinned", "built"}, NEW x, x = Verdict(it, t)
    PROVE  /\ WorkerInv(Replied(it, Response(x, c[it.config])), t, c, a)
           /\ Replied(it, Response(x, c[it.config])).policy = it.policy
<1> DEFINE y == Response(x, c[it.config])
           d == Replied(it, y)
<1>1. it \in Decision(Len(t), Len(c)) /\ a # None /\ it.config # None /\ it.policy # None
  BY DEF WorkerInv
<1>2. y \in [allow : BOOLEAN, audit : BOOLEAN]
  BY DEF Response
<1> HIDE DEF y
<1>3. /\ d \in Decision(Len(t), Len(c)) /\ d.pc = "replied" /\ d.answer = y
      /\ d.config = it.config /\ d.policy = it.policy /\ d.mask = it.mask
  BY <1>1, <1>2 DEF Decision, Places, Replied
<1> HIDE DEF d
<1>4. Verdict(d, t) = Verdict(it, t)
  BY <1>3 DEF Verdict
<1>5. WorkerInv(d, t, c, a)
  BY <1>1, <1>3, <1>4 DEF WorkerInv, y
<1> QED
  BY <1>3, <1>5 DEF d, y

(* The updates of the actions, as one new decision.                            *)
LEMMA TwoFields ==
    ASSUME NEW f, f = [v \in Workers |-> f[v]], NEW w \in Workers, NEW n, NEW m,
           f[w] \in Decision(n, m), NEW y
    PROVE  /\ [f EXCEPT ![w].pc = "config", ![w].config = y] = [f EXCEPT ![w] = Configured(f[w], y)]
           /\ [f EXCEPT ![w].pc = "pinned", ![w].policy = y] = [f EXCEPT ![w] = PinnedTo(f[w], y)]
           /\ [f EXCEPT ![w].pc = "built", ![w].mask = y] = [f EXCEPT ![w] = Built(f[w], y)]
           /\ [f EXCEPT ![w].pc = "replied", ![w].answer = y] = [f EXCEPT ![w] = Replied(f[w], y)]
  BY DEF Decision, Configured, PinnedTo, Built, Replied

(* A hit is counted once.                                                      *)
LEMMA OneHit ==
    ASSUME NEW r \in Snapshot, Balanced(r)
    PROVE  LET e == [r EXCEPT !.hits = @ + 1, !.used = @ + 1]
           IN  e \in Snapshot /\ e.refs = r.refs /\ e.rules = r.rules /\ Balanced(e)
<1> DEFINE h == r.hits + 1
           u == r.used + 1
           e == [r EXCEPT !.hits = h, !.used = u]
<1>1. r.taken \in Nat /\ h \in Nat /\ u \in Nat /\ h + r.taken = u
  BY DEF Snapshot, Balanced
<1> HIDE DEF h, u
<1>2. /\ e \in Snapshot /\ e.refs = r.refs /\ e.rules = r.rules
      /\ e.hits = h /\ e.taken = r.taken /\ e.used = u
  BY <1>1 DEF Snapshot
<1> HIDE DEF e
<1>3. Balanced(e)
  BY <1>1, <1>2 DEF Balanced
<1> QED
  BY <1>2, <1>3, Zenon DEF e, h, u

(* A report takes exactly the hits that it clears.                             *)
LEMMA ReportedHits ==
    ASSUME NEW r \in Snapshot, Balanced(r)
    PROVE  LET e == rules_hits_report_reset(r)
           IN  e \in Snapshot /\ e.refs = r.refs /\ e.rules = r.rules /\ Balanced(e)
<1> DEFINE k == r.taken + r.hits
           e == [r EXCEPT !.taken = k, !.hits = 0]
<1>1. r.used \in Nat /\ k \in Nat /\ 0 + k = r.used
  BY DEF Snapshot, Balanced
<1> HIDE DEF k
<1>2. /\ e \in Snapshot /\ e.refs = r.refs /\ e.rules = r.rules
      /\ e.hits = 0 /\ e.taken = k /\ e.used = r.used
  BY <1>1 DEF Snapshot
<1> HIDE DEF e
<1>3. Balanced(e)
  BY <1>1, <1>2 DEF Balanced
<1> QED
  BY <1>2, <1>3, Zenon DEF e, k, rules_hits_report_reset

(* The update of a hit, as one new snapshot.                                   *)
LEMMA TwoCounts ==
    ASSUME NEW t \in Seq(Snapshot), NEW g \in 1 .. Len(t), t[g] \in Snapshot
    PROVE  [t EXCEPT ![g].hits = @ + 1, ![g].used = @ + 1] =
              [t EXCEPT ![g] = [t[g] EXCEPT !.hits = @ + 1, !.used = @ + 1]]
  BY DEF Snapshot

(* A decision is counted in one of the two counters.                           *)
LEMMA CountOnce ==
    ASSUME NEW k \in [allowed : Nat, denied : Nat, taken : Nat], NEW n \in Nat,
           k.allowed + k.denied + k.taken = n,
           NEW k2 \in {[k EXCEPT !.denied = @ + 1], [k EXCEPT !.allowed = @ + 1]}
    PROVE  /\ k2 \in [allowed : Nat, denied : Nat, taken : Nat]
           /\ k2.allowed + k2.denied + k2.taken = n + 1
  OBVIOUS

(* getAllowedReset() takes what it clears.                                     *)
LEMMA TakeAllowed ==
    ASSUME NEW k \in [allowed : Nat, denied : Nat, taken : Nat], NEW n \in Nat,
           k.allowed + k.denied + k.taken = n
    PROVE  LET k2 == [k EXCEPT !.allowed = 0, !.taken = @ + k.allowed]
           IN  /\ k2 \in [allowed : Nat, denied : Nat, taken : Nat]
               /\ k2.allowed + k2.denied + k2.taken = n
<1> DEFINE m == k.taken + k.allowed
           k2 == [k EXCEPT !.allowed = 0, !.taken = m]
<1>1. m \in Nat /\ k.denied \in Nat /\ 0 + k.denied + m = n
  OBVIOUS
<1> HIDE DEF m
<1>2. /\ k2 \in [allowed : Nat, denied : Nat, taken : Nat]
      /\ k2.allowed = 0 /\ k2.denied = k.denied /\ k2.taken = m
  BY <1>1
<1> HIDE DEF k2
<1>3. k2.allowed + k2.denied + k2.taken = n
  BY <1>1, <1>2
<1> QED
  BY <1>2, <1>3, Zenon DEF k2, m

(* getDeniedReset() takes what it clears.                                      *)
LEMMA TakeDenied ==
    ASSUME NEW k \in [allowed : Nat, denied : Nat, taken : Nat], NEW n \in Nat,
           k.allowed + k.denied + k.taken = n
    PROVE  LET k2 == [k EXCEPT !.denied = 0, !.taken = @ + k.denied]
           IN  /\ k2 \in [allowed : Nat, denied : Nat, taken : Nat]
               /\ k2.allowed + k2.denied + k2.taken = n
<1> DEFINE m == k.taken + k.denied
           k2 == [k EXCEPT !.denied = 0, !.taken = m]
<1>1. m \in Nat /\ k.allowed \in Nat /\ k.allowed + 0 + m = n
  OBVIOUS
<1> HIDE DEF m
<1>2. /\ k2 \in [allowed : Nat, denied : Nat, taken : Nat]
      /\ k2.denied = 0 /\ k2.allowed = k.allowed /\ k2.taken = m
  BY <1>1
<1> HIDE DEF k2
<1>3. k2.allowed + k2.denied + k2.taken = n
  BY <1>1, <1>2
<1> QED
  BY <1>2, <1>3, Zenon DEF k2, m

(* A candidate that built has its own reference and rules.                     *)
LEMMA NewSnapshot ==
    ASSUME NEW x \in Opinions
    PROVE  LET e == [rules |-> x, refs |-> 1, hits |-> 0, taken |-> 0, used |-> 0]
           IN  e \in Snapshot /\ e.refs = 1 /\ e.rules # "freed" /\ Balanced(e)
<1> DEFINE e == [rules |-> x, refs |-> 1, hits |-> 0, taken |-> 0, used |-> 0]
<1>1. x \in Opinions \cup {"freed"} /\ x # "freed"
  BY DEF Opinions
<1>2. e \in Snapshot
  BY <1>1 DEF Snapshot
<1>3. e.rules # "freed"
  BY <1>1
<1>4. e.refs = 1 /\ e.hits = 0 /\ e.taken = 0 /\ e.used = 0
  OBVIOUS
<1> HIDE DEF e
<1>5. Balanced(e)
  BY <1>4 DEF Balanced
<1> QED
  BY <1>2, <1>3, <1>4, <1>5, Zenon DEF e

-----------------------------------------------------------------------------
(* The actions. *)

(* What the invariant gives to an action.                                      *)
LEMMA StateFacts ==
    ASSUME IsFiniteSet(Workers), IInv
    PROVE  /\ Sound(snap, worker, active, old, reporter, configs)
           /\ snap \in Seq(Snapshot) /\ Len(snap) \in Nat
           /\ configs \in Seq(BOOLEAN) /\ Len(configs) \in Nat /\ Len(configs) # 0
           /\ active \in 0 .. Len(snap) /\ old \in 0 .. Len(snap) /\ reporter \in 0 .. Len(snap)
           /\ worker = [v \in Workers |-> worker[v]]
           /\ \A v \in Workers : /\ WorkerInv(worker[v], snap, configs, active)
                                 /\ worker[v] \in Decision(Len(snap), Len(configs))
           /\ \A g \in 1 .. Len(snap) : snap[g] \in Snapshot /\ Balanced(snap[g])
<1>1. Sound(snap, worker, active, old, reporter, configs) /\ Len(configs) # 0
  BY Zenon DEF IInv
<1> QED
  BY <1>1, SoundFacts, Zenon

(* A worker pins the configuration.                                            *)
LEMMA ConfigStep ==
    ASSUME IsFiniteSet(Workers), IInv, NEW w \in Workers, active # None, decision_config_pin(w)
    PROVE  IInv'
<1> DEFINE d == Configured(worker[w], Len(configs))
<1>1. /\ worker[w].pc = "idle"
      /\ worker' = [worker EXCEPT ![w].pc = "config", ![w].config = Len(configs)]
      /\ UNCHANGED <<ff, snap, active, old, configs, reporter, counters, decided>>
  BY Zenon DEF decision_config_pin
<1>2. worker' = [worker EXCEPT ![w] = d]
  BY <1>1, StateFacts, TwoFields
<1>3. WorkerInv(d, snap, configs, active) /\ d.policy = worker[w].policy
  <2>1. /\ WorkerInv(worker[w], snap, configs, active)
        /\ Len(configs) \in Nat /\ Len(configs) # None
    BY StateFacts, Zenon DEF None
  <2>2. worker[w].pc = "idle"
    BY <1>1, Zenon
  <2> DEFINE n == Len(configs)
  <2>3. n \in Nat /\ n = Len(configs) /\ n # None
    BY <2>1
  <2> HIDE DEF n
  <2>4. WorkerInv(Configured(worker[w], n), snap, configs, active)
        /\ Configured(worker[w], n).policy = worker[w].policy
    BY <2>1, <2>2, <2>3, ConfigDecision
  <2> QED
    BY <2>4 DEF n
<1> HIDE DEF d
<1>4. Sound(snap, worker', active, old, reporter, configs)
  BY <1>2, <1>3, StateFacts, ChangeDecision
<1> QED
  BY <1>1, <1>4 DEF IInv, Tally

(* A worker pins the policy.                                                   *)
LEMMA PinStep ==
    ASSUME IsFiniteSet(Workers), IInv, NEW w \in Workers, policy_snapshot_pin_current(w)
    PROVE  IInv'
<1> DEFINE d == PinnedTo(worker[w], active)
<1>1. /\ worker[w].pc = "config" /\ snap' = policy_snapshot_get(active, snap)
      /\ worker' = [worker EXCEPT ![w].pc = "pinned", ![w].policy = active]
      /\ UNCHANGED <<ff, active, old, configs, reporter, counters, decided>>
  BY Zenon DEF policy_snapshot_pin_current
<1>2. worker' = [worker EXCEPT ![w] = d]
  BY <1>1, StateFacts, TwoFields
<1>3. /\ WorkerInv(d, snap, configs, active) /\ d.policy = active /\ d.pc = "pinned"
      /\ worker[w].policy = None /\ active # None
  <2>1. WorkerInv(worker[w], snap, configs, active) /\ active \in 0 .. Len(snap)
    BY StateFacts, Zenon
  <2>2. worker[w].pc = "config"
    BY <1>1, Zenon
  <2> QED
    BY <2>1, <2>2, PinDecision
<1> HIDE DEF d
<1>4. Sound(snap', worker', active, old, reporter, configs)
  <2>1. Sound(snap, worker, active, old, reporter, configs)
    BY StateFacts, Zenon
  <2>2. Sound(policy_snapshot_get(active, snap), [worker EXCEPT ![w] = d], active, old,
              reporter, configs)
    BY <1>3, <2>1, PinReference, Zenon
  <2> QED
    BY <1>1, <1>2, <2>2, Zenon
<1> QED
  BY <1>1, <1>4 DEF IInv, Tally

(* The event is built.                                                         *)
LEMMA BuildStep ==
    ASSUME IsFiniteSet(Workers), IInv, NEW w \in Workers, BuildEvent(w)
    PROVE  IInv'
<1> DEFINE d == Built(worker[w], worker[w].policy)
<1>1. /\ worker[w].pc = "pinned"
      /\ worker' = [worker EXCEPT ![w].pc = "built", ![w].mask = worker[w].policy]
      /\ UNCHANGED <<ff, snap, active, old, configs, reporter, counters, decided>>
  BY Zenon DEF BuildEvent, begin_read
<1>2. worker' = [worker EXCEPT ![w] = d]
  BY <1>1, StateFacts, TwoFields
<1>3. WorkerInv(d, snap, configs, active) /\ d.policy = worker[w].policy
  BY <1>1, StateFacts, BuildDecision
<1> HIDE DEF d
<1>4. Sound(snap, worker', active, old, reporter, configs)
  BY <1>2, <1>3, StateFacts, ChangeDecision
<1> QED
  BY <1>1, <1>4 DEF IInv, Tally

(* A decision is counted once, and answered as the pinned generations say. *)
LEMMA ReplyStep ==
    ASSUME IsFiniteSet(Workers), IInv, NEW w \in Workers, worker[w].pc \in {"pinned", "built"},
           NEW x, x = Verdict(worker[w], snap), reply_event_write(w, x)
    PROVE  Sound(snap, worker', active, old, reporter, configs) /\ Tally'
<1> DEFINE y == Response(x, configs[worker[w].config])
           d == Replied(worker[w], y)
<1>1. /\ worker' = [worker EXCEPT ![w].pc = "replied", ![w].answer = y]
      /\ counters' = policy_metrics_record_decision(x) /\ decided' = decided + 1
  BY Zenon DEF reply_event_write, decision_config_permissive
<1>2. WorkerInv(d, snap, configs, active) /\ d.policy = worker[w].policy
  BY StateFacts, ReplyDecision
<1> HIDE DEF y
<1>3. worker' = [worker EXCEPT ![w] = d]
  BY <1>1, StateFacts, TwoFields
<1> HIDE DEF d
<1>4. Sound(snap, worker', active, old, reporter, configs)
  BY <1>2, <1>3, StateFacts, ChangeDecision
<1>5. Tally'
  <2>1. Tally
    BY Zenon DEF IInv
  <2> QED
    <3>1. counters' \in {[counters EXCEPT !.denied = @ + 1], [counters EXCEPT !.allowed = @ + 1]}
      BY <1>1, Zenon DEF policy_metrics_record_decision
    <3>2. /\ counters \in [allowed : Nat, denied : Nat, taken : Nat] /\ decided \in Nat
          /\ counters.allowed + counters.denied + counters.taken = decided
      BY <2>1, Zenon DEF Tally
    <3>3. /\ counters' \in [allowed : Nat, denied : Nat, taken : Nat]
          /\ counters'.allowed + counters'.denied + counters'.taken = decided + 1
      BY <3>1, <3>2, CountOnce, Zenon
    <3> QED
      BY <1>1, <3>2, <3>3 DEF Tally
<1> QED
  BY <1>4, <1>5
(* The event cannot be built and is denied.                                    *)
LEMMA BuildFailsStep ==
    ASSUME IsFiniteSet(Workers), IInv, NEW w \in Workers, BuildFails(w)
    PROVE  IInv'
<1>1. /\ worker[w].pc = "pinned" /\ reply_event_write(w, "deny")
      /\ UNCHANGED <<ff, snap, active, old, configs, reporter>>
  BY Zenon DEF BuildFails
<1>2. WorkerInv(worker[w], snap, configs, active)
  BY StateFacts, Zenon
<1>3. Verdict(worker[w], snap) = "deny"
  BY <1>1, <1>2 DEF WorkerInv, Verdict
<1>4. Sound(snap, worker', active, old, reporter, configs) /\ Tally'
  BY <1>1, <1>3, ReplyStep
<1> QED
  BY <1>1, <1>4 DEF IInv

(* The rules decide, and the rule that does is counted.                        *)
LEMMA EvaluateStep ==
    ASSUME IsFiniteSet(Workers), IInv, NEW w \in Workers, process_event_evaluate(w)
    PROVE  IInv'
<1> DEFINE g == worker[w].policy
           x == snap[g].rules
           e == [snap[g] EXCEPT !.hits = @ + 1, !.used = @ + 1]
<1>1. worker[w].pc = "built" /\ UNCHANGED <<ff, active, old, configs, reporter>>
  BY Zenon DEF process_event_evaluate
<1>2. /\ WorkerInv(worker[w], snap, configs, active)
      /\ worker[w] \in Decision(Len(snap), Len(configs)) /\ Len(snap) \in Nat
  BY StateFacts, Zenon
<1>3. g # None /\ worker[w].mask = g
  BY <1>1, <1>2 DEF WorkerInv
<1>4. g \in 1 .. Len(snap)
  BY <1>2, <1>3 DEF Decision, None
<1>5. /\ reply_event_write(w, IF x = "none" THEN "allow" ELSE x)
      /\ snap' = IF x = "none" THEN snap ELSE [snap EXCEPT ![g].hits = @ + 1, ![g].used = @ + 1]
  BY <1>3, Zenon DEF process_event_evaluate, begin_read
<1>6. Verdict(worker[w], snap) = IF x = "none" THEN "allow" ELSE x
  BY <1>3 DEF Verdict
<1>7. Sound(snap, worker', active, old, reporter, configs) /\ Tally'
  BY <1>1, <1>5, <1>6, ReplyStep
<1>8. Sound(snap', worker', active, old, reporter, configs)
  <2>1. CASE x = "none"
    BY <1>5, <1>7, <2>1
  <2>2. CASE x # "none"
    <3>1. snap[g] \in Snapshot /\ Balanced(snap[g]) /\ snap \in Seq(Snapshot)
      BY <1>4, StateFacts, Zenon
    <3>2. /\ e \in Snapshot /\ e.refs = snap[g].refs /\ e.rules = snap[g].rules
          /\ Balanced(e)
      BY <3>1, OneHit
    <3>3. snap' = [snap EXCEPT ![g] = e]
      BY <1>5, <2>2, <3>1, TwoCounts
    <3> HIDE DEF e
    <3> QED
      BY <1>4, <1>7, <3>2, <3>3, ChangeHits
  <2> QED
    BY <2>1, <2>2
<1> QED
  BY <1>1, <1>7, <1>8 DEF IInv

(* The worker is done.                                                         *)
LEMMA UnpinStep ==
    ASSUME IsFiniteSet(Workers), IInv, NEW w \in Workers, policy_snapshot_unpin_current(w)
    PROVE  IInv'
<1>1. /\ worker[w].pc = "replied" /\ snap' = policy_snapshot_put(worker[w].policy, snap)
      /\ worker' = [worker EXCEPT ![w] = Idle]
      /\ UNCHANGED <<ff, active, old, configs, reporter, counters, decided>>
  BY Zenon DEF policy_snapshot_unpin_current
<1>2. /\ WorkerInv(worker[w], snap, configs, active)
      /\ Sound(snap, worker, active, old, reporter, configs)
  BY StateFacts, Zenon
<1>3. worker[w].policy # None
  BY <1>1, <1>2 DEF WorkerInv
<1>4. Sound(snap', worker', active, old, reporter, configs)
  BY <1>1, <1>2, <1>3, UnpinReference
<1> QED
  BY <1>1, <1>4 DEF IInv, Tally
(* Every step of a decision keeps the invariant.                               *)
LEMMA DecideStep ==
    ASSUME IsFiniteSet(Workers), IInv, NEW w \in Workers, Decide(w)
    PROVE  IInv'
<1>1. CASE active # None /\ decision_config_pin(w)
  BY <1>1, ConfigStep
<1>2. CASE policy_snapshot_pin_current(w)
  BY <1>2, PinStep
<1>3. CASE BuildEvent(w)
  BY <1>3, BuildStep
<1>4. CASE BuildFails(w)
  BY <1>4, BuildFailsStep
<1>5. CASE process_event_evaluate(w)
  BY <1>5, EvaluateStep
<1>6. CASE policy_snapshot_unpin_current(w)
  BY <1>6, UnpinStep
<1> QED
  BY <1>1, <1>2, <1>3, <1>4, <1>5, <1>6, Zenon DEF Decide

(* A reload publishes a policy.                                                *)
LEMMA ReloadStep ==
    ASSUME IsFiniteSet(Workers), IInv, do_reload_rules
    PROVE  IInv'
<1> DEFINE e == [rules |-> ff, refs |-> 1, hits |-> 0, taken |-> 0, used |-> 0]
<1>1. /\ old = None /\ ff \in Opinions /\ ff' = NoFile
      /\ snap' = Append(snap, e) /\ active' = Len(snap) + 1 /\ old' = active
      /\ UNCHANGED <<configs, worker, reporter, counters, decided>>
  BY Zenon DEF do_reload_rules, publish_policy_snapshot, build_policy_snapshot
<1>2. e \in Snapshot /\ e.refs = 1 /\ e.rules # "freed" /\ Balanced(e)
  <2>1. ff \in Opinions
    BY <1>1, Zenon
  <2> QED
    BY <2>1, NewSnapshot, Zenon
<1> HIDE DEF e
<1>3. Sound(snap, worker, active, None, reporter, configs)
  BY <1>1, StateFacts
<1>4. Sound(Append(snap, e), worker, Len(snap) + 1, active, reporter, configs)
  BY <1>2, <1>3, PublishPolicy
<1>5. Sound(snap', worker', active', old', reporter', configs')
  BY <1>1, <1>4
<1>6. Len(configs)' # 0 /\ Tally' /\ ff' \in Opinions \cup {"bad line", NoFile}
  BY <1>1 DEF IInv, Tally
<1> QED
  BY <1>5, <1>6 DEF IInv

(* The publisher drops the policy it replaced.                                 *)
LEMMA PutOldStep ==
    ASSUME IsFiniteSet(Workers), IInv, PutOld
    PROVE  IInv'
<1>1. /\ snap' = policy_snapshot_put(old, snap) /\ old' = None
      /\ UNCHANGED <<ff, active, configs, worker, reporter, counters, decided>>
  BY Zenon DEF PutOld
<1>2. Sound(snap', worker, active, None, reporter, configs)
  BY <1>1, StateFacts, DropReference
<1> QED
  BY <1>1, <1>2 DEF IInv, Tally

(* A configuration is published.                                               *)
LEMMA ConfigPublishStep ==
    ASSUME IsFiniteSet(Workers), IInv, NEW p \in BOOLEAN, decision_config_publish(p)
    PROVE  IInv'
<1>1. /\ configs' = Append(configs, p)
      /\ UNCHANGED <<ff, snap, active, old, worker, reporter, counters, decided>>
  BY Zenon DEF decision_config_publish
<1>2. Sound(snap, worker, active, old, reporter, configs')
  BY <1>1, StateFacts, PublishConfig
<1>3. Len(configs') # 0
  <2>1. configs \in Seq(BOOLEAN) /\ Len(configs) \in Nat
    BY StateFacts, Zenon
  <2>2. Len(Append(configs, p)) = Len(configs) + 1
    BY <2>1, AppendProperties
  <2> QED
    BY <1>1, <2>1, <2>2
<1> QED
  BY <1>1, <1>2, <1>3 DEF IInv, Tally

(* A report starts to walk the active policy.                                  *)
LEMMA ReportBeginStep ==
    ASSUME IsFiniteSet(Workers), IInv, ReportBegin
    PROVE  IInv'
<1>1. /\ reporter = None /\ active # None /\ reporter' = active
      /\ snap' = policy_snapshot_get(active, snap)
      /\ UNCHANGED <<ff, active, old, configs, worker, counters, decided>>
  BY Zenon DEF ReportBegin
<1>2. Sound(snap, worker, active, old, None, configs)
  BY <1>1, StateFacts
<1>3. Sound(snap', worker, active, old, active, configs)
  BY <1>1, <1>2, ReportReference
<1> QED
  BY <1>1, <1>3 DEF IInv, Tally

(* The report takes the hits and drops its reference.                          *)
LEMMA ReportStep ==
    ASSUME IsFiniteSet(Workers), IInv, policy_rule_hits_report_reset
    PROVE  IInv'
<1> DEFINE e == rules_hits_report_reset(snap[reporter])
           t == [snap EXCEPT ![reporter] = e]
<1>1. /\ reporter # None /\ reporter' = None /\ snap' = policy_snapshot_put(reporter, t)
      /\ UNCHANGED <<ff, active, old, configs, worker, counters, decided>>
  BY Zenon DEF policy_rule_hits_report_reset
<1>2. reporter \in 1 .. Len(snap)
  BY <1>1, StateFacts DEF None
<1>3. e \in Snapshot /\ e.refs = snap[reporter].refs /\ e.rules = snap[reporter].rules /\ Balanced(e)
  BY <1>2, StateFacts, ReportedHits
<1> HIDE DEF e
<1>4. Sound(t, worker, active, old, reporter, configs)
  BY <1>2, <1>3, StateFacts, ChangeHits
<1> HIDE DEF t
<1>5. Sound(snap', worker, active, old, None, configs)
  BY <1>1, <1>4, DropReference
<1> QED
  BY <1>1, <1>5 DEF IInv, Tally

(* A report takes one of the decision counters.                                *)
LEMMA CounterStep ==
    ASSUME IsFiniteSet(Workers), IInv, NEW c \in {"allowed", "denied"}, policy_counter_snapshot(c)
    PROVE  IInv'
<1>1. /\ counters' = [counters EXCEPT ![c] = 0, !.taken = @ + counters[c]]
      /\ UNCHANGED <<ff, snap, active, old, configs, worker, reporter, decided>>
  BY Zenon DEF policy_counter_snapshot
<1>2. Tally
  BY Zenon DEF IInv
<1>3. /\ counters \in [allowed : Nat, denied : Nat, taken : Nat] /\ decided \in Nat
      /\ counters.allowed + counters.denied + counters.taken = decided
  BY <1>2, Zenon DEF Tally
<1>4. Tally'
  <2>1. /\ counters' \in [allowed : Nat, denied : Nat, taken : Nat]
        /\ counters'.allowed + counters'.denied + counters'.taken = decided
    <3>1. CASE c = "allowed"
      <4>1. counters' = [counters EXCEPT !.allowed = 0, !.taken = @ + counters.allowed]
        BY <1>1, <3>1, Zenon
      <4> QED
        BY <1>3, <4>1, TakeAllowed, Zenon
    <3>2. CASE c = "denied"
      <4>1. counters' = [counters EXCEPT !.denied = 0, !.taken = @ + counters.denied]
        BY <1>1, <3>2, Zenon
      <4> QED
        BY <1>3, <4>1, TakeDenied, Zenon
    <3> QED
      BY <3>1, <3>2, Zenon
  <2>2. decided' = decided
    BY <1>1, Zenon
  <2> QED
    BY <1>3, <2>1, <2>2, Zenon DEF Tally
<1> QED
  BY <1>1, <1>4 DEF IInv

(* The last policy is dropped, when all workers are idle.                      *)
LEMMA DestroyStep ==
    ASSUME IsFiniteSet(Workers), IInv, destroy_rules
    PROVE  IInv'
<1>1. /\ snap' = policy_snapshot_put(active, snap) /\ active' = None
      /\ \A w \in Workers : worker[w].pc = "idle"
      /\ UNCHANGED <<ff, old, configs, worker, reporter, counters, decided>>
  BY Zenon DEF destroy_rules
<1>2. Sound(snap', worker, None, old, reporter, configs)
  BY <1>1, StateFacts, DropReference
<1> QED
  BY <1>1, <1>2 DEF IInv, Tally
-----------------------------------------------------------------------------
(* Every step keeps the invariant.                                             *)
LEMMA NextIInv ==
    ASSUME IsFiniteSet(Workers), IInv, [Next]_vars
    PROVE  IInv'
<1>1. ASSUME NEW w \in Workers, Decide(w) PROVE IInv'
  BY <1>1, DecideStep
<1>2. CASE load_rule_file
  BY <1>2, Zenon DEF load_rule_file, IInv, Tally
<1>3. CASE do_reload_rules
  BY <1>3, ReloadStep
<1>4. CASE ReloadFails
  BY <1>4 DEF ReloadFails, IInv, Tally
<1>5. CASE PutOld
  BY <1>5, PutOldStep
<1>6. ASSUME NEW p \in BOOLEAN, decision_config_publish(p) PROVE IInv'
  BY <1>6, ConfigPublishStep
<1>7. CASE ReportBegin
  BY <1>7, ReportBeginStep
<1>8. CASE policy_rule_hits_report_reset
  BY <1>8, ReportStep
<1>9. ASSUME NEW c \in {"allowed", "denied"}, policy_counter_snapshot(c) PROVE IInv'
  BY <1>9, CounterStep
<1>10. CASE destroy_rules
  BY <1>10, DestroyStep
<1>11. CASE UNCHANGED vars
  BY <1>11 DEF vars, IInv, Tally
<1> QED
  BY <1>1, <1>2, <1>3, <1>4, <1>5, <1>6, <1>7, <1>8, <1>9, <1>10, <1>11, Zenon DEF Next

(* The references, the decisions and the counters agree in every state. *)
THEOREM Invariance ==
    ASSUME IsFiniteSet(Workers)
    PROVE  Spec => []IInv
<1>1. Init => IInv
  BY InitIInv
<1>2. IInv /\ [Next]_vars => IInv'
  BY NextIInv
<1> QED
  BY <1>1, <1>2, PTL DEF Spec

(* Whatever the number of workers and of reloads, a policy is freed exactly    *)
(* when neither the active pointer, nor the publisher, nor a decision, nor a   *)
(* report refers to it (policy_snapshot_get() and policy_snapshot_put()).      *)
THEOREM PolicyFreedWhenUnused ==
    ASSUME IsFiniteSet(Workers)
    PROVE  Spec => []FreedExactlyWhenUnused
<1>1. IInv => FreedExactlyWhenUnused
  <2> SUFFICES ASSUME IInv PROVE FreedExactlyWhenUnused
    OBVIOUS
  <2>1. Sound(snap, worker, active, old, reporter, configs)
    BY Zenon DEF IInv
  <2>2. /\ DOMAIN snap = 1 .. Len(snap)
        /\ \A g \in 1 .. Len(snap) :
              Counted(snap[g], References(worker, active, old, reporter, g))
    BY <2>1, SoundFacts, Zenon
  <2>3. \A g : References(worker, active, old, reporter, g) = Holders(g)
    BY Zenon DEF References, Holders, Pinned, PinnedBy
  <2> QED
    BY <2>2, <2>3, Zenon DEF FreedExactlyWhenUnused, Counted
<1> QED
  BY <1>1, Invariance, PTL

(* An event is built, decided and answered by the policy and the configuration *)
(* that make_policy_decision() pinned, whatever is published meanwhile.        *)
THEOREM DecisionUsesOneGeneration ==
    ASSUME IsFiniteSet(Workers)
    PROVE  Spec => []OneGenerationPerDecision
<1>1. IInv => OneGenerationPerDecision
  <2> SUFFICES ASSUME IInv PROVE OneGenerationPerDecision
    OBVIOUS
  <2>1. \A w \in Workers : WorkerInv(worker[w], snap, configs, active)
    BY StateFacts, Zenon
  <2> QED
    BY <2>1 DEF OneGenerationPerDecision, WorkerInv, Verdict
<1> QED
  BY <1>1, Invariance, PTL

(* Reports that reset the counters while events are decided lose nothing and   *)
(* count nothing twice (rules_hits_report_reset(), getAllowedReset(),          *)
(* getDeniedReset()).                                                          *)
THEOREM EveryHitAndDecisionCounted ==
    ASSUME IsFiniteSet(Workers)
    PROVE  Spec => []NothingUncounted
<1>1. IInv => NothingUncounted
  <2> SUFFICES ASSUME IInv PROVE NothingUncounted
    OBVIOUS
  <2>1. Sound(snap, worker, active, old, reporter, configs) /\ Tally
    BY Zenon DEF IInv
  <2>2. DOMAIN snap = 1 .. Len(snap) /\ \A g \in 1 .. Len(snap) : Balanced(snap[g])
    BY <2>1, SoundFacts, Zenon
  <2> QED
    BY <2>1, <2>2, Zenon DEF NothingUncounted, Balanced, Tally
<1> QED
  BY <1>1, Invariance, PTL

-----------------------------------------------------------------------------
(* The caches of subjects and objects (module Lru).                            *)
CONSTANT total

VARIABLE q

U == INSTANCE Lru

\* The size of a cache is any number.
CacheSize == total \in Nat

\* The nodes of a list without the i-th, and with another before the first.
Without(list, m, i) == [j \in 1 .. m - 1 |-> IF j < i THEN list[j] ELSE list[j + 1]]
Before(new, list, m) == [j \in 1 .. m + 1 |-> IF j = 1 THEN new ELSE list[j - 1]]

\* A node, or NULL.
Pointers == 0 .. total

CacheType ==
    [front : Pointers, end : Pointers, next : [U!Nodes -> Pointers], prev : [U!Nodes -> Pointers],
     item : [U!Nodes -> {"none", "set"}], free : Seq(U!Nodes), count : 0 .. total,
     hash : [U!Keys -> Pointers], aborted : BOOLEAN]

\* The links are those of a list of m nodes, whatever the count says.
Threaded(c, list, m) ==
    /\ list \in [1 .. m -> U!Nodes] /\ U!IsInjective(list)
    /\ c.front = U!Link(list, 1) /\ c.end = U!Link(list, m)
    /\ \A i \in 1 .. m :
          c.next[list[i]] = U!Link(list, i + 1) /\ c.prev[list[i]] = U!Link(list, i - 1)

\* The free list holds each node of F once.
FreeIs(f, F) == f \in Seq(U!Nodes) /\ U!IsInjective(f) /\ U!Range(f) = F

\* The list, the hash table and the free list of a cache agree.
Whole(c, list) ==
    /\ c \in CacheType /\ c.aborted = FALSE
    /\ Threaded(c, list, c.count) /\ U!Hashed(c, list)
    /\ FreeIs(c.free, U!Nodes \ U!Range(list))

SoundCache(c) == \E list \in [1 .. c.count -> U!Nodes] : Whole(c, list)

LruInv == SoundCache(q)

\* Two states that differ in the links only.
SameRest(c, d) ==
    /\ d.item = c.item /\ d.free = c.free /\ d.count = c.count
    /\ d.hash = c.hash /\ d.aborted = c.aborted

\* The list that lacks its i-th node.
LEMMA WithoutOne ==
    ASSUME CacheSize, NEW m \in Nat, NEW list \in [1 .. m -> U!Nodes], U!IsInjective(list),
           NEW i \in 1 .. m
    PROVE  /\ Without(list, m, i) \in [1 .. m - 1 -> U!Nodes]
           /\ U!IsInjective(Without(list, m, i))
           /\ U!Range(Without(list, m, i)) = U!Range(list) \ {list[i]}
<1> DEFINE w == Without(list, m, i)
<1>1. /\ w \in [1 .. m - 1 -> U!Nodes] /\ DOMAIN w = 1 .. m - 1
      /\ \A j \in 1 .. m - 1 : w[j] = IF j < i THEN list[j] ELSE list[j + 1]
  BY DEF Without
<1> HIDE DEF w
<1>2. U!IsInjective(w)
  BY <1>1 DEF U!IsInjective
<1>3. U!Range(w) = U!Range(list) \ {list[i]}
  <2>1. ASSUME NEW x \in U!Range(w) PROVE x \in U!Range(list) \ {list[i]}
    BY <1>1, <2>1 DEF U!Range, U!IsInjective
  <2>2. ASSUME NEW x \in U!Range(list), x # list[i] PROVE x \in U!Range(w)
    <3>1. PICK j \in 1 .. m : x = list[j]
      BY <2>2 DEF U!Range
    <3>2. CASE j < i
      BY <1>1, <3>1, <3>2 DEF U!Range
    <3>3. CASE j > i
      <4>1. j - 1 \in 1 .. m - 1 /\ w[j - 1] = x
        BY <1>1, <3>1, <3>3
      <4> QED
        BY <4>1, <1>1 DEF U!Range
    <3> QED
      BY <2>2, <3>1, <3>2, <3>3
  <2> QED
    BY <2>1, <2>2
<1> QED
  BY <1>1, <1>2, <1>3 DEF w

\* The list with a new node before the others.
LEMMA BeforeAll ==
    ASSUME CacheSize, NEW m \in Nat, NEW list \in [1 .. m -> U!Nodes], U!IsInjective(list),
           NEW new \in U!Nodes \ U!Range(list)
    PROVE  /\ Before(new, list, m) \in [1 .. m + 1 -> U!Nodes]
           /\ U!IsInjective(Before(new, list, m))
           /\ U!Range(Before(new, list, m)) = U!Range(list) \cup {new}
<1> DEFINE b == Before(new, list, m)
<1>1. /\ b \in [1 .. m + 1 -> U!Nodes] /\ DOMAIN b = 1 .. m + 1
      /\ \A j \in 1 .. m + 1 : b[j] = IF j = 1 THEN new ELSE list[j - 1]
  BY DEF Before
<1> HIDE DEF b
<1>2. U!IsInjective(b)
  BY <1>1 DEF U!IsInjective, U!Range
<1>3. U!Range(b) = U!Range(list) \cup {new}
  <2>1. ASSUME NEW x \in U!Range(b) PROVE x \in U!Range(list) \cup {new}
    BY <1>1, <2>1 DEF U!Range
  <2>2. ASSUME NEW x \in U!Range(list) PROVE x \in U!Range(b)
    <3>1. PICK j \in 1 .. m : x = list[j]
      BY <2>2 DEF U!Range
    <3>2. j + 1 \in 1 .. m + 1 /\ b[j + 1] = x
      BY <1>1, <3>1
    <3> QED
      BY <3>2, <1>1 DEF U!Range
  <2>3. new \in U!Range(b)
    <3>1. 1 \in 1 .. m + 1 /\ b[1] = new
      BY <1>1
    <3> QED
      BY <3>1, <1>1 DEF U!Range
  <2> QED
    BY <2>1, <2>2, <2>3
<1> QED
  BY <1>1, <1>2, <1>3 DEF b

\* Any link may be set to any node or to none.
LEMMA Relinks ==
    ASSUME NEW c \in CacheType, NEW n \in U!Nodes, NEW x \in Pointers
    PROVE  /\ [c EXCEPT !.front = x] \in CacheType
           /\ [c EXCEPT !.end = x] \in CacheType
           /\ [c EXCEPT !.next[n] = x] \in CacheType
           /\ [c EXCEPT !.prev[n] = x] \in CacheType
<1>1. [c EXCEPT !.front = x] \in CacheType
  BY Zenon DEF CacheType
<1>2. [c EXCEPT !.end = x] \in CacheType
  BY Zenon DEF CacheType
<1>3. [c EXCEPT !.next[n] = x] \in CacheType
  BY Zenon DEF CacheType
<1>4. [c EXCEPT !.prev[n] = x] \in CacheType
  BY Zenon DEF CacheType
<1> QED
  BY <1>1, <1>2, <1>3, <1>4

\* remove_node() of a node of the list: the neighbours are linked to each other and
\* no link is found broken.
LEMMA RemoveNode ==
    ASSUME CacheSize, NEW c \in CacheType, NEW m \in Nat, NEW list, Threaded(c, list, m),
           NEW i \in 1 .. m
    PROVE  /\ U!remove_node(c, list[i]) \in CacheType
           /\ Threaded(U!remove_node(c, list[i]), Without(list, m, i), m - 1)
           /\ SameRest(c, U!remove_node(c, list[i]))
<1> DEFINE n == list[i]
           d == U!remove_node(c, list[i])
           w == Without(list, m, i)
<1> SUFFICES d \in CacheType /\ Threaded(d, w, m - 1) /\ SameRest(c, d)
  OBVIOUS
<1>1. /\ list \in [1 .. m -> U!Nodes] /\ DOMAIN list = 1 .. m /\ U!IsInjective(list)
      /\ n \in U!Nodes /\ c.prev[n] = U!Link(list, i - 1) /\ c.next[n] = U!Link(list, i + 1)
  BY DEF Threaded
<1>2. /\ w \in [1 .. m - 1 -> U!Nodes] /\ DOMAIN w = 1 .. m - 1 /\ U!IsInjective(w)
      /\ \A j \in 1 .. m - 1 : w[j] = IF j < i THEN list[j] ELSE list[j + 1]
  BY <1>1, WithoutOne, Zenon DEF Without
<1>3. \A j \in 1 .. m : list[j] \in U!Nodes /\ list[j] # U!NULL
  BY <1>1 DEF U!Nodes, U!NULL
<1>p. U!NULL \in Pointers /\ \A x \in U!Nodes : x \in Pointers
  BY DEF CacheSize, Pointers, U!Nodes, U!NULL
<1>4. CASE i = 1 /\ m = 1
  <2>1. d = [c EXCEPT !.front = U!NULL, !.end = U!NULL]
    BY <1>1, <1>4 DEF U!remove_node, U!Link
  <2>2. d \in CacheType /\ SameRest(c, d) /\ d.front = U!NULL /\ d.end = U!NULL
    BY <1>p, <2>1, Zenon DEF CacheType, SameRest
  <2> HIDE DEF d, w
  <2>4. \A j \in 1 .. m - 1 : d.next[w[j]] = U!Link(w, j + 1)
    BY <1>2, <1>4, <2>2 DEF Threaded, U!Link, CacheType, U!IsInjective
  <2>5. \A j \in 1 .. m - 1 : d.prev[w[j]] = U!Link(w, j - 1)
    BY <1>2, <1>4, <2>2 DEF Threaded, U!Link, CacheType, U!IsInjective
  <2>6. d.front = U!Link(w, 1) /\ d.end = U!Link(w, m - 1)
    BY <1>2, <1>4, <2>2 DEF Threaded, U!Link
  <2> QED
    BY <1>2, <2>4, <2>5, <2>6, <2>2 DEF Threaded
<1>5. CASE i = 1 /\ m > 1
  <2>1. c.next[n] = list[2] /\ list[2] \in U!Nodes /\ list[2] # U!NULL /\ c.prev[n] = U!NULL
    BY <1>1, <1>3, <1>5 DEF U!Link
  <2>2. d = [c EXCEPT !.front = list[2], !.prev[list[2]] = U!NULL]
    BY <2>1 DEF U!remove_node
  <2>3. /\ d \in CacheType /\ SameRest(c, d) /\ d.front = list[2] /\ d.end = c.end
        /\ d.next = c.next /\ d.prev = [c.prev EXCEPT ![list[2]] = U!NULL]
    <3>1. d \in CacheType
      <4>1. [c EXCEPT !.front = list[2]] \in CacheType
        BY <1>p, <2>1, Relinks, Zenon
      <4>2. [c EXCEPT !.front = list[2], !.prev[list[2]] = U!NULL] \in CacheType
        BY <4>1, <1>p, <2>1, Relinks, Zenon
      <4> QED
        BY <4>2, <2>2, Zenon
    <3>2. SameRest(c, d)
      BY <1>p, <2>1, <2>2, Zenon DEF CacheType, SameRest
    <3>3. d.front = list[2]
      BY <1>p, <2>1, <2>2, Zenon DEF CacheType, SameRest
    <3>4. d.end = c.end
      BY <1>p, <2>1, <2>2, Zenon DEF CacheType, SameRest
    <3>5. d.next = c.next
      BY <1>p, <2>1, <2>2, Zenon DEF CacheType, SameRest
    <3>6. d.prev = [c.prev EXCEPT ![list[2]] = U!NULL]
      BY <1>p, <2>1, <2>2, Zenon DEF CacheType, SameRest
    <3> QED
      BY <3>1, <3>2, <3>3, <3>4, <3>5, <3>6
  <2> HIDE DEF d, w
  <2>4. \A j \in 1 .. m - 1 : d.next[w[j]] = U!Link(w, j + 1)
    BY <1>1, <1>2, <1>3, <1>5, <2>1, <2>3 DEF Threaded, U!Link, CacheType, U!IsInjective
  <2>5. \A j \in 1 .. m - 1 : d.prev[w[j]] = U!Link(w, j - 1)
    BY <1>1, <1>2, <1>3, <1>5, <2>1, <2>3 DEF Threaded, U!Link, CacheType, U!IsInjective
  <2>6. d.front = U!Link(w, 1) /\ d.end = U!Link(w, m - 1)
    BY <1>1, <1>2, <1>3, <1>5, <2>1, <2>3 DEF Threaded, U!Link
  <2> QED
    BY <1>2, <2>4, <2>5, <2>6, <2>3 DEF Threaded
<1>6. CASE i > 1 /\ i = m
  <2>1. /\ c.prev[n] = list[i - 1] /\ list[i - 1] \in U!Nodes /\ list[i - 1] # U!NULL
        /\ c.next[n] = U!NULL /\ c.next[list[i - 1]] = n
    BY <1>1, <1>3, <1>6 DEF U!Link, Threaded
  <2>2. d = [c EXCEPT !.next[list[i - 1]] = U!NULL, !.end = list[i - 1]]
    BY <2>1 DEF U!remove_node
  <2>3. /\ d \in CacheType /\ SameRest(c, d) /\ d.front = c.front /\ d.end = list[i - 1]
        /\ d.prev = c.prev /\ d.next = [c.next EXCEPT ![list[i - 1]] = U!NULL]
    <3>1. d \in CacheType
      <4>1. [c EXCEPT !.next[list[i - 1]] = U!NULL] \in CacheType
        BY <1>p, <2>1, Relinks, Zenon
      <4>2. [c EXCEPT !.next[list[i - 1]] = U!NULL, !.end = list[i - 1]] \in CacheType
        BY <4>1, <1>p, <2>1, Relinks, Zenon
      <4> QED
        BY <4>2, <2>2, Zenon
    <3>2. SameRest(c, d)
      BY <1>p, <2>1, <2>2, Zenon DEF CacheType, SameRest
    <3>3. d.front = c.front
      BY <1>p, <2>1, <2>2, Zenon DEF CacheType, SameRest
    <3>4. d.end = list[i - 1]
      BY <1>p, <2>1, <2>2, Zenon DEF CacheType, SameRest
    <3>5. d.prev = c.prev
      BY <1>p, <2>1, <2>2, Zenon DEF CacheType, SameRest
    <3>6. d.next = [c.next EXCEPT ![list[i - 1]] = U!NULL]
      BY <1>p, <2>1, <2>2, Zenon DEF CacheType, SameRest
    <3> QED
      BY <3>1, <3>2, <3>3, <3>4, <3>5, <3>6
  <2> HIDE DEF d, w
  <2>4. \A j \in 1 .. m - 1 : d.next[w[j]] = U!Link(w, j + 1)
    BY <1>1, <1>2, <1>3, <1>6, <2>1, <2>3 DEF Threaded, U!Link, CacheType, U!IsInjective
  <2>5. \A j \in 1 .. m - 1 : d.prev[w[j]] = U!Link(w, j - 1)
    BY <1>1, <1>2, <1>3, <1>6, <2>1, <2>3 DEF Threaded, U!Link, CacheType, U!IsInjective
  <2>6. d.front = U!Link(w, 1) /\ d.end = U!Link(w, m - 1)
    BY <1>1, <1>2, <1>3, <1>6, <2>1, <2>3 DEF Threaded, U!Link
  <2> QED
    BY <1>2, <2>4, <2>5, <2>6, <2>3 DEF Threaded
<1>7. CASE i > 1 /\ i < m
  <2>1. /\ c.prev[n] = list[i - 1] /\ list[i - 1] \in U!Nodes /\ list[i - 1] # U!NULL
        /\ c.next[n] = list[i + 1] /\ list[i + 1] \in U!Nodes /\ list[i + 1] # U!NULL
        /\ c.next[list[i - 1]] = n /\ c.prev[list[i + 1]] = n
    BY <1>1, <1>3, <1>7 DEF U!Link, Threaded
  <2>2. d = [c EXCEPT !.next[list[i - 1]] = list[i + 1], !.prev[list[i + 1]] = list[i - 1]]
    BY <2>1 DEF U!remove_node
  <2>3. /\ d \in CacheType /\ SameRest(c, d) /\ d.front = c.front /\ d.end = c.end
        /\ d.prev = [c.prev EXCEPT ![list[i + 1]] = list[i - 1]]
        /\ d.next = [c.next EXCEPT ![list[i - 1]] = list[i + 1]]
    <3>1. d \in CacheType
      <4>1. [c EXCEPT !.next[list[i - 1]] = list[i + 1]] \in CacheType
        BY <1>p, <2>1, Relinks, Zenon
      <4>2. [c EXCEPT !.next[list[i - 1]] = list[i + 1], !.prev[list[i + 1]] = list[i - 1]]
               \in CacheType
        BY <4>1, <1>p, <2>1, Relinks, Zenon
      <4> QED
        BY <4>2, <2>2, Zenon
    <3>2. SameRest(c, d)
      BY <1>p, <2>1, <2>2, Zenon DEF CacheType, SameRest
    <3>3. d.front = c.front
      BY <1>p, <2>1, <2>2, Zenon DEF CacheType, SameRest
    <3>4. d.end = c.end
      BY <1>p, <2>1, <2>2, Zenon DEF CacheType, SameRest
    <3>5. d.prev = [c.prev EXCEPT ![list[i + 1]] = list[i - 1]]
      BY <1>p, <2>1, <2>2, Zenon DEF CacheType, SameRest
    <3>6. d.next = [c.next EXCEPT ![list[i - 1]] = list[i + 1]]
      BY <1>p, <2>1, <2>2, Zenon DEF CacheType, SameRest
    <3> QED
      BY <3>1, <3>2, <3>3, <3>4, <3>5, <3>6
  <2> HIDE DEF d, w
  <2>4. \A j \in 1 .. m - 1 : d.next[w[j]] = U!Link(w, j + 1)
    BY <1>1, <1>2, <1>3, <1>7, <2>1, <2>3 DEF Threaded, U!Link, CacheType, U!IsInjective
  <2>5. \A j \in 1 .. m - 1 : d.prev[w[j]] = U!Link(w, j - 1)
    BY <1>1, <1>2, <1>3, <1>7, <2>1, <2>3 DEF Threaded, U!Link, CacheType, U!IsInjective
  <2>6. d.front = U!Link(w, 1) /\ d.end = U!Link(w, m - 1)
    BY <1>1, <1>2, <1>3, <1>7, <2>1, <2>3 DEF Threaded, U!Link
  <2> QED
    BY <1>2, <2>4, <2>5, <2>6, <2>3 DEF Threaded
<1> QED
  BY <1>4, <1>5, <1>6, <1>7

\* insert_beginning() of a node that is not in the list.
LEMMA InsertBeginning ==
    ASSUME CacheSize, NEW c \in CacheType, NEW m \in Nat, NEW list, Threaded(c, list, m),
           NEW new \in U!Nodes \ U!Range(list)
    PROVE  /\ U!insert_beginning(c, new) \in CacheType
           /\ Threaded(U!insert_beginning(c, new), Before(new, list, m), m + 1)
           /\ SameRest(c, U!insert_beginning(c, new))
<1> DEFINE d == U!insert_beginning(c, new)
           b == Before(new, list, m)
<1> SUFFICES d \in CacheType /\ Threaded(d, b, m + 1) /\ SameRest(c, d)
  OBVIOUS
<1>1. list \in [1 .. m -> U!Nodes] /\ DOMAIN list = 1 .. m /\ U!IsInjective(list)
  BY DEF Threaded
<1>2. /\ b \in [1 .. m + 1 -> U!Nodes] /\ DOMAIN b = 1 .. m + 1 /\ U!IsInjective(b)
      /\ \A j \in 1 .. m + 1 : b[j] = IF j = 1 THEN new ELSE list[j - 1]
  BY <1>1, BeforeAll DEF Before
<1>3. \A j \in 1 .. m : list[j] \in U!Nodes /\ list[j] # U!NULL /\ list[j] # new
  BY <1>1 DEF U!Nodes, U!NULL, U!Range
<1>p. U!NULL \in Pointers /\ \A x \in U!Nodes : x \in Pointers
  BY DEF CacheSize, Pointers, U!Nodes, U!NULL
<1>4. CASE m = 0
  <2>1. d = [c EXCEPT !.front = new, !.end = new, !.prev[new] = U!NULL, !.next[new] = U!NULL]
    BY <1>1, <1>4 DEF U!insert_beginning, Threaded, U!Link
  <2>2. /\ d \in CacheType /\ SameRest(c, d) /\ d.front = new /\ d.end = new
        /\ d.next = [c.next EXCEPT ![new] = U!NULL] /\ d.prev = [c.prev EXCEPT ![new] = U!NULL]
    <3>1. d \in CacheType
      <4>1. [c EXCEPT !.front = new] \in CacheType
        BY <1>p, Relinks, Zenon
      <4>2. [c EXCEPT !.front = new, !.end = new] \in CacheType
        BY <4>1, <1>p, Relinks, Zenon
      <4>3. [c EXCEPT !.front = new, !.end = new, !.prev[new] = U!NULL] \in CacheType
        BY <4>2, <1>p, Relinks, Zenon
      <4>4. [c EXCEPT !.front = new, !.end = new, !.prev[new] = U!NULL, !.next[new] = U!NULL]
               \in CacheType
        BY <4>3, <1>p, Relinks, Zenon
      <4> QED
        BY <4>4, <2>1, Zenon
    <3>2. SameRest(c, d)
      BY <1>p, <2>1, Zenon DEF CacheType, SameRest
    <3>3. d.front = new
      BY <1>p, <2>1, Zenon DEF CacheType, SameRest
    <3>4. d.end = new
      BY <1>p, <2>1, Zenon DEF CacheType, SameRest
    <3>5. d.next = [c.next EXCEPT ![new] = U!NULL]
      BY <1>p, <2>1, Zenon DEF CacheType, SameRest
    <3>6. d.prev = [c.prev EXCEPT ![new] = U!NULL]
      BY <1>p, <2>1, Zenon DEF CacheType, SameRest
    <3> QED
      BY <3>1, <3>2, <3>3, <3>4, <3>5, <3>6
  <2> HIDE DEF d, b
  <2>4. \A j \in 1 .. m + 1 : d.next[b[j]] = U!Link(b, j + 1)
    BY <1>2, <1>4, <2>2 DEF Threaded, U!Link, CacheType, U!IsInjective
  <2>5. \A j \in 1 .. m + 1 : d.prev[b[j]] = U!Link(b, j - 1)
    BY <1>2, <1>4, <2>2 DEF Threaded, U!Link, CacheType, U!IsInjective
  <2>6. d.front = U!Link(b, 1) /\ d.end = U!Link(b, m + 1)
    BY <1>2, <1>4, <2>2 DEF Threaded, U!Link
  <2> QED
    BY <1>2, <2>4, <2>5, <2>6, <2>2 DEF Threaded
<1>5. CASE m > 0
  <2>1. c.front = list[1] /\ list[1] \in U!Nodes /\ list[1] # U!NULL /\ c.prev[list[1]] = U!NULL
    BY <1>1, <1>3, <1>5 DEF Threaded, U!Link
  <2>2. d = [c EXCEPT !.prev[new] = U!NULL, !.next = [@ EXCEPT ![new] = list[1]],
                      !.front = new, !.prev[list[1]] = new]
    BY <2>1 DEF U!insert_beginning, U!insert_before
  <2>3. /\ d \in CacheType /\ SameRest(c, d) /\ d.front = new /\ d.end = c.end
        /\ d.next = [c.next EXCEPT ![new] = list[1]]
        /\ d.prev = [c.prev EXCEPT ![new] = U!NULL, ![list[1]] = new]
    <3>1. d \in CacheType
      <4>1. [c EXCEPT !.prev[new] = U!NULL] \in CacheType
        BY <1>p, <2>1, Relinks, Zenon
      <4>2. [c EXCEPT !.prev[new] = U!NULL, !.next = [@ EXCEPT ![new] = list[1]]] \in CacheType
        BY <4>1, <1>p, <2>1, Relinks, Zenon
      <4>3. [c EXCEPT !.prev[new] = U!NULL, !.next = [@ EXCEPT ![new] = list[1]], !.front = new]
               \in CacheType
        BY <4>2, <1>p, <2>1, Relinks, Zenon
      <4>4. [c EXCEPT !.prev[new] = U!NULL, !.next = [@ EXCEPT ![new] = list[1]], !.front = new,
                      !.prev[list[1]] = new] \in CacheType
        BY <4>3, <1>p, <2>1, Relinks, Zenon
      <4> QED
        BY <4>4, <2>2, Zenon
    <3>2. SameRest(c, d)
      BY <1>p, <2>1, <2>2, Zenon DEF CacheType, SameRest
    <3>3. d.front = new
      BY <1>p, <2>1, <2>2, Zenon DEF CacheType, SameRest
    <3>4. d.end = c.end
      BY <1>p, <2>1, <2>2, Zenon DEF CacheType, SameRest
    <3>5. d.next = [c.next EXCEPT ![new] = list[1]]
      BY <1>p, <2>1, <2>2, Zenon DEF CacheType, SameRest
    <3>6. d.prev = [c.prev EXCEPT ![new] = U!NULL, ![list[1]] = new]
      BY <1>p, <2>1, <2>2, Zenon DEF CacheType, SameRest
    <3> QED
      BY <3>1, <3>2, <3>3, <3>4, <3>5, <3>6
  <2> HIDE DEF d, b
  <2>4. \A j \in 1 .. m + 1 : d.next[b[j]] = U!Link(b, j + 1)
    BY <1>1, <1>2, <1>3, <1>5, <2>1, <2>3 DEF Threaded, U!Link, CacheType, U!IsInjective
  <2>5. \A j \in 1 .. m + 1 : d.prev[b[j]] = U!Link(b, j - 1)
    BY <1>1, <1>2, <1>3, <1>5, <2>1, <2>3 DEF Threaded, U!Link, CacheType, U!IsInjective
  <2>6. d.front = U!Link(b, 1) /\ d.end = U!Link(b, m + 1)
    BY <1>1, <1>2, <1>3, <1>5, <2>1, <2>3 DEF Threaded, U!Link
  <2> QED
    BY <1>2, <2>4, <2>5, <2>6, <2>3 DEF Threaded
<1> QED
  BY <1>4, <1>5

-----------------------------------------------------------------------------
\* Two states that agree in the links.
SameLinks(c, d) ==
    d.front = c.front /\ d.end = c.end /\ d.next = c.next /\ d.prev = c.prev

\* The list is read from the links only.
LEMMA StaysThreaded ==
    ASSUME NEW c, NEW d, NEW m, NEW list, Threaded(c, list, m), SameLinks(c, d)
    PROVE  Threaded(d, list, m)
  BY DEF Threaded, SameLinks

\* The parts of a cache that agrees.
LEMMA WholeParts ==
    ASSUME CacheSize, NEW c, NEW list, Whole(c, list)
    PROVE  /\ c \in CacheType /\ c.count \in Nat /\ Threaded(c, list, c.count) /\ U!Hashed(c, list)
           /\ list \in [1 .. c.count -> U!Nodes] /\ U!IsInjective(list)
           /\ c.hash \in [U!Keys -> Pointers]
<1>1. c \in CacheType /\ Threaded(c, list, c.count) /\ U!Hashed(c, list)
  BY Zenon DEF Whole
<1>2. c.count \in 0 .. total /\ c.hash \in [U!Keys -> Pointers]
  BY <1>1, Zenon DEF CacheType
<1>3. c.count \in Nat
  BY <1>2
<1>4. list \in [1 .. c.count -> U!Nodes] /\ U!IsInjective(list)
  BY <1>1, Zenon DEF Threaded
<1> QED
  BY <1>1, <1>2, <1>3, <1>4

\* The node put before the others is the front.
LEMMA FirstIsFront ==
    ASSUME NEW c, NEW list, NEW m \in Nat, NEW n, Threaded(c, Before(n, list, m), m + 1)
    PROVE  c.front = n
<1> DEFINE b == Before(n, list, m)
<1>1. 1 \in DOMAIN b /\ b[1] = n
  BY DEF Before
<1> HIDE DEF b
<1>2. c.front = U!Link(b, 1)
  BY Zenon DEF Threaded, b
<1> QED
  BY <1>1, <1>2 DEF U!Link

\* The first node of the free list is taken off it.
LEMMA FreePop ==
    ASSUME NEW F, NEW f, FreeIs(f, F), f # <<>>
    PROVE  Head(f) \in F /\ FreeIs(Tail(f), F \ {Head(f)})
<1> DEFINE t == Tail(f)
<1>1. /\ f \in Seq(U!Nodes) /\ Len(f) \in Nat \ {0} /\ DOMAIN f = 1 .. Len(f) /\ Head(f) = f[1]
      /\ t \in Seq(U!Nodes) /\ DOMAIN t = 1 .. Len(f) - 1
      /\ \A i \in 1 .. Len(f) - 1 : t[i] = f[i + 1]
  BY DEF FreeIs
<1> HIDE DEF t
<1>2. \A i, j \in 1 .. Len(f) : f[i] = f[j] => i = j
  BY <1>1 DEF FreeIs, U!IsInjective
<1>3. U!IsInjective(t)
  BY <1>1, <1>2 DEF U!IsInjective
<1>4. F = {f[i] : i \in 1 .. Len(f)}
  BY <1>1 DEF FreeIs, U!Range
<1>5. ASSUME NEW x \in F, x # Head(f) PROVE x \in U!Range(t)
  <2>1. PICK i \in 1 .. Len(f) : x = f[i]
    BY <1>4, <1>5
  <2>2. i - 1 \in 1 .. Len(f) - 1 /\ t[i - 1] = x
    BY <1>1, <1>5, <2>1
  <2> QED
    BY <1>1, <2>2 DEF U!Range
<1>6. ASSUME NEW x \in U!Range(t) PROVE x \in F \ {Head(f)}
  <2>1. PICK i \in 1 .. Len(f) - 1 : x = t[i]
    BY <1>1, <1>6 DEF U!Range
  <2>2. i + 1 \in 1 .. Len(f) /\ x = f[i + 1] /\ x # f[1]
    BY <1>1, <1>2, <2>1
  <2> QED
    BY <1>1, <1>4, <2>2
<1>7. Head(f) \in F
  BY <1>1, <1>4
<1> QED
  BY <1>1, <1>3, <1>5, <1>6, <1>7 DEF FreeIs, t

\* A node that is not free is put before the free ones.
LEMMA FreePush ==
    ASSUME NEW F, NEW f, FreeIs(f, F), NEW n \in U!Nodes \ F
    PROVE  FreeIs(<<n>> \o f, F \cup {n})
<1> DEFINE g == <<n>> \o f
<1>1. /\ f \in Seq(U!Nodes) /\ Len(f) \in Nat /\ DOMAIN f = 1 .. Len(f)
      /\ g \in Seq(U!Nodes) /\ DOMAIN g = 1 .. Len(f) + 1 /\ g[1] = n
      /\ \A i \in 2 .. Len(f) + 1 : g[i] = f[i - 1]
  BY DEF FreeIs
<1> HIDE DEF g
<1>2. \A i, j \in 1 .. Len(f) : f[i] = f[j] => i = j
  BY <1>1 DEF FreeIs, U!IsInjective
<1>3. F = {f[i] : i \in 1 .. Len(f)}
  BY <1>1 DEF FreeIs, U!Range
<1>4. U!IsInjective(g)
  BY <1>1, <1>2, <1>3 DEF U!IsInjective
<1>5. ASSUME NEW x \in F PROVE x \in U!Range(g)
  <2>1. PICK i \in 1 .. Len(f) : x = f[i]
    BY <1>3
  <2>2. i + 1 \in 1 .. Len(f) + 1 /\ g[i + 1] = x
    BY <1>1, <2>1
  <2> QED
    BY <1>1, <2>2 DEF U!Range
<1>6. n \in U!Range(g)
  BY <1>1 DEF U!Range
<1>7. ASSUME NEW x \in U!Range(g) PROVE x \in F \cup {n}
  BY <1>1, <1>3, <1>7 DEF U!Range
<1> QED
  BY <1>1, <1>4, <1>5, <1>6, <1>7 DEF FreeIs, g

\* A list without repetitions has as many nodes as places.
LEMMA ListCount ==
    ASSUME CacheSize, NEW m \in Nat, NEW list \in [1 .. m -> U!Nodes], U!IsInjective(list)
    PROVE  IsFiniteSet(U!Range(list)) /\ Cardinality(U!Range(list)) = m
<1>1. list \in Bijection(1 .. m, U!Range(list))
  BY DEF Bijection, Injection, Surjection, IsInjective, U!IsInjective, U!Range
<1>2. IsFiniteSet(1 .. m) /\ Cardinality(1 .. m) = m
  BY FS_Interval
<1>3. ExistsBijection(1 .. m, U!Range(list))
  BY <1>1 DEF ExistsBijection
<1> QED
  BY <1>2, <1>3, FS_Bijection

\* A key without a node means a node without a key: the list is not full, and a
\* node is free.
LEMMA RoomForKey ==
    ASSUME CacheSize, NEW c, NEW list, Whole(c, list), NEW k \in U!Keys, c.hash[k] = U!NULL
    PROVE  c.count < total /\ c.free # <<>>
<1> DEFINE K == {l \in U!Keys : c.hash[l] # U!NULL}
           h == [l \in K |-> c.hash[l]]
<1>1. /\ c.count \in 0 .. total /\ list \in [1 .. c.count -> U!Nodes] /\ U!IsInjective(list)
      /\ c.hash \in [U!Keys -> Pointers]
  BY DEF Whole, Threaded, CacheType
<1>2. IsFiniteSet(U!Range(list)) /\ Cardinality(U!Range(list)) = c.count
  BY <1>1, ListCount DEF CacheSize
<1>3. h \in Bijection(K, U!Range(list))
  <2>1. \A l \in K : h[l] = c.hash[l] /\ c.hash[l] # U!NULL
    OBVIOUS
  <2>2. \A l \in K : h[l] \in U!Range(list)
    BY DEF Whole, U!Hashed
  <2>3. \A x \in U!Range(list) : \E l \in K : h[l] = x
    BY DEF Whole, U!Hashed
  <2>4. \A l, j \in K : h[l] = h[j] => l = j
    BY DEF Whole, U!Hashed
  <2>5. h \in [K -> U!Range(list)]
    BY <2>2, Zenon
  <2> HIDE DEF h, K
  <2> QED
    BY <2>3, <2>4, <2>5 DEF Bijection, Injection, Surjection, IsInjective
<1>4. IsFiniteSet(U!Keys) /\ Cardinality(U!Keys) = total
  <2>1. IsFiniteSet(0 .. total - 1) /\ Cardinality(0 .. total - 1) = total
    BY FS_Interval DEF CacheSize
  <2> QED
    BY <2>1 DEF U!Keys
<1>5. IsFiniteSet(K) /\ Cardinality(K) <= total /\ Cardinality(K) # total
  <2>1. K \in SUBSET U!Keys /\ K # U!Keys
    OBVIOUS
  <2> QED
    BY <1>4, <2>1, FS_Subset
<1>6. Cardinality(K) = c.count
  BY <1>2, <1>3, <1>5, FS_Bijection DEF ExistsBijection
<1>7. c.count < total
  BY <1>1, <1>5, <1>6 DEF CacheSize
<1>8. c.free # <<>>
  <2> SUFFICES ASSUME c.free = <<>> PROVE FALSE
    OBVIOUS
  <2>1. U!Range(c.free) = {}
    BY DEF U!Range
  <2>2. U!Nodes \subseteq U!Range(list) /\ U!Range(list) \subseteq U!Nodes
    BY <1>1, <2>1 DEF Whole, FreeIs, U!Range
  <2>3. Cardinality(U!Nodes) = total
    <3>1. Cardinality(1 .. total) = total
      BY FS_Interval DEF CacheSize
    <3> QED
      BY <3>1 DEF U!Nodes
  <2>4. U!Nodes = U!Range(list)
    BY <2>2, Zenon
  <2>5. c.count # total
    BY <1>1, <1>7 DEF CacheSize
  <2> QED
    BY <1>2, <2>3, <2>4, <2>5, Zenon
<1> QED
  BY <1>7, <1>8

-----------------------------------------------------------------------------
\* The node of a key, when there is one, is in the list.
LEMMA KeyListed ==
    ASSUME NEW c, NEW list, Whole(c, list), NEW k \in U!Keys, c.hash[k] # U!NULL
    PROVE  \E i \in 1 .. c.count : c.hash[k] = list[i]
<1>1. c.hash[k] \in U!Range(list)
  BY DEF Whole, U!Hashed
<1>2. DOMAIN list = 1 .. c.count
  BY DEF Whole, Threaded
<1> QED
  BY <1>1, <1>2 DEF U!Range

\* check_lru_cache() of a key that has a node puts it first.
LEMMA CheckHit ==
    ASSUME CacheSize, NEW c, NEW list, Whole(c, list), NEW k \in U!Keys, c.hash[k] # U!NULL
    PROVE  \E new \in [1 .. c.count -> U!Nodes] :
              /\ Whole(U!check_lru_cache(c, k), new)
              /\ U!check_lru_cache(c, k).count = c.count
              /\ U!check_lru_cache(c, k).front = U!check_lru_cache(c, k).hash[k]
              /\ U!check_lru_cache(c, k).hash[k] # U!NULL
<1> DEFINE d == U!check_lru_cache(c, k)
           n == c.hash[k]
           m == c.count
<1>1. /\ c \in CacheType /\ m \in Nat /\ Threaded(c, list, m) /\ U!Hashed(c, list)
      /\ list \in [1 .. m -> U!Nodes] /\ U!IsInjective(list)
  BY WholeParts
<1>2. CASE n = c.front
  <2>1. d = c
    BY <1>2 DEF U!check_lru_cache
  <2> QED
    BY <1>1, <1>2, <2>1
<1>3. CASE n # c.front
  <2> DEFINE c1 == U!remove_node(c, n)
             c2 == [c1 EXCEPT !.next[n] = U!NULL, !.prev[n] = U!NULL]
  <2>1. PICK i \in 1 .. m : n = list[i]
    BY KeyListed
  <2> DEFINE w == Without(list, m, i)
             new == Before(n, w, m - 1)
  <2>2. d = U!insert_beginning(c2, n) /\ n \in U!Nodes
    BY <1>1, <1>3, <2>1 DEF U!check_lru_cache
  <2>3. c1 \in CacheType /\ Threaded(c1, w, m - 1) /\ SameRest(c, c1)
    BY <1>1, <2>1, RemoveNode
  <2>4. /\ m - 1 \in Nat /\ w \in [1 .. m - 1 -> U!Nodes] /\ U!IsInjective(w)
        /\ U!Range(w) = U!Range(list) \ {n}
    BY <1>1, <2>1, WithoutOne
  <2>5. c2 \in CacheType
    <3>1. U!NULL \in Pointers
      BY DEF CacheSize, Pointers, U!NULL
    <3>2. [c1 EXCEPT !.next[n] = U!NULL] \in CacheType
      BY <2>2, <2>3, <3>1, Relinks, Zenon
    <3> QED
      BY <2>2, <3>1, <3>2, Relinks, Zenon
  <2>6. /\ c2.front = c1.front /\ c2.end = c1.end /\ SameRest(c1, c2)
        /\ c2.next = [c1.next EXCEPT ![n] = U!NULL] /\ c2.prev = [c1.prev EXCEPT ![n] = U!NULL]
    BY <2>2, <2>3, Zenon DEF CacheType, SameRest
  <2>7. c1.next \in [U!Nodes -> Pointers] /\ c1.prev \in [U!Nodes -> Pointers]
    BY <2>3 DEF CacheType
  <2> HIDE DEF c1, c2, w
  <2>8. Threaded(c2, w, m - 1)
    <3>1. \A j \in 1 .. m - 1 : w[j] \in U!Nodes /\ w[j] # n
      BY <2>4, Zenon DEF U!Range
    <3>2. \A j \in 1 .. m - 1 : c2.next[w[j]] = c1.next[w[j]] /\ c2.prev[w[j]] = c1.prev[w[j]]
      BY <2>6, <2>7, <3>1
    <3> QED
      BY <2>3, <2>6, <3>2 DEF Threaded
  <2>9. d \in CacheType /\ Threaded(d, new, m) /\ SameRest(c2, d) /\ d.front = n
    <3>1. n \in U!Nodes \ U!Range(w) /\ (m - 1) + 1 = m
      BY <1>1, <2>2, <2>4
    <3>2. d \in CacheType /\ Threaded(d, new, (m - 1) + 1) /\ SameRest(c2, d)
      BY <2>2, <2>4, <2>5, <2>8, <3>1, InsertBeginning
    <3>3. d.front = n
      BY <2>4, <3>2, FirstIsFront, Zenon
    <3> QED
      BY <3>1, <3>2, <3>3, Zenon
  <2>10. new \in [1 .. m -> U!Nodes] /\ U!Range(new) = U!Range(list)
    <3>1. n \in U!Range(list)
      BY <1>1, <2>1 DEF U!Range
    <3>2. n \in U!Nodes \ U!Range(w) /\ (m - 1) + 1 = m /\ U!Range(w) \cup {n} = U!Range(list)
      BY <1>1, <2>2, <2>4, <3>1
    <3>3. new \in [1 .. (m - 1) + 1 -> U!Nodes] /\ U!Range(new) = U!Range(w) \cup {n}
      BY <2>4, <3>2, BeforeAll
    <3> QED
      BY <3>2, <3>3, Zenon
  <2>11. SameRest(c, d)
    BY <2>3, <2>6, <2>9, Zenon DEF SameRest
  <2> HIDE DEF d, new
  <2>12. Whole(d, new)
    <3>1. d.aborted = FALSE
      BY <2>11, Zenon DEF SameRest, Whole
    <3>2. U!Hashed(d, new) /\ FreeIs(d.free, U!Nodes \ U!Range(new)) /\ d.count = m
      BY <2>10, <2>11 DEF Whole, U!Hashed, SameRest
    <3> QED
      BY <2>9, <3>1, <3>2 DEF Whole
  <2> QED
    BY <2>9, <2>10, <2>11, <2>12 DEF SameRest, d
<1> QED
  BY <1>2, <1>3

\* check_lru_cache() of a key without a node.
LEMMA CheckMiss ==
    ASSUME CacheSize, NEW c, NEW list, Whole(c, list), NEW k \in U!Keys, c.hash[k] = U!NULL
    PROVE  \E new \in [1 .. c.count + 1 -> U!Nodes] :
              /\ Whole(U!check_lru_cache(c, k), new)
              /\ U!check_lru_cache(c, k).count = c.count + 1
              /\ U!check_lru_cache(c, k).front = U!check_lru_cache(c, k).hash[k]
              /\ U!check_lru_cache(c, k).hash[k] # U!NULL
<1> DEFINE d == U!check_lru_cache(c, k)
           n == Head(c.free)
           m == c.count
           c1 == U!qnode_alloc(c)
           c2 == U!insert_beginning(c1, n)
           new == Before(n, list, m)
<1>0. c.count < total /\ c.free # <<>>
  BY RoomForKey
<1>1. /\ c \in CacheType /\ m \in Nat /\ m + 1 \in 0 .. total /\ Threaded(c, list, m)
      /\ list \in [1 .. m -> U!Nodes] /\ U!IsInjective(list) /\ c.free # <<>>
  BY <1>0 DEF Whole, CacheType, Threaded, CacheSize
<1>2. d = [c2 EXCEPT !.hash[k] = n, !.count = @ + 1]
  <2>1. ~(c.count = total)
    BY <1>0, <1>1 DEF CacheSize
  <2> QED
    BY <1>1, <2>1, Zenon DEF U!check_lru_cache, U!enqueue
<1>3. /\ n \in U!Nodes \ U!Range(list) /\ FreeIs(Tail(c.free), (U!Nodes \ U!Range(list)) \ {n})
      /\ Tail(c.free) \in Seq(U!Nodes)
  BY <1>1, FreePop DEF Whole, FreeIs
<1>4. c1 \in CacheType /\ SameLinks(c, c1) /\ c1.free = Tail(c.free)
  BY <1>1, <1>3, Zenon DEF U!qnode_alloc, CacheType, SameLinks
<1>5. c1.count = m /\ c1.hash = c.hash /\ c1.aborted = c.aborted
  BY <1>1, Zenon DEF U!qnode_alloc, CacheType
<1>6. Threaded(c1, list, m)
  BY <1>1, <1>4, StaysThreaded
<1> HIDE DEF c1
<1>7. c2 \in CacheType /\ Threaded(c2, new, m + 1) /\ SameRest(c1, c2)
  BY <1>1, <1>3, <1>4, <1>6, InsertBeginning
<1>8. new \in [1 .. m + 1 -> U!Nodes] /\ U!Range(new) = U!Range(list) \cup {n}
  BY <1>1, <1>3, BeforeAll
<1>9. c2.count = m /\ c2.hash = c.hash /\ c2.aborted = c.aborted /\ c2.free = Tail(c.free)
  BY <1>4, <1>5, <1>7, Zenon DEF SameRest
<1> HIDE DEF c2
<1>10. n \in Pointers /\ n # U!NULL
  BY <1>3 DEF U!Nodes, Pointers, U!NULL, CacheSize
<1>11. /\ SameLinks(c2, d) /\ d.aborted = c2.aborted /\ d.free = c2.free
       /\ d.hash = [c2.hash EXCEPT ![k] = n] /\ d.count = c2.count + 1
  BY <1>2, <1>7, Zenon DEF CacheType, SameLinks
<1>12. d \in CacheType
  <2>1. [c2 EXCEPT !.hash[k] = n] \in CacheType
    BY <1>7, <1>10, Zenon DEF CacheType
  <2>2. c2.count + 1 \in 0 .. total
    BY <1>1, <1>9
  <2>3. [c2 EXCEPT !.hash[k] = n, !.count = @ + 1] \in CacheType
    BY <1>7, <1>10, <2>2, Zenon DEF CacheType
  <2> QED
    BY <1>2, <2>3, Zenon
<1> HIDE DEF d
<1>13. Threaded(d, new, m + 1)
  BY <1>7, <1>11, StaysThreaded
<1>14. c.hash \in [U!Keys -> Pointers] /\ d.hash = [c.hash EXCEPT ![k] = n]
  BY <1>1, <1>9, <1>11 DEF CacheType
<1>15. U!Hashed(d, new)
  <2>1. \A l \in U!Keys : c.hash[l] # n
    BY <1>3, <1>10 DEF Whole, U!Hashed
  <2>2. \A l, j \in U!Keys : d.hash[l] = d.hash[j] => l = j \/ d.hash[l] = U!NULL
    BY <1>14, <2>1 DEF Whole, U!Hashed
  <2>3. {d.hash[l] : l \in U!Keys} \ {U!NULL} = ({c.hash[l] : l \in U!Keys} \ {U!NULL}) \cup {n}
    BY <1>10, <1>14
  <2> QED
    BY <1>8, <2>2, <2>3, Zenon DEF Whole, U!Hashed
<1>16. FreeIs(d.free, U!Nodes \ U!Range(new))
  <2>1. (U!Nodes \ U!Range(list)) \ {n} = U!Nodes \ U!Range(new)
    BY <1>8
  <2> QED
    BY <1>3, <1>9, <1>11, <2>1, Zenon
<1>17. d.front = n /\ d.hash[k] = n
  <2>1. d.front = n
    BY <1>1, <1>13, FirstIsFront, Zenon
  <2> QED
    BY <1>14, <2>1
<1>18. d.count = m + 1 /\ d.aborted = FALSE
  <2>1. d.aborted = FALSE
    BY <1>9, <1>11, Zenon DEF Whole
  <2> QED
    BY <1>9, <1>11, <2>1
<1>19. Whole(d, new)
  BY <1>12, <1>13, <1>15, <1>16, <1>18 DEF Whole
<1> QED
  BY <1>8, <1>10, <1>17, <1>18, <1>19 DEF d

\* Either way the node of the key is then the first.
LEMMA CheckLru ==
    ASSUME CacheSize, NEW c, NEW list, Whole(c, list), NEW k \in U!Keys
    PROVE  LET d == U!check_lru_cache(c, k) IN
           /\ \E new \in [1 .. d.count -> U!Nodes] : Whole(d, new)
           /\ d.front = d.hash[k] /\ d.hash[k] # U!NULL
<1>1. CASE c.hash[k] # U!NULL
  BY <1>1, CheckHit
<1>2. CASE c.hash[k] = U!NULL
  BY <1>2, CheckMiss
<1> QED
  BY <1>1, <1>2

\* The node that qnode_free() returns to the pool was in no list.
LEMMA FreeNode ==
    ASSUME CacheSize, NEW c \in CacheType, NEW m \in Nat, NEW list, Threaded(c, list, m),
           NEW n \in U!Nodes \ U!Range(list)
    PROVE  LET d == U!qnode_free(c, n) IN
           /\ d \in CacheType /\ Threaded(d, list, m) /\ d.free = <<n>> \o c.free
           /\ d.count = c.count /\ d.hash = c.hash /\ d.aborted = c.aborted
<1> DEFINE d == U!qnode_free(c, n)
           c1 == [c EXCEPT !.item[n] = "none"]
           c2 == [c1 EXCEPT !.prev[n] = U!NULL]
           c3 == [c2 EXCEPT !.next[n] = U!NULL]
           c4 == [c3 EXCEPT !.free = <<n>> \o @]
<1>1. d = c4
  BY Zenon DEF U!qnode_free
<1>2. U!NULL \in Pointers
  BY DEF CacheSize, Pointers, U!NULL
<1>3. c1 \in CacheType
  BY Zenon DEF CacheType
<1>4. c2 \in CacheType /\ c3 \in CacheType
  <2> HIDE DEF c1
  <2>1. c2 \in CacheType
    BY <1>2, <1>3, Relinks, Zenon
  <2> HIDE DEF c2
  <2>2. c3 \in CacheType
    BY <1>2, <2>1, Relinks, Zenon
  <2> QED
    BY <2>1, <2>2
<1>5. /\ d.front = c.front /\ d.end = c.end /\ d.free = <<n>> \o c.free
      /\ d.next = [c.next EXCEPT ![n] = U!NULL] /\ d.prev = [c.prev EXCEPT ![n] = U!NULL]
  BY Zenon DEF U!qnode_free, CacheType
<1>6. d.count = c.count /\ d.hash = c.hash /\ d.aborted = c.aborted
  BY Zenon DEF U!qnode_free, CacheType
<1>7. c4 \in CacheType
  <2>1. c3.free \in Seq(U!Nodes)
    BY <1>4, Zenon DEF CacheType
  <2> HIDE DEF c3
  <2>2. <<n>> \o c3.free \in Seq(U!Nodes)
    BY <2>1
  <2> QED
    BY <1>4, <2>2, Zenon DEF CacheType
<1>8. d \in CacheType
  BY <1>1, <1>7, Zenon
<1>9. Threaded(d, list, m)
  <2> HIDE DEF d
  <2>1. c.next \in [U!Nodes -> Pointers] /\ c.prev \in [U!Nodes -> Pointers]
    BY DEF CacheType
  <2>2. \A j \in 1 .. m : list[j] \in U!Nodes /\ list[j] # n
    BY DEF U!Range, Threaded
  <2>3. \A j \in 1 .. m : d.next[list[j]] = c.next[list[j]] /\ d.prev[list[j]] = c.prev[list[j]]
    BY <1>5, <2>1, <2>2
  <2> QED
    BY <1>5, <2>3 DEF Threaded
<1> QED
  BY <1>5, <1>6, <1>8, <1>9, Zenon

\* The i-th node of the list goes back to the pool: dequeue() takes the last,
\* lru_evict() the first.
Dropped(c, n) == [U!qnode_free(U!remove_node(c, n), n) EXCEPT !.count = @ - 1]

Drops(c, d, list, m, i) ==
    /\ d \in CacheType /\ Threaded(d, Without(list, m, i), m - 1)
    /\ d.count = m - 1 /\ d.free = <<list[i]>> \o c.free
    /\ d.hash = c.hash /\ d.aborted = c.aborted

\* remove_node() and qnode_free() of a node of the list.
LEMMA DropNode ==
    ASSUME CacheSize, NEW c \in CacheType, NEW m \in Nat, NEW list, Threaded(c, list, m),
           c.count = m, NEW i \in 1 .. m
    PROVE  Drops(c, Dropped(c, list[i]), list, m, i)
<1> DEFINE n == list[i]
           w == Without(list, m, i)
           c1 == U!remove_node(c, n)
           c2 == U!qnode_free(c1, n)
           d == [c2 EXCEPT !.count = @ - 1]
<1>1. c1 \in CacheType /\ Threaded(c1, w, m - 1) /\ SameRest(c, c1)
  BY RemoveNode
<1>2. m - 1 \in Nat /\ m - 1 \in 0 .. total /\ n \in U!Nodes \ U!Range(w)
  <2>1. m \in 0 .. total /\ m - 1 \in Nat /\ n \in U!Nodes
    BY DEF CacheType, Threaded
  <2>2. U!Range(w) = U!Range(list) \ {n}
    BY WithoutOne, Zenon DEF Threaded
  <2> QED
    BY <2>1, <2>2 DEF CacheSize
<1> HIDE DEF c1
<1>3. /\ c2 \in CacheType /\ Threaded(c2, w, m - 1) /\ c2.free = <<n>> \o c1.free
      /\ c2.count = c1.count /\ c2.hash = c1.hash /\ c2.aborted = c1.aborted
  BY <1>1, <1>2, FreeNode
<1>4. c2.count = m /\ c2.hash = c.hash /\ c2.free = <<n>> \o c.free
  BY <1>1, <1>3 DEF SameRest
<1>5. c2.aborted = c.aborted
  BY <1>1, <1>3, Zenon DEF SameRest
<1> HIDE DEF c2
<1>6. /\ SameLinks(c2, d) /\ d.aborted = c2.aborted /\ d.free = c2.free
      /\ d.hash = c2.hash /\ d.count = c2.count - 1
  BY <1>3, Zenon DEF CacheType, SameLinks
<1>7. d \in CacheType
  <2>1. c2.count - 1 \in 0 .. total
    BY <1>2, <1>4
  <2> QED
    BY <1>3, <2>1, Zenon DEF CacheType
<1> HIDE DEF d
<1>8. Threaded(d, w, m - 1)
  BY <1>3, <1>6, StaysThreaded
<1>9. d.count = m - 1 /\ d.free = <<n>> \o c.free /\ d.hash = c.hash
  BY <1>4, <1>6
<1>10. d.aborted = c.aborted
  BY <1>5, <1>6, Zenon
<1> QED
  BY <1>7, <1>8, <1>9, <1>10, Zenon DEF d, c2, c1, Dropped, Drops

\* lru_evict() after check_lru_cache() of the same key.
LEMMA Evict ==
    ASSUME CacheSize, NEW c, NEW list, Whole(c, list), NEW k \in U!Keys,
           c.front = c.hash[k], c.hash[k] # U!NULL
    PROVE  LET d == U!lru_evict(c, k) IN \E new \in [1 .. d.count -> U!Nodes] : Whole(d, new)
<1> DEFINE d == U!lru_evict(c, k)
           n == list[1]
           m == c.count
           w == Without(list, m, 1)
           c1 == [c EXCEPT !.hash[k] = U!NULL]
<1>1. /\ c \in CacheType /\ m \in Nat /\ Threaded(c, list, m) /\ U!Hashed(c, list)
      /\ list \in [1 .. m -> U!Nodes] /\ U!IsInjective(list) /\ c.hash \in [U!Keys -> Pointers]
  BY WholeParts
<1>2. m > 0 /\ 1 \in 1 .. m /\ c.front = n /\ n \in U!Nodes /\ c.end = list[m]
  BY <1>1 DEF Threaded, U!Link
<1>3. c.end # U!NULL /\ n # U!NULL
  BY <1>1, <1>2 DEF U!Nodes, U!NULL
<1>4. d = Dropped(c1, n)
  BY <1>2, <1>3, Zenon DEF U!lru_evict, Dropped
<1>5. c1 \in CacheType
  <2>1. U!NULL \in Pointers
    BY DEF CacheSize, Pointers, U!NULL
  <2> QED
    BY <1>1, <2>1, Zenon DEF CacheType
<1>6. /\ SameLinks(c, c1) /\ c1.count = m /\ c1.free = c.free /\ c1.aborted = c.aborted
      /\ c1.hash = [c.hash EXCEPT ![k] = U!NULL]
  BY <1>1, Zenon DEF CacheType, SameLinks
<1>7. Threaded(c1, list, m)
  BY <1>1, <1>6, StaysThreaded
<1> HIDE DEF c1
<1>8. /\ d \in CacheType /\ Threaded(d, w, m - 1)
      /\ d.count = m - 1 /\ d.free = <<n>> \o c1.free
      /\ d.hash = c1.hash /\ d.aborted = c1.aborted
  <2>1. LET e == Dropped(c1, list[1]) IN
        /\ e \in CacheType /\ Threaded(e, Without(list, m, 1), m - 1)
        /\ e.count = m - 1 /\ e.free = <<list[1]>> \o c1.free
        /\ e.hash = c1.hash /\ e.aborted = c1.aborted
    <3>1. Drops(c1, Dropped(c1, list[1]), list, m, 1)
      BY <1>1, <1>2, <1>5, <1>6, <1>7, DropNode, Zenon
    <3> QED
      BY <3>1, Zenon DEF Drops
  <2> QED
    BY <1>4, <2>1, Zenon
<1>9. /\ w \in [1 .. m - 1 -> U!Nodes] /\ U!IsInjective(w)
      /\ U!Range(w) = U!Range(list) \ {n}
  BY <1>1, <1>2, WithoutOne
<1> HIDE DEF d, w
<1>10. FreeIs(d.free, U!Nodes \ U!Range(w))
  <2>1. n \in U!Range(list)
    BY <1>1, <1>2 DEF U!Range
  <2>2. (U!Nodes \ U!Range(list)) \cup {n} = U!Nodes \ U!Range(w)
    BY <1>2, <1>9, <2>1
  <2>3. FreeIs(<<n>> \o c.free, (U!Nodes \ U!Range(list)) \cup {n})
    BY <1>2, <2>1, FreePush DEF Whole
  <2> QED
    BY <1>6, <1>8, <2>2, <2>3, Zenon
<1>11. U!Hashed(d, w)
  <2>1. d.hash = [c.hash EXCEPT ![k] = U!NULL]
    BY <1>6, <1>8
  <2>2. \A l \in U!Keys : l # k => c.hash[l] # n
    BY <1>1, <1>2, <1>3, Zenon DEF U!Hashed
  <2>3. \A l, j \in U!Keys : d.hash[l] = d.hash[j] => l = j \/ d.hash[l] = U!NULL
    BY <1>1, <2>1 DEF U!Hashed
  <2>4. {d.hash[l] : l \in U!Keys} \ {U!NULL} = ({c.hash[l] : l \in U!Keys} \ {U!NULL}) \ {n}
    <3>1. d.hash[k] = U!NULL /\ c.hash[k] = n /\ \A l \in U!Keys : l # k => d.hash[l] = c.hash[l]
      BY <1>1, <1>2, <2>1
    <3> QED
      BY <2>2, <3>1
  <2> QED
    BY <1>1, <1>9, <2>3, <2>4, Zenon DEF U!Hashed
<1>12. d.aborted = FALSE
  BY <1>6, <1>8, Zenon DEF Whole
<1>13. Whole(d, w) /\ w \in [1 .. d.count -> U!Nodes]
  BY <1>8, <1>9, <1>10, <1>11, <1>12 DEF Whole
<1> QED
  BY <1>13 DEF d

\* An item is put into the node at the front.
LEMMA PutItem ==
    ASSUME CacheSize, NEW c, NEW list, Whole(c, list), NEW n \in U!Nodes
    PROVE  LET d == [c EXCEPT !.item[n] = "set"] IN d.count = c.count /\ Whole(d, list)
<1> DEFINE d == [c EXCEPT !.item[n] = "set"]
<1>1. c \in CacheType
  BY DEF Whole
<1>2. d \in CacheType /\ SameLinks(c, d)
  BY <1>1, Zenon DEF CacheType, SameLinks
<1>3. d.count = c.count /\ d.free = c.free /\ d.hash = c.hash /\ d.aborted = c.aborted
  BY <1>1, Zenon DEF CacheType
<1> HIDE DEF d
<1>4. Threaded(d, list, d.count)
  BY <1>2, <1>3, StaysThreaded DEF Whole
<1>5. d.aborted = FALSE
  BY <1>3, Zenon DEF Whole
<1>6. U!Hashed(d, list) /\ FreeIs(d.free, U!Nodes \ U!Range(list))
  BY <1>3 DEF Whole, U!Hashed
<1>7. Whole(d, list)
  BY <1>2, <1>4, <1>5, <1>6 DEF Whole
<1> QED
  BY <1>3, <1>7 DEF d

-----------------------------------------------------------------------------
\* A nonempty set of naturals has a least element.
LEMMA LeastNat ==
    ASSUME NEW T, T \subseteq Nat, T # {}
    PROVE  \E k \in T : \A j \in T : k <= j
<1> DEFINE R == OpToRel(<, Nat)
<1>1. \A x, y \in Nat : x < y => <<x, y>> \in R
  BY DEF OpToRel
<1>2. IsWellFoundedOn(R, Nat)
  BY NatLessThanWellFounded, Zenon
<1> HIDE DEF R
<1>3. \E k \in T : \A j \in T : ~(<<j, k>> \in R)
  BY <1>2, WFMin, Zenon
<1>4. PICK k \in T : \A j \in T : ~(<<j, k>> \in R)
  BY <1>3
<1>5. ASSUME NEW j \in T PROVE k <= j
  <2>1. j \in Nat /\ k \in Nat /\ ~(j < k)
    BY <1>1, <1>4, Zenon
  <2> QED BY <2>1
<1> QED BY <1>5

\* Induction over a range of numbers, for a set.
LEMMA Upwards ==
    ASSUME NEW N \in Nat, NEW S, 0 \in S, \A n \in 0 .. N - 1 : n \in S => n + 1 \in S
    PROVE  \A n \in 0 .. N : n \in S
<1> SUFFICES ASSUME NEW n \in 0 .. N, n \notin S PROVE FALSE
  OBVIOUS
<1> DEFINE T == {j \in 0 .. N : j \notin S}
<1>0. T \subseteq Nat /\ T # {}
  OBVIOUS
<1>1. PICK k \in T : \A j \in T : k <= j
  <2> HIDE DEF T
  <2> QED
    BY <1>0, LeastNat, Zenon
<1>2. k - 1 \in 0 .. N - 1 /\ k - 1 \notin T
  BY <1>1
<1> QED
  BY <1>1, <1>2

\* dequeue() of a list that is not empty.
LEMMA DequeueLast ==
    ASSUME CacheSize, NEW c \in CacheType, NEW m \in Nat \ {0}, NEW list, Threaded(c, list, m),
           c.count = m
    PROVE  LET d == U!dequeue(c) IN
           /\ d \in CacheType /\ Threaded(d, Without(list, m, m), m - 1)
           /\ d.count = m - 1 /\ d.aborted = c.aborted
<1>1. c.end = list[m] /\ list[m] # U!NULL /\ m \in 1 .. m
  BY DEF Threaded, U!Link, U!Nodes, U!NULL
<1>2. U!dequeue(c) = Dropped(c, list[m])
  BY <1>1, Zenon DEF U!dequeue, Dropped
<1>3. Drops(c, Dropped(c, list[m]), list, m, m)
  BY <1>1, DropNode
<1> QED
  BY <1>2, <1>3, Zenon DEF Drops

\* destroy_queue() empties the list and meets no broken link.
LEMMA DestroyQueue ==
    ASSUME CacheSize, NEW c, NEW list, Whole(c, list)
    PROVE  U!destroy_queue(c).aborted = FALSE /\ U!destroy_queue(c).end = U!NULL
<1> DEFINE Calls(f, n) == f = [i \in 0 .. n |-> IF i = 0 THEN c ELSE U!dequeue(f[i - 1])]
           m == c.count
<1>1. c \in CacheType /\ m \in Nat /\ m <= total /\ Threaded(c, list, m) /\ c.aborted = FALSE
  BY DEF Whole, CacheType, CacheSize
<1>2. \E f : Calls(f, total)
  <2> DEFINE S == {n \in 0 .. total : \E f : Calls(f, n)}
  <2>1. 0 \in S
    <3>1. Calls([i \in 0 .. 0 |-> c], 0)
      OBVIOUS
    <3>2. 0 \in 0 .. total
      BY DEF CacheSize
    <3> HIDE DEF Calls
    <3> QED
      BY <3>1, <3>2, Zenon
  <2>2. ASSUME NEW n \in 0 .. total - 1, n \in S PROVE n + 1 \in S
    <3>1. PICK f : Calls(f, n)
      BY <2>2
    <3> DEFINE g == [i \in 0 .. n + 1 |-> IF i <= n THEN f[i] ELSE U!dequeue(f[n])]
    <3>2. \A i \in 0 .. n + 1 : g[i] = IF i = 0 THEN c ELSE U!dequeue(g[i - 1])
      BY <3>1
    <3>3. Calls(g, n + 1)
      BY <3>2
    <3>4. n + 1 \in 0 .. total
      BY DEF CacheSize
    <3> HIDE DEF Calls, g
    <3> QED
      BY <3>3, <3>4, Zenon
  <2> HIDE DEF S
  <2>3. total \in S
    BY <2>1, <2>2, Upwards DEF CacheSize
  <2> QED
    BY <2>3 DEF S
<1> DEFINE f == CHOOSE g : Calls(g, total)
<1>3. Calls(f, total)
  BY <1>2, Zenon
<1>4. U!destroy_queue(c) = f[m]
  BY Zenon DEF U!destroy_queue
<1> HIDE DEF f
<1>5. f[0] = c /\ \A n \in 0 .. total - 1 : f[n + 1] = U!dequeue(f[n])
  BY <1>3 DEF CacheSize
<1> DEFINE Left(n) == /\ f[n] \in CacheType /\ f[n].count = m - n /\ f[n].aborted = c.aborted
                      /\ \E l : Threaded(f[n], l, m - n)
           S == {n \in 0 .. m : Left(n)}
<1>6. 0 \in S
  BY <1>1, <1>5
<1>7. ASSUME NEW n \in 0 .. m - 1, n \in S PROVE n + 1 \in S
  <2>1. PICK l : Threaded(f[n], l, m - n)
    BY <1>7
  <2>2. /\ f[n] \in CacheType /\ f[n].count = m - n /\ m - n \in Nat \ {0}
        /\ f[n + 1] = U!dequeue(f[n]) /\ (m - n) - 1 = m - (n + 1) /\ n + 1 \in 0 .. m
    BY <1>1, <1>5, <1>7 DEF CacheSize
  <2>3. /\ f[n + 1] \in CacheType /\ Threaded(f[n + 1], Without(l, m - n, m - n), (m - n) - 1)
        /\ f[n + 1].count = (m - n) - 1
    BY <2>1, <2>2, DequeueLast
  <2>4. f[n + 1].aborted = f[n].aborted
    BY <2>1, <2>2, DequeueLast, Zenon
  <2>5. f[n + 1].aborted = c.aborted
    BY <1>7, <2>4, Zenon
  <2> QED
    BY <2>2, <2>3, <2>5
<1> HIDE DEF S
<1>8. m \in S
  BY <1>1, <1>6, <1>7, Upwards
<1>9. PICK l : Threaded(f[m], l, m - m)
  BY <1>8 DEF S
<1>10. f[m].end = U!NULL
  BY <1>1, <1>9 DEF Threaded, U!Link
<1>11. f[m].aborted = FALSE
  BY <1>1, <1>8, Zenon DEF S
<1> QED
  BY <1>4, <1>10, <1>11, Zenon

\* A new cache: every node is free.
LEMMA NewCache ==
    ASSUME CacheSize
    PROVE  SoundCache(U!init_lru) /\ U!init_lru.aborted = FALSE /\ U!init_lru \in CacheType
<1> DEFINE c == U!init_lru
           f == [i \in 1 .. total |-> total + 1 - i]
<1>1. /\ c.front = U!NULL /\ c.end = U!NULL /\ c.count = 0 /\ c.free = f /\ c.aborted = FALSE
      /\ c.hash = [k \in U!Keys |-> U!NULL]
  BY Zenon DEF U!init_lru, U!create_queue, U!create_hash
<1>2. c \in CacheType
  <2>1. U!NULL \in Pointers /\ f \in Seq(U!Nodes) /\ 0 \in 0 .. total
    BY DEF CacheSize, Pointers, U!NULL, U!Nodes
  <2> HIDE DEF f
  <2>2. /\ U!create_hash \in [U!Keys -> Pointers]
        /\ [n \in U!Nodes |-> U!NULL] \in [U!Nodes -> Pointers]
    BY <2>1 DEF U!create_hash
  <2>3. [n \in U!Nodes |-> "none"] \in [U!Nodes -> {"none", "set"}]
    OBVIOUS
  <2> QED
    BY <2>1, <2>2, <2>3, Zenon DEF U!init_lru, U!create_queue, CacheType, f
<1>3. FreeIs(f, U!Nodes \ U!Range(<<>>))
  <2>1. f \in Seq(U!Nodes) /\ DOMAIN f = U!Nodes /\ \A i \in U!Nodes : f[i] = total + 1 - i
    BY DEF CacheSize, U!Nodes
  <2> HIDE DEF f
  <2>2. U!IsInjective(f)
    BY <2>1 DEF U!IsInjective, U!Nodes, CacheSize
  <2>3. \A n \in U!Nodes : total + 1 - n \in U!Nodes /\ f[total + 1 - n] = n
    BY <2>1 DEF U!Nodes, CacheSize
  <2>4. U!Range(f) = U!Nodes
    BY <2>1, <2>3, Zenon DEF U!Range, U!Nodes, CacheSize
  <2>5. U!Range(<<>>) = {}
    BY DEF U!Range
  <2> QED
    BY <2>1, <2>2, <2>4, <2>5 DEF FreeIs
<1> HIDE DEF c, f
<1>4. Threaded(c, <<>>, 0)
  BY <1>1 DEF Threaded, U!Link, U!IsInjective
<1>5. U!Hashed(c, <<>>)
  BY <1>1 DEF U!Hashed, U!Range
<1>6. Whole(c, <<>>)
  BY <1>1, <1>2, <1>3, <1>4, <1>5, Zenon DEF Whole
<1>7. <<>> \in [1 .. c.count -> U!Nodes]
  BY <1>1
<1> QED
  BY <1>1, <1>2, <1>6, <1>7, Zenon DEF SoundCache, c

\* The calls of event.c, for a cache whose structures agree.
LEMMA CacheCalls ==
    ASSUME CacheSize, NEW c, SoundCache(c), NEW k \in U!Keys
    PROVE  LET d == U!check_lru_cache(c, k) IN
           /\ SoundCache(d) /\ d.front = d.hash[k] /\ d.hash[k] # U!NULL
           /\ SoundCache(U!lru_evict(d, k))
           /\ SoundCache([d EXCEPT !.item[d.front] = "set"])
<1> DEFINE d == U!check_lru_cache(c, k)
<1>1. PICK list : Whole(c, list)
  BY DEF SoundCache
<1>2. SoundCache(d) /\ d.front = d.hash[k] /\ d.hash[k] # U!NULL
  BY <1>1, CheckLru, Zenon DEF SoundCache
<1> HIDE DEF d
<1>3. PICK new \in [1 .. d.count -> U!Nodes] : Whole(d, new)
  BY <1>2 DEF SoundCache
<1>4. SoundCache(U!lru_evict(d, k))
  BY <1>2, <1>3, Evict, Zenon DEF SoundCache
<1>5. d.front \in U!Nodes
  BY <1>2, <1>3 DEF Whole, CacheType, Pointers, U!Nodes, U!NULL, CacheSize
<1>6. SoundCache([d EXCEPT !.item[d.front] = "set"])
  <2> DEFINE e == [d EXCEPT !.item[d.front] = "set"]
  <2>1. e.count = d.count /\ Whole(e, new)
    BY <1>3, <1>5, PutItem, Zenon
  <2> HIDE DEF e
  <2>2. SoundCache(e)
    BY <1>3, <2>1 DEF SoundCache
  <2> QED
    BY <2>2 DEF e
<1> QED
  BY <1>2, <1>4, <1>6 DEF d

\* What is preserved implies the property.
LEMMA SoundMatches ==
    ASSUME CacheSize, LruInv PROVE U!HashMatchesList
<1>1. PICK list \in [1 .. q.count -> U!Nodes] : Whole(q, list)
  BY DEF LruInv, SoundCache
<1>2. q.aborted = FALSE /\ q.count \in 0 .. total
  BY <1>1 DEF Whole, CacheType
<1>3. /\ Threaded(q, list, q.count) /\ U!Hashed(q, list) /\ U!IsInjective(list)
      /\ U!IsInjective(q.free) /\ U!Range(q.free) = U!Nodes \ U!Range(list)
  BY <1>1 DEF Whole, Threaded, FreeIs
<1>4. U!Linked(q, list)
  BY <1>1, <1>3 DEF Threaded, U!Linked
<1> QED
  BY <1>1, <1>2, <1>3, <1>4, Zenon DEF U!HashMatchesList

\* The hash table, the list, the free list and the count of a cache describe the
\* same nodes after every call of event.c, for a cache of any size, and none of
\* the calls aborts (lru.c, event.c).
THEOREM CacheStructuresAgree ==
    ASSUME CacheSize PROVE U!Spec => []U!HashMatchesList
<1>1. U!Init => LruInv
  BY NewCache DEF U!Init, LruInv
<1>2. LruInv /\ [U!Next]_q => LruInv'
  <2> SUFFICES ASSUME SoundCache(q), [U!Next]_q PROVE SoundCache(q')
    BY DEF LruInv
  <2>1. ASSUME NEW k \in U!Keys, U!Use(k) PROVE SoundCache(q')
    <3> DEFINE c == U!check_lru_cache(q, k)
    <3>1. SoundCache(c) /\ SoundCache([c EXCEPT !.item[c.front] = "set"])
      BY CacheCalls, Zenon
    <3> QED
      BY <2>1, <3>1, Zenon DEF U!Use
  <2>2. ASSUME NEW k \in U!Keys, U!Replace(k) PROVE SoundCache(q')
    <3> DEFINE e == U!lru_evict(U!check_lru_cache(q, k), k)
               c == U!check_lru_cache(e, k)
    <3>1. SoundCache(e)
      BY CacheCalls, Zenon
    <3>2. q' = [c EXCEPT !.item[c.front] = "set"] \/ q' = U!lru_evict(c, k)
      BY <2>2 DEF U!Replace
    <3> HIDE DEF e
    <3>3. SoundCache([c EXCEPT !.item[c.front] = "set"]) /\ SoundCache(U!lru_evict(c, k))
      BY <3>1, CacheCalls, Zenon
    <3> QED
      BY <3>2, <3>3, Zenon
  <2>3. ASSUME NEW k \in U!Keys, U!EvictBuilding(k) PROVE SoundCache(q')
    BY <2>3, CacheCalls, Zenon DEF U!EvictBuilding
  <2>4. ASSUME U!flush_cache PROVE SoundCache(q')
    <3>1. PICK list : Whole(q, list)
      BY DEF SoundCache
    <3>2. (U!destroy_queue(q).aborted \/ U!destroy_queue(q).end # U!NULL) = FALSE
      BY <3>1, DestroyQueue, Zenon
    <3>3. q' = [U!init_lru EXCEPT !.aborted = FALSE]
      BY <2>4, <3>2, Zenon DEF U!flush_cache
    <3>4. [U!init_lru EXCEPT !.aborted = FALSE] = U!init_lru
      BY NewCache, Zenon DEF CacheType
    <3> QED
      BY <3>3, <3>4, NewCache, Zenon
  <2>5. CASE UNCHANGED q
    BY <2>5
  <2> QED
    BY <2>1, <2>2, <2>3, <2>4, <2>5 DEF U!Next
<1>3. LruInv => U!HashMatchesList
  BY SoundMatches
<1> QED
  BY <1>1, <1>2, <1>3, PTL DEF U!Spec

=============================================================================
