------------------------------- MODULE Policy -------------------------------
(* library/policy.c and library/decision-config.c: the policy snapshots that  *)
(* decision workers pin while a reload publishes a replacement, the decision  *)
(* config generations, the answer written for a permission event, the rule    *)
(* hit counters and the decision counters of library/policy-metrics.c.        *)
(*                                                                            *)
(* A rules file is abstracted to what it decides for an event: a decision, an *)
(* audited decision, nothing, or it does not load.                            *)
EXTENDS Integers, Sequences, FiniteSets

CONSTANTS
    Workers,            \* threads that run make_policy_decision()
    MaxGenerations,     \* bound on published policies and configs
    MaxDecisions        \* bound on the events

VARIABLES
    ff,         \* the rules file load_rule_file() left open
    snap,       \* the policy snapshots, by order of publication
    active,     \* active_policy
    old,        \* the snapshot publish_policy_snapshot() has still to put
    configs,    \* the chain of decision configs: permissive or not
    worker,     \* the decision of each worker
    reporter,   \* the snapshot a hits report walks
    counters,   \* decision_policy_counters and what the reports took from them
    decided     \* events whose decision was recorded

vars == <<ff, snap, active, old, configs, worker, reporter, counters, decided>>

Opinions == {"allow", "deny audit", "none"}
NoFile == "no file"
None == 0

Idle == [pc |-> "idle", config |-> None, policy |-> None, mask |-> None,
         answer |-> [allow |-> FALSE, audit |-> FALSE]]

Init ==
    /\ ff = NoFile
    /\ snap = <<[rules |-> "deny audit", refs |-> 1, hits |-> 0, taken |-> 0, used |-> 0]>>
    /\ active = 1 /\ old = None
    /\ configs = <<FALSE>>
    /\ worker = [w \in Workers |-> Idle] /\ reporter = None
    /\ counters = [allowed |-> 0, denied |-> 0, taken |-> 0] /\ decided = 0

-----------------------------------------------------------------------------
(* References. *)

\* policy_snapshot_free(): nothing but the accounting of the hits is left.
policy_snapshot_free(s) == [s EXCEPT !.rules = "freed"]

policy_snapshot_put(g, table) ==
    IF g = None THEN table
    ELSE LET s == [table[g] EXCEPT !.refs = @ - 1]
         IN  [table EXCEPT ![g] = IF s.refs = 0 THEN policy_snapshot_free(s) ELSE s]

policy_snapshot_get(g, table) ==
    IF g = None THEN table ELSE [table EXCEPT ![g].refs = @ + 1]

-----------------------------------------------------------------------------
(* make_policy_decision() *)

decision_config_pin(w) ==
    /\ worker[w].pc = "idle"
    /\ decided + Cardinality({v \in Workers : worker[v].pc \notin {"idle", "replied"}}) < MaxDecisions
    /\ worker' = [worker EXCEPT ![w].pc = "config", ![w].config = Len(configs)]
    /\ UNCHANGED <<ff, snap, active, old, configs, reporter, counters, decided>>

\* Mutant: the active pointer is read, and the count raised, without the lock
\* that a publication takes: here, without the count.
policy_snapshot_pin_current_Unlocked(w) ==
    /\ worker[w].pc = "config"
    /\ snap' = IF active # None /\ snap[active].refs > 1 THEN snap
               ELSE policy_snapshot_get(active, snap)
    /\ worker' = [worker EXCEPT ![w].pc = "pinned", ![w].policy = active]
    /\ UNCHANGED <<ff, active, old, configs, reporter, counters, decided>>

\* The load of the pointer and the count are one step: policy_snapshot_lock.
policy_snapshot_pin_current(w) ==
    /\ worker[w].pc = "config"
    /\ snap' = policy_snapshot_get(active, snap)
    /\ worker' = [worker EXCEPT ![w].pc = "pinned", ![w].policy = active]
    /\ UNCHANGED <<ff, active, old, configs, reporter, counters, decided>>

\* policy_snapshot_begin_read() of a thread that has a policy pinned.
begin_read(w) == worker[w].policy

\* new_event() asks for the /proc status fields that the policy needs.
BuildEvent(w) ==
    /\ worker[w].pc = "pinned"
    /\ worker' = [worker EXCEPT ![w].pc = "built", ![w].mask = begin_read(w)]
    /\ UNCHANGED <<ff, snap, active, old, configs, reporter, counters, decided>>

policy_metrics_record_decision(d) ==
    IF d \in {"deny", "deny audit"}
    THEN [counters EXCEPT !.denied = @ + 1] ELSE [counters EXCEPT !.allowed = @ + 1]

\* A decision as a fanotify response: permissive mode allows everything and
\* keeps the audit bit.
Response(d, permissive) ==
    [allow |-> permissive \/ d = "allow", audit |-> d = "deny audit"]

\* The permissive flag of the pinned generation.
decision_config_permissive(w) == configs[worker[w].config]

\* The decision is counted, then the verdict is written.
reply_event_write(w, d) ==
    /\ counters' = policy_metrics_record_decision(d)
    /\ decided' = decided + 1
    /\ worker' = [worker EXCEPT ![w].pc = "replied",
                     ![w].answer = Response(d, decision_config_permissive(w))]

\* new_event() fails: the access is denied without a rule.
BuildFails(w) ==
    /\ worker[w].pc = "pinned"
    /\ reply_event_write(w, "deny")
    /\ UNCHANGED <<ff, snap, active, old, configs, reporter>>

\* The rule that decides is counted; with no policy, or no rule that decides,
\* the event is allowed.
process_event_evaluate(w) ==
    /\ worker[w].pc = "built"
    /\ LET g == begin_read(w)
           opinion == IF g = None THEN "none" ELSE snap[g].rules
       IN  /\ reply_event_write(w, IF opinion = "none" THEN "allow" ELSE opinion)
           /\ snap' = IF opinion = "none" THEN snap
                      ELSE [snap EXCEPT ![g].hits = @ + 1, ![g].used = @ + 1]
    /\ UNCHANGED <<ff, active, old, configs, reporter>>

\* policy_snapshot_unpin_current() and decision_config_unpin()
policy_snapshot_unpin_current(w) ==
    /\ worker[w].pc = "replied"
    /\ snap' = policy_snapshot_put(worker[w].policy, snap)
    /\ worker' = [worker EXCEPT ![w] = Idle]
    /\ UNCHANGED <<ff, active, old, configs, reporter, counters, decided>>

-----------------------------------------------------------------------------
(* Reload, by the update thread or the reconfigure thread. *)

\* open_file() may fail; the file that was open is closed either way.
load_rule_file ==
    /\ old = None /\ active # None /\ Len(snap) < MaxGenerations
    /\ ff' \in Opinions \cup {"bad line", NoFile}
    /\ UNCHANGED <<snap, active, old, configs, worker, reporter, counters, decided>>

\* build_policy_snapshot(): a line that does not parse and an invalid syslog
\* format discard the candidate.
build_policy_snapshot(rules, format) == rules \in Opinions /\ format

\* publish_policy_snapshot() up to the unlock: the candidate's reference becomes
\* the reference of the active pointer.
publish_policy_snapshot(rules) ==
    /\ snap' = Append(snap, [rules |-> rules, refs |-> 1, hits |-> 0, taken |-> 0, used |-> 0])
    /\ active' = Len(snap) + 1
    /\ old' = active

do_reload_rules ==
    /\ old = None /\ active # None /\ Len(snap) < MaxGenerations
    /\ \E format \in BOOLEAN : build_policy_snapshot(ff, format)
    /\ publish_policy_snapshot(ff)
    /\ ff' = NoFile
    /\ UNCHANGED <<configs, worker, reporter, counters, decided>>

\* No file is open, or the candidate does not build: the policy in force stays.
ReloadFails ==
    /\ old = None /\ active # None /\ \E format \in BOOLEAN : ~build_policy_snapshot(ff, format)
    /\ ff' = NoFile
    /\ UNCHANGED <<snap, active, old, configs, worker, reporter, counters, decided>>

\* The put at the end of publish_policy_snapshot().
PutOld ==
    /\ old # None
    /\ snap' = policy_snapshot_put(old, snap) /\ old' = None
    /\ UNCHANGED <<ff, active, configs, worker, reporter, counters, decided>>

decision_config_publish(permissive) ==
    /\ Len(configs) < MaxGenerations
    /\ configs' = Append(configs, permissive)
    /\ UNCHANGED <<ff, snap, active, old, worker, reporter, counters, decided>>

-----------------------------------------------------------------------------
(* Reports. *)

ReportBegin ==
    /\ reporter = None /\ active # None
    /\ reporter' = active /\ snap' = policy_snapshot_get(active, snap)
    /\ UNCHANGED <<ff, active, old, configs, worker, counters, decided>>

\* Mutant: the counter is read and then cleared, in two steps that an event can
\* come between: here, one hit is dropped.
hits_report_reset_TwoSteps(s) ==
    [s EXCEPT !.taken = @ + (IF s.hits > 1 THEN s.hits - 1 ELSE s.hits), !.hits = 0]

\* rules_hits_report_reset() with reset: the counter is exchanged with 0.
rules_hits_report_reset(s) == [s EXCEPT !.taken = @ + s.hits, !.hits = 0]

policy_rule_hits_report_reset ==
    /\ reporter # None
    /\ snap' = policy_snapshot_put(reporter,
                  [snap EXCEPT ![reporter] = rules_hits_report_reset(@)])
    /\ reporter' = None
    /\ UNCHANGED <<ff, active, old, configs, worker, counters, decided>>

\* getAllowedReset() and getDeniedReset(): one counter at a time.
policy_counter_snapshot(c) ==
    /\ counters[c] > 0
    /\ counters' = [counters EXCEPT ![c] = 0, !.taken = @ + counters[c]]
    /\ UNCHANGED <<ff, snap, active, old, configs, worker, reporter, decided>>

\* destroy_rules(), once the workers have been joined.
destroy_rules ==
    /\ active # None /\ old = None /\ reporter = None
    /\ \A w \in Workers : worker[w].pc = "idle"
    /\ snap' = policy_snapshot_put(active, snap) /\ active' = None
    /\ UNCHANGED <<ff, old, configs, worker, reporter, counters, decided>>

-----------------------------------------------------------------------------
Decide(w) ==
    \/ active # None /\ decision_config_pin(w)
    \/ policy_snapshot_pin_current(w) \/ BuildEvent(w) \/ BuildFails(w)
    \/ process_event_evaluate(w) \/ policy_snapshot_unpin_current(w)

Next ==
    \/ \E w \in Workers : Decide(w)
    \/ load_rule_file \/ do_reload_rules \/ ReloadFails \/ PutOld
    \/ \E p \in BOOLEAN : decision_config_publish(p)
    \/ ReportBegin \/ policy_rule_hits_report_reset
    \/ \E c \in {"allowed", "denied"} : policy_counter_snapshot(c)
    \/ destroy_rules

Spec == Init /\ [][Next]_vars

-----------------------------------------------------------------------------
\* Who holds a reference to snapshot g.
Pinned(g) == {w \in Workers : worker[w].policy = g}
Held(p, g) == IF p = g THEN 1 ELSE 0
Holders(g) == Cardinality(Pinned(g)) + Held(active, g) + Held(old, g) + Held(reporter, g)

\* A policy is freed exactly when the active pointer, the publisher that
\* replaces it, the decisions that pinned it and the report that walks it are
\* done with it: none of them ever reads freed rules, and no generation that a
\* reload replaced stays behind.
FreedExactlyWhenUnused ==
    \A g \in DOMAIN snap :
        snap[g].refs = Holders(g) /\ (snap[g].rules = "freed" <=> Holders(g) = 0)

\* "That mask must describe the same generation that rule evaluation and syslog
\* formatting will use" (make_policy_decision()): whatever is published while an
\* event is decided, the event is built, decided and answered by the policy and
\* the configuration it was pinned to.
OneGenerationPerDecision ==
    \A w \in Workers :
        LET it == worker[w]
            verdict == IF it.mask = None THEN "deny"
                       ELSE IF it.policy = None \/ snap[it.policy].rules = "none" THEN "allow"
                       ELSE snap[it.policy].rules
        IN  /\ it.pc = "built" => it.mask = it.policy
            /\ it.pc = "replied" => it.answer = Response(verdict, configs[it.config])

\* Reports that reset the counters while events are decided lose nothing and
\* count nothing twice: neither a rule hit nor a decision.
NothingUncounted ==
    /\ \A g \in DOMAIN snap : snap[g].hits + snap[g].taken = snap[g].used
    /\ counters.allowed + counters.denied + counters.taken = decided

=============================================================================
