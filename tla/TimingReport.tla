---------------------------- MODULE TimingReport ----------------------------
(* library/decision-timing.c: what the report of a timing run says.  A stage  *)
(* is the sequence of the parts of its name, a sample is what was recorded    *)
(* for it, and a section of the report is the rows and findings it prints,    *)
(* without their wording.                                                     *)
EXTENDS Integers, Sequences, FiniteSets, SequencesExt, Folds, TLC

CONSTANT TAIL_STAGE_LIMIT       \* rows of the tail summary without a 50ms tail

stage_names == <<
    <<"decision", "total">>, <<"time_in_queue", "total">>,
    <<"event_build", "total">>, <<"event_build", "cache_flush">>,
    <<"event_build", "proc_fingerprint">>, <<"evaluation", "proc_detail_lookup">>,
    <<"event_build", "fd_stat">>, <<"evaluation", "fd_path_resolution">>,
    <<"evaluation", "mime_detection", "total">>,
    <<"evaluation", "mime_detection", "fast_classification">>,
    <<"evaluation", "mime_detection", "gather_elf">>,
    <<"evaluation", "mime_detection", "libmagic_fallback">>,
    <<"response", "mime_detection", "total">>,
    <<"response", "mime_detection", "fast_classification">>,
    <<"response", "mime_detection", "gather_elf">>,
    <<"response", "mime_detection", "libmagic_fallback">>,
    <<"evaluation", "hash_ima", "total">>, <<"evaluation", "hash_sha", "total">>,
    <<"evaluation", "trust_db_lookup", "total">>,
    <<"evaluation", "trust_db_lookup", "lock_wait">>,
    <<"evaluation", "trust_db_lookup", "read">>,
    <<"response", "trust_db_lookup", "total">>,
    <<"response", "trust_db_lookup", "lock_wait">>,
    <<"response", "trust_db_lookup", "read">>,
    <<"evaluation", "lock_wait">>, <<"evaluation", "total">>, <<"response", "total">>,
    <<"response", "syslog_debug_format", "total">>,
    <<"response", "audit_metadata", "total">>, <<"response", "fanotify_write">> >>

STAGE_COUNT == Len(stage_names)
Stages == 1 .. STAGE_COUNT
Named(name) == CHOOSE s \in Stages : stage_names[s] = name

STAGE_TOTAL == 1
STAGE_QUEUE_WAIT == 2
EVENT_BUILD == 3
RULE_EVALUATION == 26
RESPONSE_TOTAL == 27
SYSLOG_DEBUG_FORMAT == 28

BUCKETS == 14
Nothing == [count |-> 0, total_ns |-> 0, max_ns |-> 0, buckets |-> [b \in 0 .. BUCKETS - 1 |-> 0]]

-----------------------------------------------------------------------------
(* One sample. *)

bucket_cumulative_count(s, bucket) ==
    FoldFunctionOnSet(LAMBDA a, b : a + b, 0, s.buckets, 0 .. bucket)

percentile_target(s, percentile) == (s.count * percentile + 99) \div 100

\* Also percentile_bucket(), which returns the name of the bucket.
percentile_bucket_index(s, percentile) ==
    LET reached == {b \in 0 .. BUCKETS - 1 :
                       bucket_cumulative_count(s, b) >= percentile_target(s, percentile)}
    IN  IF s.count = 0 THEN BUCKETS
        ELSE IF reached = {} THEN BUCKETS - 1
        ELSE CHOOSE b \in reached : \A c \in reached : b <= c

bucket_count_above(s, bucket) ==
    IF s.count = 0 \/ bucket >= BUCKETS - 1 THEN 0
    ELSE s.count - bucket_cumulative_count(s, bucket)

sample_has_tail(s) == bucket_count_above(s, 8) # 0

\* >10ms, >25ms, >50ms, >100ms, >250ms, the empty ones left out
write_tail_counts(s) ==
    SelectSeq([i \in 1 .. 5 |-> <<i, bucket_count_above(s, 7 + i)>>], LAMBDA tail : tail[2] # 0)

stage_avg_ns(s) == IF s.count = 0 THEN 0 ELSE s.total_ns \div s.count

stage_snapshot_add(a, b) ==
    [count |-> a.count + b.count, total_ns |-> a.total_ns + b.total_ns,
     max_ns |-> IF b.max_ns > a.max_ns THEN b.max_ns ELSE a.max_ns,
     buckets |-> [i \in 0 .. BUCKETS - 1 |-> a.buckets[i] + b.buckets[i]]]

-----------------------------------------------------------------------------
(* Choosing among stages. *)

stage_observed(ctx, stage) == ctx.totals[stage].count # 0

\* part is at least percent of whole
ShareAtLeast(part, whole, percent) == whole # 0 /\ part * 100 >= whole * percent

\* The pairs of positions 1 .. n that an exchange sort compares, in its order.
Exchanges(n) == SortSeq(SetToSeq({p \in (1 .. n) \X (1 .. n) : p[1] < p[2]}),
                        LAMBDA p, q : p[1] < q[1] \/ (p[1] = q[1] /\ p[2] < q[2]))

exchanged(order, i, j) == [order EXCEPT ![i] = order[j], ![j] = order[i]]

sort_stages_by_total(totals) ==
    LET observed == SelectSeq([i \in Stages |-> i], LAMBDA s : totals[s].count # 0)
    IN  FoldLeft(LAMBDA order, p : IF totals[order[p[2]]].total_ns > totals[order[p[1]]].total_ns
                                   THEN exchanged(order, p[1], p[2]) ELSE order,
                 observed, Exchanges(Len(observed)))

\* The first stage of the sequence with the largest positive value, or 0.
FirstLargest(seq, value) ==
    LET best == {i \in DOMAIN seq : /\ value[seq[i]] > 0
                                    /\ \A j \in DOMAIN seq : value[seq[j]] <= value[seq[i]]
                                    /\ \A j \in 1 .. i - 1 : value[seq[j]] < value[seq[i]]}
    IN  IF best = {} THEN 0 ELSE seq[CHOOSE i \in best : TRUE]

find_slowest_stage(totals) ==
    FirstLargest([i \in 1 .. STAGE_COUNT - 1 |-> i + 1],
                 [s \in Stages |-> IF totals[s].count # 0 THEN totals[s].max_ns ELSE 0])

find_largest_named_stage(ctx, rows) ==
    FirstLargest(rows, [s \in Stages |-> IF stage_observed(ctx, s) THEN ctx.totals[s].total_ns ELSE 0])

-----------------------------------------------------------------------------
(* The helpers, attributed to the phase that called them. *)

ByDriver(helper, part) == <<Named(<<"evaluation", helper, part>>), Named(<<"response", helper, part>>)>>

helper_rows ==
    <<ByDriver("mime_detection", "total"), ByDriver("mime_detection", "fast_classification"),
      ByDriver("mime_detection", "gather_elf"), ByDriver("mime_detection", "libmagic_fallback"),
      ByDriver("trust_db_lookup", "total"), ByDriver("trust_db_lookup", "read"),
      ByDriver("trust_db_lookup", "lock_wait"),
      <<Named(<<"evaluation", "hash_ima", "total">>)>>, <<Named(<<"evaluation", "hash_sha", "total">>)>>,
      <<Named(<<"evaluation", "proc_detail_lookup">>)>> >>

MIME_TOTAL == 1
MIME_FAST == 2
MIME_GATHER == 3
MIME_LIBMAGIC == 4
TRUST_READ == 6
TRUST_LOCK == 7
helper_total_rows == <<MIME_TOTAL, 5, 8, 9, 10>>

helper_snapshot(ctx, row) ==
    FoldLeft(LAMBDA sum, s : stage_snapshot_add(sum, ctx.totals[s]), Nothing, helper_rows[row])

find_largest_helper(ctx) ==
    FirstLargest(helper_total_rows, [row \in DOMAIN helper_rows |-> helper_snapshot(ctx, row).total_ns])

\* evaluation and response side by side
write_helper_by_driver(ctx) ==
    SelectSeq([r \in DOMAIN helper_rows |-> r],
              LAMBDA r : Len(helper_rows[r]) = 2 /\ helper_snapshot(ctx, r).count # 0)

\* the rows of the combined table, with the average and the time per decision
write_lazy_helpers(ctx) ==
    LET seen == SelectSeq([r \in DOMAIN helper_rows |-> r], LAMBDA r : helper_snapshot(ctx, r).count # 0)
    IN  [i \in DOMAIN seen |->
            LET s == helper_snapshot(ctx, seen[i])
            IN  <<seen[i], stage_avg_ns(s), IF ctx.decisions = 0 THEN 0 ELSE s.total_ns \div ctx.decisions>>]

-----------------------------------------------------------------------------
(* The findings. *)

\* Debug formatting is at least half of the response time.
FormattingDominates(ctx) ==
    ShareAtLeast(ctx.totals[SYSLOG_DEBUG_FORMAT].total_ns, ctx.totals[RESPONSE_TOTAL].total_ns, 50)

write_response_observation(ctx) ==
    /\ stage_observed(ctx, RESPONSE_TOTAL) /\ stage_observed(ctx, SYSLOG_DEBUG_FORMAT)
    /\ FormattingDominates(ctx)

write_tldr_response(ctx) == write_response_observation(ctx)

\* Decisions per second of work at least twice those per second of the run.
write_idle_observation(ctx) ==
    LET busy == ctx.totals[STAGE_TOTAL].total_ns
    IN  ctx.duration_ns # 0 /\ busy # 0 /\ ctx.decisions # 0 /\ ctx.duration_ns >= 2 * busy

FullerThan(ctx, percent) == ctx.max_queue_depth * 100 >= ctx.q_size * percent

ShortWait(ctx) == percentile_bucket_index(ctx.totals[STAGE_QUEUE_WAIT], 95) <= 4

write_queueing_observation(ctx) ==
    IF ~stage_observed(ctx, STAGE_QUEUE_WAIT) THEN "none"
    ELSE IF ctx.q_size = 0 THEN "measured"
    ELSE IF ctx.max_queue_depth <= 1 THEN "minimal"
    ELSE IF ~FullerThan(ctx, 25) /\ ShortWait(ctx) THEN "low"
    ELSE IF ~FullerThan(ctx, 50) THEN "moderate"
    ELSE IF ~FullerThan(ctx, 80) THEN "significant"
    ELSE "capacity"

write_tldr_queueing(ctx) ==
    IF ~stage_observed(ctx, STAGE_QUEUE_WAIT) THEN "none"
    ELSE IF ctx.q_size = 0 THEN "measured"
    ELSE IF ~FullerThan(ctx, 25) /\ ShortWait(ctx) THEN "healthy"
    ELSE "pressure"

\* The fallback takes at least as long as the other parts of MIME detection.
FallbackLargest(ctx) ==
    LET fallback == helper_snapshot(ctx, MIME_LIBMAGIC) IN
    /\ fallback.count # 0
    /\ fallback.total_ns >= helper_snapshot(ctx, MIME_FAST).total_ns
    /\ fallback.total_ns >= helper_snapshot(ctx, MIME_GATHER).total_ns

write_mime_observations(ctx) ==
    IF helper_snapshot(ctx, MIME_TOTAL).count = 0 THEN {}
    ELSE (IF find_largest_helper(ctx) = MIME_TOTAL THEN {"largest"} ELSE {})
         \union (IF helper_snapshot(ctx, MIME_LIBMAGIC).count = 0 THEN {}
                 ELSE IF FallbackLargest(ctx) THEN {"fallback largest"} ELSE {"fallback share"})

write_tldr_mime(ctx) ==
    IF helper_snapshot(ctx, MIME_TOTAL).count = 0 \/ find_largest_helper(ctx) # MIME_TOTAL THEN {}
    ELSE {"largest"} \union (IF FallbackLargest(ctx) THEN {"fallback largest"} ELSE {})

\* in fewer than a tenth of the decisions
write_hash_observation(ctx, stage) ==
    /\ stage_observed(ctx, stage) /\ ctx.decisions # 0
    /\ ctx.totals[stage].count * 100 < 10 * ctx.decisions

\* Waiting for the lock is at most one percent of reading.
write_trust_db_observation(ctx) ==
    LET lock == helper_snapshot(ctx, TRUST_LOCK)
        read == helper_snapshot(ctx, TRUST_READ)
    IN  lock.count # 0 /\ read.count # 0 /\ read.total_ns # 0 /\ lock.total_ns * 100 <= read.total_ns

\* An empty TL;DR says that there is no dominant finding.
write_tldr(ctx) ==
    [mime |-> write_tldr_mime(ctx), response |-> write_tldr_response(ctx),
     queueing |-> write_tldr_queueing(ctx)]

write_derived_observations(ctx) ==
    [queueing |-> write_queueing_observation(ctx), idle |-> write_idle_observation(ctx),
     response |-> write_response_observation(ctx), mime |-> write_mime_observations(ctx),
     hash |-> {h \in {<<"evaluation", "hash_ima", "total">>, <<"evaluation", "hash_sha", "total">>} :
                  write_hash_observation(ctx, Named(h))},
     trust |-> write_trust_db_observation(ctx)]

-----------------------------------------------------------------------------
(* The stages with observations above 10ms. *)

tail_stage_is_parent(parent, child) ==
    LET prefix == Front(parent) IN Last(parent) = "total" /\ IsStrictPrefix(prefix, child)

\* The counts differ by at most five percent.
tail_counts_near(a, b) ==
    LET high == IF a > b THEN a ELSE b
        low == IF a > b THEN b ELSE a
    IN  a # 0 /\ b # 0 /\ (high - low) * 100 <= high * 5

tail_row_duplicate(selected, row) ==
    \E i \in DOMAIN selected :
        LET other == selected[i] IN
        /\ tail_counts_near(other.over_10ms, row.over_10ms)
        /\ \/ tail_stage_is_parent(stage_names[other.stage], stage_names[row.stage])
           \/ tail_stage_is_parent(stage_names[row.stage], stage_names[other.stage])

\* by the count above 10ms, the count above 50ms, the time, and the stage
sort_tail_rows(ctx, rows) ==
    LET key(r) == <<r.over_10ms, r.over_50ms, ctx.totals[r.stage].total_ns, - r.stage>>
    IN  SortSeq(rows, LAMBDA a, b : \E i \in 1 .. 4 : /\ key(a)[i] > key(b)[i]
                                                    /\ \A j \in 1 .. i - 1 : key(a)[j] = key(b)[j])

TailRows(ctx) ==
    LET rows == [s \in Stages |-> [stage |-> s, over_10ms |-> bucket_count_above(ctx.totals[s], 8),
                                   over_50ms |-> bucket_count_above(ctx.totals[s], 10)]]
    IN  sort_tail_rows(ctx, SelectSeq(rows, LAMBDA r : r.over_10ms # 0))

\* Mutant: past the limit every row is dropped.
PastLimit_Always(selected, row) == Len(selected) >= TAIL_STAGE_LIMIT

\* Past the limit only the rows with a tail above 50ms are taken.
PastLimit(selected, row) == Len(selected) >= TAIL_STAGE_LIMIT /\ row.over_50ms = 0

write_stage_tail_summary(ctx) ==
    FoldLeft(LAMBDA selected, row : IF PastLimit(selected, row) \/ tail_row_duplicate(selected, row)
                                    THEN selected ELSE Append(selected, row),
             <<>>, TailRows(ctx))

-----------------------------------------------------------------------------
(* The other sections. *)

write_overall_latency(total) ==
    IF total.count = 0 THEN <<>>
    ELSE <<stage_avg_ns(total), total.max_ns, [p \in {50, 95, 99} |-> percentile_bucket_index(total, p)],
           IF sample_has_tail(total) THEN write_tail_counts(total) ELSE <<>> >>

write_queueing(ctx) ==
    LET queue == ctx.totals[STAGE_QUEUE_WAIT]
    IN  IF queue.count = 0 THEN <<ctx.max_queue_depth>>
        ELSE <<ctx.max_queue_depth, stage_avg_ns(queue), queue.max_ns, percentile_bucket_index(queue, 95)>>

\* the smallest and the largest number of decisions of a worker
write_worker_skew(ctx) ==
    LET counts == {ctx.workers[w][STAGE_TOTAL].count : w \in DOMAIN ctx.workers}
        max == CHOOSE m \in counts : \A c \in counts : c <= m
        min == CHOOSE m \in counts : \A c \in counts : m <= c
    IN  IF Len(ctx.workers) <= 1 \/ max = 0 THEN <<>> ELSE <<min, max, max - min>>

phases == <<EVENT_BUILD, RULE_EVALUATION, RESPONSE_TOTAL>>
daemon_phases == <<EVENT_BUILD, RULE_EVALUATION>>

\* the phases observed, and whether the response is marked as debug-heavy
write_phase_timing(ctx) ==
    LET seen == SelectSeq(phases, LAMBDA s : stage_observed(ctx, s))
    IN  [i \in DOMAIN seen |-> <<seen[i], seen[i] = RESPONSE_TOTAL /\ FormattingDominates(ctx)>>]

write_not_observed(ctx) == {s \in Stages \ {STAGE_TOTAL} : ~stage_observed(ctx, s)}

\* With a debug-heavy response the largest of the other phases is named as well.
write_notes(ctx) ==
    LET phase == find_largest_named_stage(ctx, phases)
    IN  [queued |-> stage_observed(ctx, STAGE_QUEUE_WAIT), helper |-> find_largest_helper(ctx),
         phase |-> phase,
         daemon_phase |-> IF phase = RESPONSE_TOTAL /\ FormattingDominates(ctx)
                          THEN find_largest_named_stage(ctx, daemon_phases) ELSE 0,
         slowest |-> find_slowest_stage(ctx.totals)]

\* write_timing_report(): the blocks of the workers, added up
Context(workers, duration_ns, max_queue_depth, q_size) ==
    LET totals == [s \in Stages |-> FoldLeft(LAMBDA sum, w : stage_snapshot_add(sum, w[s]), Nothing, workers)]
    IN  [totals |-> totals, workers |-> workers, order |-> sort_stages_by_total(totals),
         decisions |-> totals[STAGE_TOTAL].count, duration_ns |-> duration_ns,
         max_queue_depth |-> max_queue_depth, q_size |-> q_size]

write_report_sections(ctx) ==
    [tldr |-> write_tldr(ctx), latency |-> write_overall_latency(ctx.totals[STAGE_TOTAL]),
     queueing |-> write_queueing(ctx), skew |-> write_worker_skew(ctx),
     phases |-> write_phase_timing(ctx), drivers |-> write_helper_by_driver(ctx),
     helpers |-> write_lazy_helpers(ctx), observations |-> write_derived_observations(ctx),
     table |-> ctx.order, tail |-> write_stage_tail_summary(ctx),
     unobserved |-> write_not_observed(ctx), notes |-> write_notes(ctx)]

-----------------------------------------------------------------------------
\* The bucket given for a percentile is the first one that this share of the
\* observations does not exceed.
PercentileExact(s) ==
    \A p \in {1, 50, 95, 99, 100} :
        LET b == percentile_bucket_index(s, p) IN
        s.count # 0 => /\ bucket_cumulative_count(s, b) * 100 >= s.count * p
                       /\ b > 0 => bucket_cumulative_count(s, b - 1) * 100 < s.count * p

\* No stage with observations above 50ms is missing from the tail summary,
\* unless its parent or child with nearly the same count is there, and the rows
\* beyond the limit all have some.
TailComplete(ctx) ==
    LET selected == write_stage_tail_summary(ctx)
        rows == TailRows(ctx)
    IN  /\ \A i \in DOMAIN rows : rows[i].over_50ms # 0 =>
               \E j \in DOMAIN selected : selected[j] = rows[i] \/ tail_row_duplicate(<<selected[j]>>, rows[i])
        /\ \A j \in DOMAIN selected : j > TAIL_STAGE_LIMIT => selected[j].over_50ms # 0

\* The stage table ranks every observed stage once, by its total time.
TableRanked(ctx) ==
    /\ ToSet(ctx.order) = {s \in Stages : stage_observed(ctx, s)}
    /\ \A i \in 1 .. Len(ctx.order) - 1 :
           ctx.totals[ctx.order[i]].total_ns >= ctx.totals[ctx.order[i + 1]].total_ns

\* What the TL;DR at the top of the report claims, the observations below it
\* say too: the two are worked out by different code.
SummaryAgrees(ctx) ==
    LET report == write_report_sections(ctx) IN
    /\ report.tldr.mime \subseteq report.observations.mime
    /\ report.tldr.response = report.observations.response
    /\ report.tldr.queueing = "healthy" => report.observations.queueing \in {"minimal", "low"}
    /\ report.tldr.mime # {} => report.notes.helper = MIME_TOTAL

\* The report of a timing run is a true and consistent account of what was
\* recorded: percentiles, tail summary, stage table and findings.
ReportTrue(ctx) ==
    /\ \A s \in Stages : stage_observed(ctx, s) => PercentileExact(ctx.totals[s])
    /\ TailComplete(ctx) /\ TableRanked(ctx) /\ SummaryAgrees(ctx)

=============================================================================
