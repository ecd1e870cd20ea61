------------------------------ MODULE Autosize ------------------------------
(* The size of the trust database's LMDB map (library/database.c): the plan   *)
(* made at startup, before a reload and after MDB_MAP_FULL, the floor that a  *)
(* reload leaves behind, and what becomes of the configuration when a resize  *)
(* fails.  A MiB is PagesPerMb pages; UINT_MAX is the clamp on db_max_size.   *)
EXTENDS Integers, FiniteSetsExt

CONSTANTS
    PagesPerMb, UINT_MAX,
    ActivePages,        \* sizes the trust data may have
    Pinned,             \* pages of dropped generations that readers still hold
    Baselines           \* values of db_max_size in the configuration file

TRUST_DB_ACTIVE_TARGET_PERCENT == 75
TRUST_DB_RELOAD_HIGHWATER_PERCENT == 80
TRUST_DB_SHRINK_TRIGGER_PERCENT == 65
TRUST_DB_SHRINK_HYSTERESIS_PERCENT == 90
TRUST_DB_RELOAD_WORK_FACTOR == 2

VARIABLES
    auto,               \* config->do_auto_db_sizing
    active,             \* pages of the active generation
    highwater,          \* me_last_pgno + 1
    map,                \* the map size of the environment, in MiB
    db_max_size,        \* config->db_max_size
    autosize_reload_floor_mb,
    compaction,         \* startup_compaction_target_mb and _fallback_mb
    before,             \* db_max_size and the floor when the reload began
    inspected,          \* whether the last read_live_lmdb_sizing_state() succeeded
    pc

vars == <<auto, active, highwater, map, db_max_size, autosize_reload_floor_mb,
          compaction, before, inspected, pc>>

NoCompaction == [target |-> 0, fallback |-> 0]

-----------------------------------------------------------------------------
CeilDiv(n, d) == (n + d - 1) \div d
pages_for_percent(pages, percent) == CeilDiv(pages * 100, percent)
percent_of(used, total) == IF total = 0 THEN 0 ELSE (100 * used) \div total
pages_to_mb(pages) == Max({1, Min({UINT_MAX, CeilDiv(pages, PagesPerMb)})})

\* Mutant: sized for the active generation alone.
recommended_mb_OneCopy(pages) ==
    pages_to_mb(pages_for_percent(pages, TRUST_DB_ACTIVE_TARGET_PERCENT) + 1)

\* complete_lmdb_sizing_state()
recommended_mb(pages) ==
    pages_to_mb(Max({pages_for_percent(pages, TRUST_DB_ACTIVE_TARGET_PERCENT),
                     pages_for_percent(pages * TRUST_DB_RELOAD_WORK_FACTOR,
                                       TRUST_DB_RELOAD_HIGHWATER_PERCENT)}) + 1)

autosize_effective_target_mb(mode) ==
    IF mode = "startup" THEN recommended_mb(active)
    ELSE Max({recommended_mb(active), autosize_reload_floor_mb})

autosize_shrink_allowed(size, mode) ==
    LET target == autosize_effective_target_mb(mode) IN
    /\ target < size
    /\ percent_of(active, map * PagesPerMb) < TRUST_DB_SHRINK_TRIGGER_PERCENT
    /\ mode # "startup" =>
          percent_of(highwater, map * PagesPerMb) < TRUST_DB_RELOAD_HIGHWATER_PERCENT
    /\ target * 100 <= size * TRUST_DB_SHRINK_HYSTERESIS_PERCENT

\* apply_autosize_plan(): the new db_max_size.
apply_autosize_plan(size, mode) ==
    LET target == autosize_effective_target_mb(mode) IN
    CASE active = 0 -> size
      [] active # 0 /\ target > size -> target
      [] active # 0 /\ target <= size ->
            IF mode # "preflight" /\ autosize_shrink_allowed(size, mode)
            THEN target ELSE size

\* external: mdb_env_set_mapsize() and mdb_env_open() never map less than the
\* file's high-water mark.
mdb_env_set_mapsize(mb, pages) == Max({mb, CeilDiv(pages, PagesPerMb)})

-----------------------------------------------------------------------------
(* init_database(): an existing database is inspected, a shrink is carried    *)
(* out by a rebuild, and the environment is opened.                           *)

Init ==
    /\ auto \in BOOLEAN /\ active \in ActivePages /\ pc = "off"
    /\ highwater \in {active, 2 * active} /\ db_max_size \in Baselines
    /\ map \in {mdb_env_set_mapsize(m, highwater) : m \in Baselines}
    /\ autosize_reload_floor_mb = 0 /\ compaction = NoCompaction
    /\ before = [size |-> 0, floor |-> 0] /\ inspected = FALSE

mark_startup_compaction_needed(size, current) ==
    IF size < current THEN [target |-> size, fallback |-> current] ELSE NoCompaction

autosize_database_Startup ==
    /\ pc = "off" /\ auto
    /\ LET size == apply_autosize_plan(map, "startup") IN
       /\ db_max_size' = size
       /\ compaction' = mark_startup_compaction_needed(size, map)
    /\ pc' = "open"
    /\ UNCHANGED <<auto, active, highwater, map, autosize_reload_floor_mb, before, inspected>>

\* The size is configured by hand, or the file cannot be inspected.
StartUnsized ==
    /\ pc = "off" /\ pc' = "open"
    /\ UNCHANGED <<auto, active, highwater, map, db_max_size,
                   autosize_reload_floor_mb, compaction, before, inspected>>

\* The database that was opened is rebuilt when it differs from the backends.
AfterStartup == {"idle", "preflight"}

\* compact_trust_database_at_startup()
CompactAtStartup ==
    /\ pc = "open" /\ compaction # NoCompaction
    /\ highwater' = active /\ map' = mdb_env_set_mapsize(db_max_size, active)
    /\ compaction' = NoCompaction /\ pc' \in AfterStartup
    /\ UNCHANGED <<auto, active, db_max_size, autosize_reload_floor_mb, before, inspected>>

CompactAtStartupFails ==
    /\ pc = "open" /\ compaction # NoCompaction
    /\ db_max_size' = compaction.fallback /\ compaction' = NoCompaction
    /\ UNCHANGED <<auto, active, highwater, map, autosize_reload_floor_mb, before, inspected, pc>>

init_db ==
    /\ pc = "open" /\ compaction = NoCompaction
    /\ map' = mdb_env_set_mapsize(db_max_size, highwater) /\ pc' \in AfterStartup
    /\ UNCHANGED <<auto, active, highwater, db_max_size, autosize_reload_floor_mb,
                   compaction, before, inspected>>

-----------------------------------------------------------------------------
(* database_reload_from_backends(), and update_database() from its preflight  *)
(* to the end of the import.                                                  *)

\* The inspection reads the actual map and plans from there.
autosize_database_Live ==
    /\ pc = "idle"
    /\ before' = [size |-> db_max_size, floor |-> autosize_reload_floor_mb]
    /\ IF auto THEN db_max_size' = apply_autosize_plan(map, "live")
       ELSE UNCHANGED db_max_size
    /\ pc' = "resize"
    /\ UNCHANGED <<auto, active, highwater, map, autosize_reload_floor_mb, compaction,
                   inspected>>

\* The file cannot be inspected: the sizes stay, whatever they are.
LiveUninspected ==
    /\ pc = "idle" /\ auto /\ pc' = "preflight"
    /\ before' = [size |-> db_max_size, floor |-> autosize_reload_floor_mb]
    /\ UNCHANGED <<auto, active, highwater, map, db_max_size, autosize_reload_floor_mb,
                   compaction, inspected>>

Resize ==
    /\ pc = "resize" /\ pc' = "preflight"
    /\ IF db_max_size # before.size
       THEN map' = mdb_env_set_mapsize(db_max_size, highwater) ELSE UNCHANGED map
    /\ UNCHANGED <<auto, active, highwater, db_max_size, autosize_reload_floor_mb,
                   compaction, before, inspected>>

\* A failed resize gives up the reload: the old size and floor come back.
ResizeFails ==
    /\ pc = "resize" /\ db_max_size # before.size
    /\ db_max_size' = before.size /\ autosize_reload_floor_mb' = before.floor
    /\ map' = IF db_max_size < before.size
              THEN mdb_env_set_mapsize(before.size, highwater) ELSE map
    /\ pc' = "idle"
    /\ UNCHANGED <<auto, active, highwater, compaction, before, inspected>>

autosize_reload_preflight ==
    /\ pc = "preflight" /\ pc' = "import" /\ inspected' = TRUE
    /\ before' = [size |-> db_max_size, floor |-> autosize_reload_floor_mb]
    /\ LET size == apply_autosize_plan(db_max_size, "preflight") IN
       IF auto /\ size # db_max_size
       THEN db_max_size' = size /\ map' = mdb_env_set_mapsize(size, highwater)
       ELSE UNCHANGED <<db_max_size, map>>
    /\ UNCHANGED <<auto, active, highwater, autosize_reload_floor_mb, compaction>>

\* The open environment cannot be inspected: the import goes on, with the map
\* the reload found.
PreflightUninspected ==
    /\ pc = "preflight" /\ pc' = "import" /\ inspected' = FALSE
    /\ before' = [size |-> db_max_size, floor |-> autosize_reload_floor_mb]
    /\ UNCHANGED <<auto, active, highwater, map, db_max_size,
                   autosize_reload_floor_mb, compaction>>

PreflightFails ==
    /\ pc = "preflight" /\ pc' = "idle" /\ inspected' = TRUE
    /\ auto /\ apply_autosize_plan(db_max_size, "preflight") # db_max_size
    /\ UNCHANGED <<auto, active, highwater, map, db_max_size,
                   autosize_reload_floor_mb, compaction, before>>

Fits(new, pinned) == active + new + pinned <= map * PagesPerMb

Import(new, pinned) ==
    /\ pc \in {"import", "retry"} /\ Fits(new, pinned)
    /\ highwater' = Max({highwater, active + new + pinned}) /\ active' = new
    /\ pc' = "idle"
    /\ UNCHANGED <<auto, map, db_max_size, autosize_reload_floor_mb, compaction, before, inspected>>

autosize_reload_growth_step_mb(mb) == Max({mb + mb \div 4, mb + 1})

\* Mutant: an environment that was inspected is grown from the configured size
\* all the same.
grow_target_mb_FromConfig(seen) ==
    Min({UINT_MAX, Max({autosize_reload_growth_step_mb(db_max_size),
                        IF seen THEN autosize_effective_target_mb("preflight") ELSE 0})})

\* autosize_reload_grow_target_mb(): from the map and the recommendation when
\* the open environment can be inspected, else from the configured size alone.
grow_target_mb(seen) ==
    Min({UINT_MAX,
         IF seen THEN Max({autosize_reload_growth_step_mb(Max({db_max_size, map})),
                           autosize_effective_target_mb("preflight")})
         ELSE autosize_reload_growth_step_mb(db_max_size)})

\* grow_map_after_full(), once per reload.
GrowMapAfterFull(new, pinned) ==
    /\ pc = "import" /\ ~Fits(new, pinned) /\ auto
    /\ inspected' \in BOOLEAN
    /\ db_max_size' = grow_target_mb(inspected')
    /\ map' = mdb_env_set_mapsize(db_max_size', highwater)
    /\ autosize_reload_floor_mb' = Max({autosize_reload_floor_mb, db_max_size'})
    /\ highwater' = Max({highwater, map * PagesPerMb})
    /\ pc' = "retry"
    /\ UNCHANGED <<auto, active, compaction, before>>

\* The map cannot be grown, or is full again: the active generation stays.
ImportFails(new, pinned) ==
    /\ pc \in {"import", "retry"} /\ ~Fits(new, pinned)
    /\ highwater' = Max({highwater, map * PagesPerMb})
    /\ pc' = "idle"
    /\ UNCHANGED <<auto, active, map, db_max_size, autosize_reload_floor_mb,
                   compaction, before, inspected>>

-----------------------------------------------------------------------------
Next ==
    \/ autosize_database_Startup \/ StartUnsized
    \/ CompactAtStartup \/ CompactAtStartupFails \/ init_db
    \/ autosize_database_Live \/ LiveUninspected \/ Resize \/ ResizeFails
    \/ autosize_reload_preflight \/ PreflightUninspected \/ PreflightFails
    \/ \E new \in ActivePages, pinned \in Pinned :
          Import(new, pinned) \/ GrowMapAfterFull(new, pinned) \/ ImportFails(new, pinned)

Spec == Init /\ [][Next]_vars

\* After the preflight of an auto-sized reload that could inspect the open
\* environment, the map has room for the active generation and for a candidate of
\* the same size below the 80 percent mark: the shrinks made before, the resizes
\* that failed and the reloads that went on uninspected never eat into it.
RoomForReload ==
    pc = "import" /\ inspected /\ auto /\ active # 0 /\ map < UINT_MAX =>
        active * TRUST_DB_RELOAD_WORK_FACTOR * 100
            <= map * PagesPerMb * TRUST_DB_RELOAD_HIGHWATER_PERCENT

\* grow_map_after_full() never leaves the retry a smaller map than the attempt
\* that met MDB_MAP_FULL had.  It leaves a larger one when the environment could
\* be inspected, though the configured size may be smaller than the map ("growing
\* from the stale configured value may call mdb_env_set_mapsize() with a size that
\* still does not expand the mapping"), and otherwise when the configured size is
\* that of the map.
RetryExpands ==
    [][pc = "import" /\ pc' = "retry" /\ map < UINT_MAX =>
          /\ map' >= map
          /\ inspected' \/ db_max_size = map => map' > map]_vars

=============================================================================
