---------------------------- MODULE TrustDbStore ----------------------------
(* The trust database, seen as the store it implements (module TrustStore).   *)
EXTENDS TrustDb

\* What the daemon's threads see of all this: the database named by metadata on
\* disk, the one before while a replacement may still be undone, the active
\* generation, and the generation each lookup holds a reference on.
Named(f) == IF f.meta \in DOMAIN f.db THEN {f.db[f.meta]} ELSE {}

Disk == Named(file)
Spare == IF Serving /\ upd.pc \in {"swap", "reopen", "restore"} THEN {upd.kept} ELSE {}
View == IF Serving /\ active # None THEN {Content} ELSE {}
Reading == [w \in Workers |-> IF reader[w].gen = None THEN {}
                              ELSE {file.db[reader[w].gen.name]}]

Store == INSTANCE TrustStore WITH
    serving <- Serving, disk <- Disk, spare <- Spare, view <- View, reading <- Reading

\* The generations implement a store with one content.  A lookup reads, from
\* its begin to its end, the content that was published when it began, with at
\* most records stored meanwhile, however many generations are built, retired,
\* reclaimed or compacted beside it; a new content appears in one step, on disk
\* before it appears to lookups; a crash leaves the disk as it was.
OneContent == Store!Spec

=============================================================================
