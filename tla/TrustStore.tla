----------------------------- MODULE TrustStore -----------------------------
(* What the trust database promises to the threads that use it, without      *)
(* generations, slots, reference counts, locks or files: one content that    *)
(* lookups read, replaced in one step by another whole one, and one content  *)
(* on disk that a killed daemon leaves behind.                               *)
(*                                                                           *)
(* A content is a set of records.  Each variable but serving holds the set   *)
(* of at most one content, and is empty where there is none.                 *)
CONSTANTS
    Workers,
    Records,
    Snapshots       \* what the backends may deliver

VARIABLES
    serving,        \* startup is over and the daemon answers events
    disk,           \* what the database on disk contains
    spare,          \* what it contained before a replacement that may be undone
    view,           \* what a lookup that begins now reads
    reading         \* what each worker's lookup reads

vars == <<serving, disk, spare, view, reading>>

NoLookups == [w \in Workers |-> {}]

Init == serving = FALSE /\ disk = {} /\ spare = {} /\ view = {} /\ reading = NoLookups

\* Startup may do to the file what it needs to; nobody looks yet.
Prepare == ~serving /\ UNCHANGED <<serving, spare, view, reading>>

\* It ends with what the backends delivered, whatever was there before.
Start ==
    /\ ~serving /\ serving' = TRUE
    /\ \E S \in Snapshots : disk' = {S} /\ view' = {S}
    /\ UNCHANGED <<spare, reading>>

\* The process is killed or gives up: the disk stays as it is.
Crash ==
    /\ serving' = FALSE /\ spare' = {} /\ view' = {} /\ reading' = NoLookups
    /\ UNCHANGED disk

Begin(w) ==
    /\ view # {} /\ reading[w] = {}
    /\ reading' = [reading EXCEPT ![w] = view]
    /\ UNCHANGED <<serving, disk, spare, view>>

End(w) ==
    /\ reading[w] # {}
    /\ reading' = [reading EXCEPT ![w] = {}]
    /\ UNCHANGED <<serving, disk, spare, view>>

\* One record is added; of the lookups under way, those that read the content
\* it is added to may or may not see it.
With(content, r) == {S \cup {r} : S \in content}

Store(r) ==
    /\ serving /\ view = disk
    /\ disk' = With(disk, r) /\ view' = disk'
    /\ \E W \in SUBSET {w \in Workers : reading[w] = view} :
          reading' = [w \in Workers |-> IF w \in W THEN With(reading[w], r)
                                        ELSE reading[w]]
    /\ UNCHANGED <<serving, spare>>

\* Another whole content replaces the one on disk.  Lookups notice it with
\* Install, and until then it may be undone.
Replace(S) ==
    /\ serving /\ spare = {}
    /\ disk' = {S} /\ spare' = disk
    /\ UNCHANGED <<serving, view, reading>>

Install ==
    /\ serving /\ view' = disk /\ spare' = {}
    /\ UNCHANGED <<serving, disk, reading>>

\* Lookups are turned away, never one that has begun.
Close ==
    /\ reading = NoLookups
    /\ view' = {}
    /\ UNCHANGED <<serving, disk, spare, reading>>

\* A replacement nobody has read yet is given up; the file may have to stay.
Undo ==
    /\ serving /\ spare # {} /\ view = {}
    /\ spare' = {} /\ disk' \in {disk, spare} /\ view' \in {{}, disk'}
    /\ UNCHANGED <<serving, reading>>

Next ==
    \/ Prepare \/ Start \/ Crash \/ Install \/ Close \/ Undo
    \/ \E w \in Workers : Begin(w) \/ End(w)
    \/ \E r \in Records : Store(r)
    \/ \E S \in Snapshots : Replace(S)

Spec == Init /\ [][Next]_vars

-----------------------------------------------------------------------------
Complete(content) == \A S \in content : \E T \in Snapshots : T \subseteq S

\* While the daemon serves there is a whole database on disk, and whatever a
\* lookup reads is whole.
AlwaysWhole ==
    /\ serving => disk # {} /\ Complete(disk)
    /\ Complete(view) /\ Complete(spare)
    /\ \A w \in Workers : Complete(reading[w])

=============================================================================
