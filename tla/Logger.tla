-------------------------------- MODULE Logger --------------------------------
(* library/message.c: the asynchronous log of the daemon.  Threads put their  *)
(* messages in a ring of slots, one drain thread writes them out, and         *)
(* message_async_stop() (an atexit handler) ends the drain thread, or gives   *)
(* up waiting for it when the log it writes to hangs.                         *)
(*                                                                            *)
(* A message is the number of the msg() call, so the ring, what was written   *)
(* and what was dropped can be compared.  The mode is syslog or stderr, and   *)
(* the priority one that is not filtered out.                                 *)
EXTENDS Integers, Sequences, FiniteSets

CONSTANTS
    Threads,            \* threads that call msg()
    LOG_QUEUE_DEPTH,
    MaxMessages         \* bound: calls of msg()

VARIABLES
    log_state, log_ring, log_sem, log_dropped,
    destroyed,          \* sem_destroy() was called
    l_pc, slot,         \* where the drain thread stands, and its copy of a slot
    s_pc,               \* where the thread that starts and stops the log stands
    t_pc, t_msg,        \* where each thread stands in msg(), and its message
    sent,               \* history: calls of msg()
    queued,             \* history: messages that were put in the ring, in order
    written,            \* history: messages the drain thread wrote, in order
    direct,             \* history: messages handed to msg_direct_deliver()
    told,               \* history: drops reported in the log
    misused             \* history: the semaphore was used after its destruction

ring == <<log_ring, log_sem, log_dropped, queued>>
drain == <<l_pc, slot, written, told>>
threads == <<t_pc, t_msg, sent, direct>>
lg_vars == <<log_state, destroyed, s_pc, misused, ring, drain, threads>>

Init ==
    /\ log_state = "OFF" /\ log_ring = <<>> /\ log_sem = 0 /\ log_dropped = 0
    /\ destroyed = FALSE /\ l_pc = "none" /\ slot = 0 /\ s_pc = "startup"
    /\ t_pc = [t \in Threads |-> "out"] /\ t_msg = [t \in Threads |-> 0] /\ sent = 0
    /\ queued = <<>> /\ written = <<>> /\ direct = {} /\ told = 0 /\ misused = FALSE

-----------------------------------------------------------------------------
(* msg(), by any thread, the state of the log read without the lock. *)

msg(t) ==
    /\ t_pc[t] = "out" /\ sent < MaxMessages
    /\ sent' = sent + 1
    /\ IF log_state = "RUNNING"
       THEN /\ t_pc' = [t_pc EXCEPT ![t] = "enqueue"]
            /\ t_msg' = [t_msg EXCEPT ![t] = sent + 1]
            /\ UNCHANGED direct
       ELSE direct' = direct \union {sent + 1} /\ UNCHANGED <<t_pc, t_msg>>
    /\ UNCHANGED <<log_state, destroyed, s_pc, misused, ring, drain>>

Accepts == log_state = "RUNNING" /\ Len(log_ring) < LOG_QUEUE_DEPTH

\* log_enqueue() with log_lock held; the post comes before the unlock.
log_enqueue(t) ==
    /\ t_pc[t] = "enqueue"
    /\ IF Accepts
       THEN /\ log_ring' = Append(log_ring, t_msg[t]) /\ queued' = Append(queued, t_msg[t])
            /\ log_sem' = log_sem + 1
            /\ misused' = (misused \/ destroyed)
            /\ UNCHANGED log_dropped
       ELSE log_dropped' = log_dropped + 1 /\ UNCHANGED <<log_ring, queued, log_sem, misused>>
    /\ t_pc' = [t_pc EXCEPT ![t] = "out"]
    /\ t_msg' = [t_msg EXCEPT ![t] = 0]
    /\ UNCHANGED <<log_state, destroyed, s_pc, drain, sent, direct>>

-----------------------------------------------------------------------------
(* log_thread_main() *)

LogWait ==
    /\ l_pc = "wait" /\ log_sem > 0
    /\ log_sem' = log_sem - 1
    /\ l_pc' = "take"
    /\ UNCHANGED <<log_state, destroyed, s_pc, misused, log_ring, log_dropped, queued,
                   slot, written, told, threads>>

\* One slot is copied out under log_lock; 0 is "have == 0".
LogTake ==
    /\ l_pc = "take"
    /\ IF log_ring = <<>> THEN slot' = 0 /\ UNCHANGED log_ring
       ELSE slot' = Head(log_ring) /\ log_ring' = Tail(log_ring)
    /\ l_pc' = "write"
    /\ UNCHANGED <<log_state, destroyed, s_pc, misused, log_sem, log_dropped, queued,
                   written, told, threads>>

LogWrite ==
    /\ l_pc = "write"
    /\ written' = IF slot = 0 THEN written ELSE Append(written, slot)
    /\ l_pc' = "report"
    /\ UNCHANGED <<log_state, destroyed, s_pc, misused, ring, slot, told, threads>>

\* The exchange of the drop counter, when message_rate_limit_allow() allows a
\* report now.
LogReport ==
    /\ l_pc = "report"
    /\ \/ log_dropped > 0 /\ told' = told + log_dropped /\ log_dropped' = 0
       \/ UNCHANGED <<told, log_dropped>>
    /\ l_pc' = "next"
    /\ UNCHANGED <<log_state, destroyed, s_pc, misused, log_ring, log_sem, queued,
                   slot, written, threads>>

\* Mutant: the thread ends as soon as it finds the log being stopped.
LogNext_AtOnce ==
    /\ l_pc = "next"
    /\ l_pc' = IF log_state = "STOPPING" THEN "ended" ELSE "wait"
    /\ slot' = 0
    /\ UNCHANGED <<log_state, destroyed, s_pc, misused, ring, written, told, threads>>

LogNext ==
    /\ l_pc = "next"
    /\ l_pc' = IF slot = 0 /\ log_state = "STOPPING" THEN "ended" ELSE "wait"
    /\ slot' = 0
    /\ UNCHANGED <<log_state, destroyed, s_pc, misused, ring, written, told, threads>>

-----------------------------------------------------------------------------
(* main() starts the log once; exit() stops it. *)

\* The thread runs before the state says so.  A failure leaves the log off.
message_async_start ==
    \/ /\ s_pc = "startup"
       /\ \/ l_pc' = "wait" /\ s_pc' = "created"
          \/ s_pc' = "stopped" /\ UNCHANGED l_pc
       /\ UNCHANGED <<log_state, destroyed, misused, ring, slot, written, told, threads>>
    \/ /\ s_pc = "created"
       /\ log_state' = "RUNNING" /\ s_pc' = "running"
       /\ UNCHANGED <<destroyed, misused, ring, drain, threads>>

\* The state changes under log_lock, the post follows.
StopBegin ==
    /\ s_pc = "running"
    /\ log_state' = "STOPPING" /\ s_pc' = "post"
    /\ UNCHANGED <<destroyed, misused, ring, drain, threads>>

StopPost ==
    /\ s_pc = "post"
    /\ log_sem' = log_sem + 1 /\ s_pc' = "join"
    /\ UNCHANGED <<log_state, destroyed, misused, log_ring, log_dropped, queued, drain, threads>>

\* pthread_timedjoin_np(): the thread has ended, or five seconds are over and
\* the thread and the semaphore are left behind.
StopJoined ==
    /\ s_pc = "join" /\ l_pc = "ended"
    /\ destroyed' = TRUE /\ log_state' = "OFF" /\ s_pc' = "stopped"
    /\ UNCHANGED <<misused, ring, drain, threads>>

StopTimedOut ==
    /\ s_pc = "join" /\ l_pc # "ended"
    /\ log_state' = "OFF" /\ s_pc' = "leaked"
    /\ UNCHANGED <<destroyed, misused, ring, drain, threads>>

Next ==
    \/ \E t \in Threads : msg(t) \/ log_enqueue(t)
    \/ LogWait \/ LogTake \/ LogWrite \/ LogReport \/ LogNext
    \/ message_async_start \/ StopBegin \/ StopPost \/ StopJoined \/ StopTimedOut

Spec == Init /\ [][Next]_lg_vars

-----------------------------------------------------------------------------
\* What the log took it writes, in that order, and no message disappears: each
\* was delivered directly, or is on its way, or is in the log, or is counted in
\* a report of dropped messages or in the counter for the next one.  A stop that
\* joined the drain thread leaves nothing in the ring and nobody uses the
\* semaphore after that.
LogComplete ==
    LET inHand == {t_msg[t] : t \in Threads} \ {0}
        held == IF slot # 0 /\ l_pc = "write" THEN <<slot>> ELSE <<>>
    IN  /\ queued = written \o held \o log_ring
        /\ sent = Cardinality(direct) + Cardinality(inHand) + Len(queued) + log_dropped + told
        /\ destroyed => log_ring = <<>> /\ l_pc = "ended"
        /\ ~misused

=============================================================================
