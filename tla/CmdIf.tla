------------------------------- MODULE CmdIf -------------------------------
(***************************************************************************)
(* The mlx5 firmware command interface (mlx5/core/cmd.c): command entries, *)
(* their reference counts, the command slots, the two semaphores, and the  *)
(* four parties that may complete an entry: the event queue handler, the   *)
(* waiter or timer that ran out of time, the poller and the flush of the   *)
(* device error path.                                                      *)
(*                                                                         *)
(* A command stands for its mlx5_cmd_work_ent.  Threads: one per command   *)
(* (the blocking caller, or the timeout work of an asynchronous command),  *)
(* WQ (the single-threaded command workqueue), EQ (whoever holds the       *)
(* command event queue's lock) and MGR (the holder of intf_state_mutex).   *)
(* A freed entry keeps its contents, so that a late access is still a step *)
(* of the model; the properties say which accesses may happen.             *)
(***************************************************************************)
EXTENDS Integers, Sequences, FiniteSets

CONSTANTS
    Cmds,       \* commands, each issued at most once
    Async,      \* commands issued with a callback (mlx5_cmd_exec_cb)
    Paged,      \* MANAGE_PAGES commands: page_queue
    Polled,     \* commands issued with mlx5_cmd_exec_polling
    Special,    \* commands with the one opcode that a restriction allows
    NumReg,     \* cmd->max_reg_cmds
    Mode0,      \* cmd->mode once the interface is in use
    SubmitInTime, \* the work handler, its down(sem) included, is faster than the
                \* timeouts of its command
    Script,     \* what the holder of intf_state_mutex does, in order
    WQ, EQ, MGR, None

Ops == {"flush", "restrict", "unrestrict", "events", "polling", "cleanup"}

ASSUME CmdIfAssumption ==
    /\ Async \subseteq Cmds /\ Paged \subseteq Cmds /\ Polled \subseteq Cmds
    /\ Special \subseteq Cmds
    /\ Async \cap (Paged \cup Polled) = {}
    /\ NumReg \in Nat \ {0}
    /\ SubmitInTime \in BOOLEAN
    /\ Mode0 \in {"EVENTS", "POLLING"}
    /\ Script \in Seq(Ops)
    /\ WQ \notin Cmds /\ EQ \notin Cmds /\ MGR \notin Cmds /\ None \notin Cmds
    /\ WQ # EQ /\ WQ # MGR /\ EQ # MGR
    /\ None # WQ /\ None # EQ /\ None # MGR

Slots == 0 .. NumReg
PageSlot == NumReg
NoIdx == -1
Threads == Cmds \cup {WQ, EQ, MGR}

VARIABLES
    \* per entry
    refcnt, idx, pending, done, handling, timer, ret,
    \* struct mlx5_cmd
    queue, sem, pages_sem, bitmask, ent_arr, mode, allowed,
    \* device and firmware
    down, fw, own, eq,
    \* threads: program counter and the locals of the handlers
    pc, frame,
    \* MGR: rest of the script, semaphores taken, slots to visit and held
    script, got, vec, held,
    \* mlx5_async_ctx
    num_inflight,
    \* history: what the issuer was told, callbacks made, commands run by fw
    res, cbs, executed

entVars == <<refcnt, idx, pending, done, handling, timer, ret>>
cmdVars == <<queue, sem, pages_sem, bitmask, ent_arr, mode, allowed>>
fwVars  == <<fw, own, eq>>
thrVars == <<pc, frame>>
mgrVars == <<script, got, vec, held>>
hisVars == <<res, cbs, executed>>
vars == <<entVars, cmdVars, down, fwVars, thrVars, mgrVars, num_inflight, hisVars>>

CallerPCs == {"idle", "wait_h", "wait_d", "wait_p", "recover", "rewait",
              "expired", "ret", "end",
              "cb", "t_recover", "t_test", "t_expired", "t_put"}
WorkPCs == {"w_down", "w_idx", "w_noidx", "w_arr", "w_arm", "w_get", "w_check",
            "w_bell", "w_poll"}
CompPCs == {"c_tac", "c_timer", "c_fw", "c_fin", "c_put", "c_cb", "c_up"}
MgrPCs == {"d_take", "d_set", "f_try", "f_up", "a_wait",
           "g_sync", "g_get", "g_comp", "g_put"}
\* Where a completion, and a cmd_ent_put, may return to.
BackPCs == {"idle", "wait_h", "ret", "t_put", "g_comp"}
ContPCs == BackPCs \cup {"end", "c_fw", "c_fin", "c_cb"}
PCs == CallerPCs \cup WorkPCs \cup CompPCs \cup MgrPCs \cup {"free_idx"}

\* The locals of a thread: the entry in hand, the slot and the kind of the
\* completion, the status for the callback, where mlx5_cmd_comp_handler and cmd_ent_put return to, and
\* whether the interrupt or a thread in mlx5_cmd_eq_recover reads the event queue.
NoFrame(t) == [ent |-> IF t \in Cmds THEN t ELSE None, slot |-> 0, type |-> "EVENT",
               err |-> "ok", back |-> "idle", cont |-> "idle", via |-> "recover"]
cur(t) == frame[t].ent

\* mlx5_cmd_init, followed by the load that left the interface up and idle: the
\* mode is Mode0, and the page commands of the load have been answered, which set
\* the page slot's bit in cmd->bitmask for the first time.  None in ent_arr: no
\* entry, or one freed before.
Init ==
    /\ refcnt = [c \in Cmds |-> 0]
    /\ idx = [c \in Cmds |-> NoIdx]
    /\ pending = {} /\ done = {} /\ handling = {}
    /\ timer = [c \in Cmds |-> "off"]
    /\ ret = [c \in Cmds |-> "ok"]
    /\ queue = << >>
    /\ sem = NumReg /\ pages_sem = 1
    /\ bitmask = Slots
    /\ ent_arr = [s \in Slots |-> None]
    /\ mode = Mode0 /\ allowed = "ALL"
    /\ down = FALSE
    /\ fw = [s \in Slots |-> None]
    /\ own = [s \in Slots |-> "SW"]
    /\ eq = << >>
    /\ pc = [t \in Threads |-> "idle"]
    /\ frame = [t \in Threads |-> NoFrame(t)]
    /\ script = Script
    /\ got = 0 /\ vec = {} /\ held = {}
    /\ num_inflight = 1
    /\ res = [c \in Cmds |-> "none"]
    /\ cbs = [c \in Cmds |-> 0]
    /\ executed = {}

-----------------------------------------------------------------------------
(* Helpers shared by the handlers.                                         *)

opcode_allowed(c) == allowed = "ALL" \/ c \in Special
Rejected(c) == down \/ ~opcode_allowed(c)
\* cmd_work_handler has started on c and not yet rung the doorbell.
Submitting(c) == \E t \in Threads : cur(t) = c /\ pc[t] \in WorkPCs \ {"w_poll"}
\* cmd_work_handler polls c and has not handed the result over.
Polling(c) == \E t \in Threads :
    /\ cur(t) = c
    /\ pc[t] = "w_poll" \/ (pc[t] = "c_tac" /\ frame[t].type = "POLLING")
Goto(t, p) == pc' = [pc EXCEPT ![t] = p]

\* t goes on at p; outside mlx5_cmd_comp_handler its locals are dead.
Enter(t, p) ==
    /\ Goto(t, p)
    /\ frame' = [frame EXCEPT ![t] =
                   IF p \in CompPCs THEN [@ EXCEPT !.cont = "idle"] ELSE NoFrame(t)]

\* A call of mlx5_cmd_comp_handler for one slot, returning to p.
CallComp(t, s, type, p) ==
    /\ Goto(t, "c_tac")
    /\ frame' = [frame EXCEPT ![t] = [@ EXCEPT !.slot = s, !.type = type, !.back = p]]

\* refcount_inc and refcount_dec_and_test.  A count that has reached 0 stays
\* there: refcount_t saturates rather than revive or free an object twice.
Inc(n) == IF n > 0 THEN n + 1 ELSE 0
Dec(n) == IF n > 0 THEN n - 1 ELSE 0

LastRef_untested(c) == TRUE
LastRef(c) == refcnt[c] = 1

\* cmd_ent_put by t, which then goes on to p.  The last reference gives the
\* slot back, under alloc_lock, in a step of its own.
cmd_ent_put(t, c, p) ==
    /\ refcnt' = [refcnt EXCEPT ![c] = Dec(@)]
    /\ IF LastRef(c) /\ idx[c] # NoIdx
       THEN /\ Goto(t, "free_idx")
            /\ frame' = [frame EXCEPT ![t] = [@ EXCEPT !.ent = c, !.cont = p]]
       ELSE Enter(t, p)

cmd_free_index(t) ==
    /\ pc[t] = "free_idx"
    /\ bitmask' = bitmask \cup {idx[cur(t)]}
    /\ Enter(t, frame[t].cont)
    /\ UNCHANGED <<entVars, queue, sem, pages_sem, ent_arr, mode, allowed, down,
                   fwVars, mgrVars, num_inflight, hisVars>>

-----------------------------------------------------------------------------
(* cmd_exec and mlx5_cmd_invoke, up to the point where the entry is queued *)
(* or, for the page queue, handled by the caller itself.                   *)

\* atomic_inc of ctx->num_inflight in mlx5_cmd_exec_cb.
Counted_never(c) == 0
Counted(c) == IF c \in Async THEN 1 ELSE 0

cmd_exec(c) ==
    /\ pc[c] = "idle"
    /\ ~Rejected(c)
    /\ refcnt' = [refcnt EXCEPT ![c] = 1]
    /\ IF c \in Paged
       THEN Goto(c, "w_down") /\ handling' = handling \cup {c}
            /\ UNCHANGED queue
       ELSE Goto(c, IF c \in Async THEN "cb" ELSE "wait_h")
            /\ queue' = Append(queue, c) /\ UNCHANGED handling
    /\ num_inflight' = num_inflight + Counted(c)
    /\ UNCHANGED <<idx, pending, done, timer, ret, sem, pages_sem, bitmask, ent_arr,
                   mode, allowed, down, fwVars, frame, mgrVars, hisVars>>

\* The interface is down or the opcode is not allowed: nothing is allocated.
\* "internal" is whatever mlx5_internal_err_ret_value makes of the opcode, which
\* is success for the commands that tear an object down.  The asynchronous commands
\* (CREATE_MKEY, DevX queries) are not among those, so mlx5_cmd_exec_cb takes back
\* what it added to num_inflight.
cmd_exec_rejected(c) ==
    /\ pc[c] = "idle"
    /\ Rejected(c)
    /\ res' = [res EXCEPT ![c] = "internal"]
    /\ Goto(c, "end")
    /\ UNCHANGED <<entVars, cmdVars, down, fwVars, frame, mgrVars, num_inflight,
                   cbs, executed>>

\* A message or the entry cannot be allocated.
cmd_exec_nomem(c) ==
    /\ pc[c] = "idle"
    /\ ~Rejected(c)
    /\ res' = [res EXCEPT ![c] = "nomem"]
    /\ Goto(c, "end")
    /\ UNCHANGED <<refcnt, idx, pending, done, handling, timer, ret, cmdVars, down,
                   fwVars, frame, mgrVars, num_inflight, cbs, executed>>

-----------------------------------------------------------------------------
(* cmd_work_handler, run by WQ or, for a page command, by its caller.      *)

AfterWork(t) == IF t = WQ THEN "idle" ELSE "wait_h"

work_start ==
    /\ pc[WQ] = "idle" /\ queue # << >>
    /\ frame' = [frame EXCEPT ![WQ].ent = Head(queue)]
    /\ queue' = Tail(queue)
    /\ handling' = handling \cup {Head(queue)}
    /\ Goto(WQ, "w_down")
    /\ UNCHANGED <<refcnt, idx, pending, done, timer, ret, sem, pages_sem, bitmask,
                   ent_arr, mode, allowed, down, fwVars, mgrVars, num_inflight,
                   hisVars>>

work_down(t) ==
    /\ pc[t] = "w_down"
    /\ IF cur(t) \in Paged
       THEN pages_sem > 0 /\ pages_sem' = pages_sem - 1 /\ UNCHANGED sem
       ELSE sem > 0 /\ sem' = sem - 1 /\ UNCHANGED pages_sem
    /\ Goto(t, "w_idx")
    /\ UNCHANGED <<entVars, queue, bitmask, ent_arr, mode, allowed, down, fwVars,
                   frame, mgrVars, num_inflight, hisVars>>

FreeReg == bitmask \ {PageSlot}
\* find_first_bit: s is the lowest member of S.
FirstBit(s, S) == s \in S /\ \A r \in S : s <= r

\* cmd_alloc_index_retry finds a slot, or the page command takes its own.
cmd_alloc_index(t) ==
    /\ pc[t] = "w_idx"
    /\ \E s \in Slots :
          /\ IF cur(t) \in Paged THEN s = PageSlot ELSE FirstBit(s, FreeReg)
          /\ idx' = [idx EXCEPT ![cur(t)] = s]
          /\ bitmask' = bitmask \ {s}
    /\ Goto(t, "w_arr")
    /\ UNCHANGED <<refcnt, pending, done, handling, timer, ret, queue, sem,
                   pages_sem, ent_arr, mode, allowed, down, fwVars, frame, mgrVars,
                   num_inflight, hisVars>>

\* One second of retries found no slot: the command fails with -EAGAIN.
alloc_index_failed(t) ==
    /\ pc[t] = "w_idx"
    /\ cur(t) \notin Paged /\ FreeReg = {}
    /\ LET c == cur(t) IN
       IF c \in Async
       THEN /\ cbs' = [cbs EXCEPT ![c] = @ + 1]
            /\ res' = [res EXCEPT ![c] = "again"]
            /\ refcnt' = [refcnt EXCEPT ![c] = Dec(@)]
            /\ num_inflight' = num_inflight - 1
            /\ UNCHANGED <<ret, done>>
       ELSE /\ ret' = [ret EXCEPT ![c] = "again"]
            /\ done' = done \cup {c}
            /\ UNCHANGED <<cbs, res, refcnt, num_inflight>>
    /\ Goto(t, "w_noidx")
    /\ UNCHANGED <<idx, pending, handling, timer, cmdVars, down, fwVars, frame,
                   mgrVars, executed>>

\* up(sem) on the way out of the -EAGAIN path.
AgainUp_not == 0
AgainUp == 1

work_noidx_up(t) ==
    /\ pc[t] = "w_noidx"
    /\ sem' = sem + AgainUp
    /\ Enter(t, AfterWork(t))
    /\ UNCHANGED <<entVars, queue, pages_sem, bitmask, ent_arr, mode, allowed, down,
                   fwVars, mgrVars, num_inflight, hisVars>>

\* cmd->ent_arr[ent->idx] = ent and the descriptor, owned by the hardware.
work_arr(t) ==
    /\ pc[t] = "w_arr"
    /\ ent_arr' = [ent_arr EXCEPT ![idx[cur(t)]] = cur(t)]
    /\ own' = [own EXCEPT ![idx[cur(t)]] = "HW"]
    /\ Goto(t, "w_arm")
    /\ UNCHANGED <<entVars, queue, sem, pages_sem, bitmask, mode, allowed, down, fw,
                   eq, frame, mgrVars, num_inflight, hisVars>>

\* The snapshot of the mode, the timer and its reference, PENDING_COMP.  From here
\* on the flush may complete the command ...
work_arm(t) ==
    /\ pc[t] = "w_arm"
    /\ LET c == cur(t) IN
       /\ timer' = IF c \in Async THEN [timer EXCEPT ![c] = "armed"] ELSE timer
       /\ refcnt' = IF c \in Async THEN [refcnt EXCEPT ![c] = Inc(@)] ELSE refcnt
       /\ pending' = pending \cup {c}
    /\ frame' = [frame EXCEPT ![t].type = IF mode = "POLLING" \/ cur(t) \in Polled
                                          THEN "POLLING" ELSE "EVENT"]
    /\ Goto(t, "w_get")
    /\ UNCHANGED <<idx, done, handling, ret, cmdVars, down, fwVars, mgrVars,
                   num_inflight, hisVars>>

\* ... and only then is the reference taken for the firmware's event.
work_get(t) ==
    /\ pc[t] = "w_get"
    /\ refcnt' = [refcnt EXCEPT ![cur(t)] = Inc(@)]
    /\ Goto(t, "w_check")
    /\ UNCHANGED <<idx, pending, done, handling, timer, ret, cmdVars, down, fwVars,
                   frame, mgrVars, num_inflight, hisVars>>

work_check(t) ==
    /\ pc[t] = "w_check"
    /\ IF Rejected(cur(t))
       THEN /\ ret' = [ret EXCEPT ![cur(t)] = "internal"]
            /\ CallComp(t, idx[cur(t)], "FORCED", AfterWork(t))
       ELSE Goto(t, "w_bell") /\ UNCHANGED <<ret, frame>>
    /\ UNCHANGED <<refcnt, idx, pending, done, handling, timer, cmdVars, down,
                   fwVars, mgrVars, num_inflight, hisVars>>

\* The doorbell.  With events, the entry is not used after this point.
work_doorbell(t) ==
    /\ pc[t] = "w_bell"
    /\ fw' = [fw EXCEPT ![idx[cur(t)]] = cur(t)]
    /\ IF frame[t].type = "POLLING" THEN Goto(t, "w_poll") /\ UNCHANGED frame
                                    ELSE Enter(t, AfterWork(t))
    /\ UNCHANGED <<entVars, cmdVars, down, own, eq, mgrVars, num_inflight, hisVars>>

\* poll_timeout: the firmware gave the descriptor back, or time ran out.
work_polled(t) ==
    /\ pc[t] = "w_poll"
    /\ own[idx[cur(t)]] = "SW"
    /\ ret' = [ret EXCEPT ![cur(t)] = "ok"]
    /\ CallComp(t, idx[cur(t)], "POLLING", AfterWork(t))
    /\ UNCHANGED <<refcnt, idx, pending, done, handling, timer, cmdVars, down,
                   fwVars, mgrVars, num_inflight, hisVars>>

work_poll_timeout(t) ==
    /\ pc[t] = "w_poll"
    /\ own[idx[cur(t)]] = "HW"
    /\ ret' = [ret EXCEPT ![cur(t)] = "timeout"]
    /\ CallComp(t, idx[cur(t)], "FORCED", AfterWork(t))
    /\ UNCHANGED <<refcnt, idx, pending, done, handling, timer, cmdVars, down,
                   fwVars, mgrVars, num_inflight, hisVars>>

-----------------------------------------------------------------------------
(* mlx5_cmd_comp_handler for one slot, in the steps another thread can     *)
(* observe: take PENDING_COMP, stop the timer, drop the firmware's         *)
(* reference, hand the result over, give the semaphore back.               *)

\* What test_and_clear_bit(PENDING_COMP) leaves behind.
ClearPending_not(c) == pending
ClearPending(c) == pending \ {c}

\* "continue": the command was completed before (a poller goes on all the same),
\* or an event comes first for a command that is polled.
Skips(t, c) == IF c \in pending THEN c \in Polled /\ frame[t].type = "EVENT"
                                ELSE frame[t].type # "POLLING"

\* The entry is whatever the slot points to; nothing is said of a slot without an
\* entry, which only the flush can meet (see TriggerGetsLive).  A late event ends the firmware's claim.
comp_test_and_clear(t) ==
    /\ pc[t] = "c_tac"
    /\ ent_arr[frame[t].slot] # None
    /\ LET c == ent_arr[frame[t].slot]
           next == IF Skips(t, c) THEN frame[t].back ELSE "c_timer" IN
       /\ pending' = ClearPending(c)
       /\ IF c \notin pending /\ frame[t].type = "EVENT" /\ c \notin Polled
          THEN cmd_ent_put(t, c, next)
          ELSE /\ IF Skips(t, c) THEN Enter(t, next)
                  ELSE Goto(t, next) /\ frame' = [frame EXCEPT ![t].ent = c]
               /\ UNCHANGED refcnt
    /\ UNCHANGED <<idx, done, handling, timer, ret, cmdVars, down, fwVars, mgrVars,
                   num_inflight, hisVars>>

comp_cancel_timer(t) ==
    /\ pc[t] = "c_timer"
    /\ IF timer[cur(t)] = "armed"
       THEN /\ timer' = [timer EXCEPT ![cur(t)] = "off"]
            /\ cmd_ent_put(t, cur(t), "c_fw")
       ELSE Goto(t, "c_fw") /\ UNCHANGED <<timer, refcnt, frame>>
    /\ UNCHANGED <<idx, pending, done, handling, ret, cmdVars, down, fwVars,
                   mgrVars, num_inflight, hisVars>>

\* A real completion, or one that will never come, ends the firmware's claim.
EndsClaim_always(t) == TRUE
EndsClaim(t) == frame[t].type # "FORCED" \/ Rejected(cur(t))

comp_put_fw(t) ==
    /\ pc[t] = "c_fw"
    /\ IF EndsClaim(t)
       THEN cmd_ent_put(t, cur(t), "c_fin")
       ELSE Goto(t, "c_fin") /\ UNCHANGED <<refcnt, frame>>
    /\ UNCHANGED <<idx, pending, done, handling, timer, ret, cmdVars, down, fwVars,
                   mgrVars, num_inflight, hisVars>>

\* The status of the entry; complete(&ent->done) for a blocking caller.
comp_finish(t) ==
    /\ pc[t] = "c_fin"
    /\ LET c == cur(t)
           r == IF ret[c] = "ok" /\ t = MGR THEN "aborted" ELSE ret[c] IN
       /\ ret' = [ret EXCEPT ![c] = r]
       /\ IF c \in Async
          THEN /\ frame' = [frame EXCEPT ![t].err = r]
               /\ Goto(t, "c_put")
               /\ UNCHANGED done
          ELSE /\ done' = done \cup {c}
               /\ Goto(t, "c_up")
               /\ UNCHANGED frame
    /\ UNCHANGED <<refcnt, idx, pending, handling, timer, cmdVars, down, fwVars,
                   mgrVars, num_inflight, hisVars>>

\* "final consumer is done, release and call the user callback"
comp_put(t) ==
    /\ pc[t] = "c_put"
    /\ cmd_ent_put(t, cur(t), "c_cb")
    /\ UNCHANGED <<idx, pending, done, handling, timer, ret, cmdVars, down, fwVars,
                   mgrVars, num_inflight, hisVars>>

\* mlx5_cmd_exec_cb_handler: the user's callback, then num_inflight.
comp_callback(t) ==
    /\ pc[t] = "c_cb"
    /\ cbs' = [cbs EXCEPT ![cur(t)] = @ + 1]
    /\ res' = [res EXCEPT ![cur(t)] = frame[t].err]
    /\ num_inflight' = num_inflight - 1
    /\ Goto(t, "c_up")
    /\ UNCHANGED <<entVars, cmdVars, down, fwVars, frame, mgrVars, executed>>

comp_up(t) ==
    /\ pc[t] = "c_up"
    /\ IF cur(t) \in Paged
       THEN pages_sem' = pages_sem + 1 /\ UNCHANGED sem
       ELSE sem' = sem + 1 /\ UNCHANGED pages_sem
    /\ Enter(t, frame[t].back)
    /\ UNCHANGED <<entVars, queue, bitmask, ent_arr, mode, allowed, down, fwVars,
                   mgrVars, num_inflight, hisVars>>

-----------------------------------------------------------------------------
(* wait_func and the end of mlx5_cmd_invoke and cmd_exec: the caller.      *)

\* The work did not start in time and cancel_work_sync found it queued.
wait_canceled(c) ==
    /\ pc[c] = "wait_h" /\ c \notin handling
    /\ \E i \in DOMAIN queue :
          /\ queue[i] = c
          /\ queue' = SubSeq(queue, 1, i - 1) \o SubSeq(queue, i + 1, Len(queue))
    /\ ret' = [ret EXCEPT ![c] = "canceled"]
    /\ Goto(c, "ret")
    /\ UNCHANGED <<refcnt, idx, pending, done, handling, timer, sem, pages_sem,
                   bitmask, ent_arr, mode, allowed, down, fwVars, frame, mgrVars,
                   num_inflight, hisVars>>

\* The kind of wait depends on the mode at this moment.
wait_handled(c) ==
    /\ pc[c] = "wait_h" /\ c \in handling
    /\ Goto(c, IF mode = "POLLING" \/ c \in Polled THEN "wait_p" ELSE "wait_d")
    /\ UNCHANGED <<entVars, cmdVars, down, fwVars, frame, mgrVars, num_inflight,
                   hisVars>>

wait_done(c) ==
    /\ pc[c] \in {"wait_d", "rewait", "wait_p"} /\ c \in done
    /\ Goto(c, "ret")
    /\ UNCHANGED <<entVars, cmdVars, down, fwVars, frame, mgrVars, num_inflight,
                   hisVars>>

wait_timeout(c) ==
    /\ pc[c] = "wait_d" /\ c \notin done
    /\ SubmitInTime => ~Submitting(c)
    /\ Goto(c, "recover")
    /\ UNCHANGED <<entVars, cmdVars, down, fwVars, frame, mgrVars, num_inflight,
                   hisVars>>

\* mlx5_cmd_eq_recover returns once the event queue has been drained.
EqDrained == eq = << >> /\ pc[EQ] = "idle"

wait_recovered(c) ==
    /\ pc[c] = "recover" /\ EqDrained
    /\ Goto(c, "rewait")
    /\ UNCHANGED <<entVars, cmdVars, down, fwVars, frame, mgrVars, num_inflight,
                   hisVars>>

\* Still no completion after the recovery ...
wait_exec_timeout(c) ==
    /\ pc[c] = "rewait" /\ c \notin done
    /\ SubmitInTime => ~Polling(c)
    /\ Goto(c, "expired")
    /\ UNCHANGED <<entVars, cmdVars, down, fwVars, frame, mgrVars, num_inflight,
                   hisVars>>

\* ent->ret of a command whose time is up.
TimedOut_unset(c) == ret[c]
TimedOut(c) == "timeout"

\* A forced completion by c's own thread; 1UL << -EINVAL selects no slot below 32.
ForceComp(c, p) ==
    IF idx[c] = NoIdx THEN Goto(c, p) /\ UNCHANGED frame
                      ELSE CallComp(c, idx[c], "FORCED", p)

\* ... so the waiter sets -ETIMEDOUT and forces a completion, whatever an event
\* has done in between.
wait_force(c) ==
    /\ pc[c] = "expired"
    /\ ret' = [ret EXCEPT ![c] = TimedOut(c)]
    /\ ForceComp(c, "ret")
    /\ UNCHANGED <<refcnt, idx, pending, done, handling, timer, cmdVars, down,
                   fwVars, mgrVars, num_inflight, hisVars>>

\* err = ent->ret, the caller's put, and the messages freed by cmd_exec.  An
\* aborted command has delivery status ABORTED, which status_to_err maps to 0.
invoke_return(c) ==
    /\ pc[c] = "ret"
    /\ res' = [res EXCEPT ![c] = IF ret[c] = "aborted" THEN "ok" ELSE ret[c]]
    /\ cmd_ent_put(c, c, "end")
    /\ UNCHANGED <<idx, pending, done, handling, timer, ret, cmdVars, down, fwVars,
                   mgrVars, num_inflight, cbs, executed>>

-----------------------------------------------------------------------------
(* cb_timeout_handler: the delayed work of an asynchronous command.        *)

timer_fires(c) ==
    /\ pc[c] = "cb" /\ timer[c] = "armed"
    /\ SubmitInTime => ~Submitting(c)
    /\ timer' = [timer EXCEPT ![c] = "running"]
    /\ Goto(c, "t_recover")
    /\ UNCHANGED <<refcnt, idx, pending, done, handling, ret, cmdVars, down, fwVars,
                   frame, mgrVars, num_inflight, hisVars>>

timer_recovered(c) ==
    /\ pc[c] = "t_recover" /\ EqDrained
    /\ Goto(c, "t_test")
    /\ UNCHANGED <<entVars, cmdVars, down, fwVars, frame, mgrVars, num_inflight,
                   hisVars>>

\* "Maybe got handled by eq recover ?"
Unhandled_inverted(c) == c \notin pending
Unhandled(c) == c \in pending

timer_test(c) ==
    /\ pc[c] = "t_test"
    /\ Goto(c, IF Unhandled(c) THEN "t_expired" ELSE "t_put")
    /\ UNCHANGED <<entVars, cmdVars, down, fwVars, frame, mgrVars, num_inflight,
                   hisVars>>

timer_force(c) ==
    /\ pc[c] = "t_expired"
    /\ ret' = [ret EXCEPT ![c] = TimedOut(c)]
    /\ ForceComp(c, "t_put")
    /\ UNCHANGED <<refcnt, idx, pending, done, handling, timer, cmdVars, down,
                   fwVars, mgrVars, num_inflight, hisVars>>

timer_put(c) ==
    /\ pc[c] = "t_put"
    /\ cmd_ent_put(c, c, "end")
    /\ UNCHANGED <<idx, pending, done, handling, timer, ret, cmdVars, down, fwVars,
                   mgrVars, num_inflight, hisVars>>

-----------------------------------------------------------------------------
(* The firmware (external) and the command event queue.                    *)

\* The firmware finishes a command: the descriptor goes back to software and,
\* when the command event queue exists, an entry is written to it.  A device
\* in error state completes nothing.
fw_complete(s) ==
    /\ ~down /\ fw[s] # None
    /\ fw' = [fw EXCEPT ![s] = None]
    /\ own' = [own EXCEPT ![s] = "SW"]
    /\ executed' = executed \cup {fw[s]}
    /\ eq' = IF mode = "EVENTS" THEN Append(eq, fw[s]) ELSE eq
    /\ UNCHANGED <<entVars, cmdVars, down, thrVars, mgrVars, num_inflight, res,
                   cbs>>

Recovering == \E c \in Cmds : pc[c] \in {"recover", "t_recover"}

\* mlx5_eq_async_int and cmd_comp_notifier, from the interrupt or, for an
\* interrupt that was lost, from a thread in mlx5_cmd_eq_recover.
eq_take(via) ==
    /\ pc[EQ] = "idle" /\ eq # << >>
    /\ via = "irq" \/ Recovering
    /\ eq' = Tail(eq)
    /\ Goto(EQ, "c_tac")
    /\ frame' = [frame EXCEPT ![EQ] = [@ EXCEPT !.slot = idx[Head(eq)], !.via = via]]
    /\ UNCHANGED <<entVars, cmdVars, down, fw, own, mgrVars, num_inflight, hisVars>>

-----------------------------------------------------------------------------
(* MGR: mlx5_cmd_flush on the error path, and the drains of the interface  *)
(* that mlx5_cmd_allowed_opcode and mlx5_cmd_change_mod make.              *)

mgr_next ==
    /\ pc[MGR] = "idle" /\ script # << >> /\ Head(script) # "cleanup"
    /\ IF Head(script) = "flush"
       THEN down' = TRUE /\ Goto(MGR, "f_try")      \* mlx5_enter_error_state
       ELSE Goto(MGR, "d_take") /\ UNCHANGED down
    /\ UNCHANGED <<entVars, cmdVars, fwVars, frame, mgrVars, num_inflight, hisVars>>

\* mlx5_cmd_cleanup_async_ctx.  Its caller sees to it that no command is given
\* to mlx5_cmd_exec_cb meanwhile or afterwards.
cleanup_async_ctx ==
    /\ pc[MGR] = "idle" /\ script # << >> /\ Head(script) = "cleanup"
    /\ \A c \in Async : pc[c] # "idle"
    /\ num_inflight' = num_inflight - 1
    /\ Goto(MGR, "a_wait")
    /\ UNCHANGED <<entVars, cmdVars, down, fwVars, frame, mgrVars, hisVars>>

cleanup_wait ==
    /\ pc[MGR] = "a_wait" /\ num_inflight = 0 /\ script # << >>
    /\ script' = Tail(script)
    /\ Goto(MGR, "idle")
    /\ UNCHANGED <<entVars, cmdVars, down, fwVars, frame, got, vec, held,
                   num_inflight, hisVars>>

\* The next semaphore MGR has to take: max_reg_cmds times sem, then pages_sem.
MgrDown ==
    IF got < NumReg
    THEN sem > 0 /\ sem' = sem - 1 /\ UNCHANGED pages_sem
    ELSE pages_sem > 0 /\ pages_sem' = pages_sem - 1 /\ UNCHANGED sem
\* The down that MGR makes is the last one.
LastDown_regular == got + 1 = NumReg
LastDown == got = NumReg
MgrWouldBlock == IF got < NumReg THEN sem = 0 ELSE pages_sem = 0

drain_down ==
    /\ pc[MGR] = "d_take"
    /\ MgrDown
    /\ got' = got + 1
    /\ Goto(MGR, IF LastDown THEN "d_set" ELSE "d_take")
    /\ UNCHANGED <<entVars, queue, bitmask, ent_arr, mode, allowed, down, fwVars,
                   frame, script, vec, held, num_inflight, hisVars>>

drain_set ==
    /\ pc[MGR] = "d_set" /\ script # << >>
    /\ allowed' = CASE Head(script) = "restrict" -> "SPECIAL"
                    [] Head(script) = "unrestrict" -> "ALL"
                    [] OTHER -> allowed
    /\ mode' = CASE Head(script) = "events" -> "EVENTS"
                 [] Head(script) = "polling" -> "POLLING"
                 [] OTHER -> mode
    /\ Goto(MGR, "f_up")
    /\ UNCHANGED <<entVars, queue, sem, pages_sem, bitmask, ent_arr, down, fwVars,
                   frame, mgrVars, num_inflight, hisVars>>

\* mlx5_cmd_flush: down_trylock, and trigger the completions when it fails.
flush_down ==
    /\ pc[MGR] = "f_try"
    /\ MgrDown
    /\ got' = got + 1
    /\ Goto(MGR, IF LastDown THEN "f_up" ELSE "f_try")
    /\ UNCHANGED <<entVars, queue, bitmask, ent_arr, mode, allowed, down, fwVars,
                   frame, script, vec, held, num_inflight, hisVars>>

flush_trylock_fails ==
    /\ pc[MGR] = "f_try" /\ MgrWouldBlock
    /\ Goto(MGR, "g_sync")
    /\ UNCHANGED <<entVars, cmdVars, down, fwVars, frame, mgrVars, num_inflight,
                   hisVars>>

\* The loop counter of the next drain, and the count pages_sem gets back.
Restart_not == got
Restart == 0
PagesUp_not == 0
PagesUp == 1

mgr_up ==
    /\ pc[MGR] = "f_up" /\ script # << >>
    /\ sem' = sem + NumReg /\ pages_sem' = pages_sem + PagesUp
    /\ got' = Restart /\ script' = Tail(script)
    /\ Goto(MGR, "idle")
    /\ UNCHANGED <<entVars, queue, bitmask, ent_arr, mode, allowed, down, fwVars,
                   frame, vec, held, num_inflight, hisVars>>

\* mlx5_eq_synchronize_cmd_irq waits for a handler that runs in the interrupt.
trigger_sync ==
    /\ pc[MGR] = "g_sync"
    /\ frame[EQ].via # "irq"
    /\ Goto(MGR, "g_get")
    /\ UNCHANGED <<entVars, cmdVars, down, fwVars, frame, mgrVars, num_inflight,
                   hisVars>>

\* The vector of the slots that are taken: ~bitmask.
Taken_free == bitmask
Taken == Slots \ bitmask

\* Under alloc_lock: a reference on the entry of every slot that is taken.
trigger_get ==
    /\ pc[MGR] = "g_get"
    /\ vec' = Taken /\ held' = Taken
    /\ refcnt' = [c \in Cmds |->
                    IF \E s \in Taken : ent_arr[s] = c
                    THEN Inc(refcnt[c]) ELSE refcnt[c]]
    /\ Goto(MGR, "g_comp")
    /\ UNCHANGED <<idx, pending, done, handling, timer, ret, cmdVars, down, fwVars,
                   frame, script, got, num_inflight, hisVars>>

trigger_comp ==
    /\ pc[MGR] = "g_comp"
    /\ \E s \in vec :
          /\ FirstBit(s, vec)
          /\ vec' = vec \ {s}
          /\ CallComp(MGR, s, "FORCED", "g_comp")
    /\ UNCHANGED <<entVars, cmdVars, down, fwVars, script, got, held, num_inflight,
                   hisVars>>

trigger_put ==
    /\ pc[MGR] = "g_comp" /\ vec = {}
    /\ \E s \in held :
          /\ FirstBit(s, held) /\ ent_arr[s] # None
          /\ held' = held \ {s}
          /\ cmd_ent_put(MGR, ent_arr[s], "g_comp")
    /\ UNCHANGED <<idx, pending, done, handling, timer, ret, cmdVars, down, fwVars,
                   script, got, vec, num_inflight, hisVars>>

trigger_end ==
    /\ pc[MGR] = "g_comp" /\ vec = {} /\ held = {}
    /\ Goto(MGR, "f_try")
    /\ UNCHANGED <<entVars, cmdVars, down, fwVars, frame, mgrVars, num_inflight,
                   hisVars>>

-----------------------------------------------------------------------------
Work(t) ==
    \/ work_down(t) \/ cmd_alloc_index(t) \/ alloc_index_failed(t)
    \/ work_noidx_up(t) \/ work_arr(t) \/ work_arm(t) \/ work_get(t)
    \/ work_check(t) \/ work_doorbell(t) \/ work_polled(t) \/ work_poll_timeout(t)

Comp(t) ==
    \/ comp_test_and_clear(t) \/ comp_cancel_timer(t) \/ comp_put_fw(t)
    \/ comp_finish(t) \/ comp_put(t) \/ comp_callback(t) \/ comp_up(t)
    \/ cmd_free_index(t)

\* What a waiter or the timeout work does when it can go on ...
Serve(c) ==
    \/ wait_handled(c) \/ wait_done(c) \/ wait_recovered(c) \/ wait_force(c)
    \/ invoke_return(c)
    \/ timer_recovered(c) \/ timer_test(c) \/ timer_force(c) \/ timer_put(c)

\* ... and what happens when one of its timeouts expires.
Expire(c) ==
    wait_canceled(c) \/ wait_timeout(c) \/ wait_exec_timeout(c) \/ timer_fires(c)

Mgr ==
    \/ mgr_next \/ cleanup_async_ctx \/ cleanup_wait \/ drain_down \/ drain_set
    \/ flush_down \/ flush_trylock_fails \/ mgr_up \/ trigger_sync
    \/ trigger_get \/ trigger_comp \/ trigger_put \/ trigger_end

Next ==
    \/ \E c \in Cmds : cmd_exec(c) \/ cmd_exec_rejected(c) \/ cmd_exec_nomem(c)
                      \/ Serve(c) \/ Expire(c)
    \/ work_start
    \/ \E t \in Threads : Work(t) \/ Comp(t)
    \/ \E s \in Slots : fw_complete(s)
    \/ \E via \in {"irq", "recover"} : eq_take(via)
    \/ Mgr

Spec == Init /\ [][Next]_vars

\* Threads that can run do run.  The firmware may never answer and an interrupt
\* may be lost, but a thread in mlx5_cmd_eq_recover reads the event queue.
StepFairness ==
    /\ \A c \in Cmds : WF_vars(Serve(c))
    /\ \A t \in Threads : WF_vars(Work(t)) /\ WF_vars(Comp(t))
    /\ WF_vars(work_start)
    /\ WF_vars(eq_take("recover"))
    /\ WF_vars(Mgr)

\* Timeouts expire.
TimeFairness == \A c \in Cmds : WF_vars(Expire(c))

FairSpec == Spec /\ StepFairness /\ TimeFairness

\* The error path must not depend on timeouts, which take a minute each.
NoTimeoutSpec == Spec /\ StepFairness

-----------------------------------------------------------------------------
Rets == {"ok", "timeout", "again", "canceled", "internal", "aborted"}

EntType ==
    /\ refcnt \in [Cmds -> Nat]
    /\ idx \in [Cmds -> Slots \cup {NoIdx}]
    /\ pending \subseteq Cmds /\ done \subseteq Cmds /\ handling \subseteq Cmds
    /\ timer \in [Cmds -> {"off", "armed", "running"}]
    /\ ret \in [Cmds -> Rets]

CmdType ==
    /\ queue \in Seq(Cmds)
    /\ sem \in Int /\ pages_sem \in Int
    /\ bitmask \subseteq Slots
    /\ ent_arr \in [Slots -> Cmds \cup {None}]
    /\ mode \in {"EVENTS", "POLLING"} /\ allowed \in {"ALL", "SPECIAL"}
    /\ down \in BOOLEAN

FwType ==
    /\ fw \in [Slots -> Cmds \cup {None}]
    /\ own \in [Slots -> {"HW", "SW"}]
    /\ eq \in Seq(Cmds)

Frames == [ent : Cmds \cup {None}, slot : Slots, type : {"EVENT", "FORCED", "POLLING"},
           err : Rets, back : BackPCs, cont : ContPCs, via : {"irq", "recover"}]

ThrType == pc \in [Threads -> PCs] /\ frame \in [Threads -> Frames]

MgrType ==
    /\ script \in Seq(Ops)
    /\ got \in 0 .. NumReg + 1 /\ num_inflight \in Int
    /\ vec \subseteq Slots /\ held \subseteq Slots

HisType ==
    /\ res \in [Cmds -> Rets \cup {"none", "nomem"}]
    /\ cbs \in [Cmds -> Nat]
    /\ executed \subseteq Cmds

\* Every variable keeps its type; in particular no entry is ever put at a slot
\* outside the command queue, and a drain of the interface (mlx5_cmd_change_mod,
\* mlx5_cmd_flush) starts from scratch each time.
TypeOK == EntType /\ CmdType /\ FwType /\ ThrType /\ MgrType /\ HisType

\* A thread is between taking PENDING_COMP of c and returning its semaphore.
Completing(t, c) ==
    /\ cur(t) = c
    /\ \/ pc[t] \in CompPCs \ {"c_tac"}
       \/ pc[t] = "free_idx" /\ frame[t].cont \in CompPCs

\* c has taken its semaphore and not yet given it back.
InFlight(c) ==
    \/ c \in pending
    \/ \E t \in Threads :
          \/ cur(t) = c /\ pc[t] \in {"w_idx", "w_noidx", "w_arr", "w_arm"}
          \/ Completing(t, c)

\* cmd->sem and cmd->pages_sem neither leak nor gain a count, on whichever path
\* a command ends (event, timeout, -EAGAIN, rejection, flush): what is missing
\* from them is held by the commands in flight and by the thread that drains
\* the interface.
SemaphoreBalance ==
    /\ sem + (IF got > NumReg THEN NumReg ELSE got)
           + Cardinality({c \in Cmds \ Paged : InFlight(c)}) = NumReg
    /\ pages_sem + (IF got > NumReg THEN 1 ELSE 0)
                 + Cardinality({c \in Paged : InFlight(c)}) = 1

\* c still has the slot it was given.
OwnsSlot(c) ==
    /\ idx[c] # NoIdx
    /\ refcnt[c] > 0 \/ \E t \in Threads : pc[t] = "free_idx" /\ cur(t) = c

\* The commands whose slot is theirs alone.  The MANAGE_PAGES commands share one:
\* cmd_work_handler takes it whatever cmd->bitmask says, when pages_sem lets it go
\* on, and pages_sem comes back before the previous owner is done with the slot.
OwnSlotCmds == {c \in Cmds : c \notin Paged \/ \A d \in Paged : d = c}

\* cmd_alloc_index and the last cmd_ent_put keep cmd->bitmask exact for them: a slot
\* belongs to one entry at a time and is marked taken until that entry is gone,
\* also when the issuer gave up on it long ago, and whatever happens meanwhile to
\* the MANAGE_PAGES commands.
SlotExclusive ==
    \A c \in OwnSlotCmds : OwnsSlot(c) =>
        /\ idx[c] \notin bitmask
        /\ \A d \in Cmds \ {c} : OwnsSlot(d) => idx[d] # idx[c]

\* While the firmware may still report c, whether or not its issuer has given up,
\* cmd->ent_arr leads from the slot to c and the slot is not free for another.
KeepsSlot(c) ==
    (\/ \E s \in Slots : fw[s] = c
     \/ \E i \in 1 .. Len(eq) : eq[i] = c)
    => ent_arr[idx[c]] = c /\ idx[c] \notin bitmask

\* A late event for a command with a slot of its own reaches that command and no
\* other: mlx5_cmd_comp_handler cannot take it for the completion of the next
\* command in the slot.
FirmwareClaim == \A c \in OwnSlotCmds : KeepsSlot(c)

\* "only real completion can free the cmd slot": the same of every command.
SlotKept == \A c \in Cmds : KeepsSlot(c)

\* "if we already completed the command, ignore it": event handler, waiter,
\* timer and flush race for PENDING_COMP in mlx5_cmd_comp_handler, and one of
\* them completes the command, once.
CompletedOnce ==
    \A c \in Cmds :
        /\ cbs[c] \in {0, 1}
        /\ c \in done \/ cbs[c] = 1 => c \notin pending
        /\ \A t \in Threads : Completing(t, c) =>
              /\ c \notin pending
              /\ \A u \in Threads \ {t} : ~Completing(u, c)

\* "Upon return all callbacks given to mlx5_cmd_exec_cb() have been called":
\* num_inflight reaches 0, which lets mlx5_cmd_cleanup_async_ctx go on, only
\* when every asynchronous command has had its callback.
CleanupWaits ==
    num_inflight = 0 => \A c \in Async : pc[c] # "idle" => res[c] # "none"

\* mlx5_cmd_exec and mlx5_cmd_exec_cb keep the contract of CmdContract.
Contract == INSTANCE CmdContract WITH
    st <- [c \in Cmds |-> IF res[c] # "none" THEN res[c]
                          ELSE IF pc[c] = "idle" THEN "new" ELSE "issued"]

\* Every step of the command interface is a step of the contract or none at
\* all: a command is answered once, nothing changes the answer afterwards, and
\* success is reported only for a command the firmware executed.  This is for at
\* most one MANAGE_PAGES command: with two, the late event of one that timed out
\* completes the next one in the page slot (see SlotKept).
CommandContract == Contract!Spec

\* Threads that dereference an entry: cmd_work_handler up to the doorbell (or
\* the end of polling) and mlx5_cmd_comp_handler up to complete() or callback.
Uses(t, c) ==
    /\ cur(t) = c
    /\ pc[t] \in (WorkPCs \ {"w_noidx"}) \cup {"c_timer", "c_fw", "c_fin", "c_put"}

\* "release wait_func() so mlx5_cmd_invoke() can make the final ent_put()": the
\* caller's put is the last one, after the completion handler is done with the
\* entry, so nobody works with an entry that was freed.
EntryAliveInUse == \A t \in Threads, c \in Cmds : Uses(t, c) => refcnt[c] > 0

\* "to guarantee pending commands will not get freed in the meanwhile": when
\* mlx5_cmd_trigger_completions takes its references under alloc_lock, every
\* slot that is taken leads to an entry that is alive.
TriggerGetsLive ==
    pc[MGR] = "g_get" =>
        \A s \in Slots \ bitmask : ent_arr[s] # None /\ refcnt[ent_arr[s]] > 0

\* mlx5_cmd_change_mod and mlx5_cmd_allowed_opcode change mode and
\* allowed_opcode only while no command is in flight, so that the snapshot
\* cmd_work_handler took of the mode stays right until the command is done.
DrainIsQuiet == [][mode' # mode \/ allowed' # allowed =>
                     \A c \in Cmds : ~InFlight(c)]_vars

\* Whatever the firmware does, every command is answered: the caller in
\* wait_func returns, the callback runs.
Answered == \A c \in Cmds : (pc[c] # "idle") ~> (res[c] # "none")

\* mlx5_cmd_flush comes to an end and leaves nobody waiting for a device that
\* is in error state, even if no timeout ever expires.
FlushEnds ==
    (pc[MGR] = "f_try") ~>
        (script = << >> /\ \A c \in Cmds : pc[c] # "idle" => res[c] # "none")
=============================================================================
