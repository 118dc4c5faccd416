----------------------------- MODULE CmdIf_once -----------------------------
(***************************************************************************)
(* Event handler, waiter, timer and flush race for a command, and it is    *)
(* completed once: CompletedOnce, for any set of commands and any size of  *)
(* the command queue, while the interface is in event mode.                *)
(*                                                                         *)
(* The right to complete a command is handed on: from its issuer to the    *)
(* work queue, to the thread that submits it, to the PENDING_COMP bit, to  *)
(* the thread that clears the bit.  The invariant says that at any time    *)
(* one of them has it, or the command is finished.                         *)
(*                                                                         *)
(* A command that is finished stays so: the lemmas on that are the first   *)
(* half of the argument about num_inflight, which CmdIf_slots goes on with.*)
(***************************************************************************)
EXTENDS CmdIf_proof

\* Nobody polls: the event queues exist and stay.
EventsOnly ==
    /\ Polled = {} /\ Mode0 = "EVENTS"
    /\ \A i \in 1 .. Len(Script) : Script[i] # "polling"

ModeInv ==
    /\ mode = "EVENTS"
    /\ \A i \in 1 .. Len(script) : script[i] # "polling"

\* No thread polls, and a caller does not come back to where it issues its command.
Local(t) ==
    /\ frame[t].type # "POLLING" /\ pc[t] # "w_poll"
    /\ t \in Cmds =>
          /\ pc[t] = "idle" => cur(t) = t
          /\ pc[t] \in CompPCs => frame[t].back # "idle"
          /\ pc[t] = "free_idx" => /\ frame[t].cont # "idle"
                                   /\ frame[t].cont \in CompPCs => frame[t].back # "idle"

\* What t has in hand: a command to submit or complete ("open"), one it has
\* completed and whose semaphore it has not given back ("up"), or none.
PrepPCs == {"w_down", "w_idx", "w_arr", "w_arm"}
ClaimPCs == {"c_timer", "c_fw", "c_fin", "c_put", "c_cb"}
Stage(t) ==
    IF \/ pc[t] \in PrepPCs \cup ClaimPCs
       \/ pc[t] = "free_idx" /\ frame[t].cont \in ClaimPCs
    THEN "open" ELSE IF pc[t] \in {"c_up", "w_noidx"} THEN "up" ELSE "none"

Holds(t, c) == cur(t) = c /\ Stage(t) # "none"
Queued(c) == \E i \in 1 .. Len(queue) : queue[i] = c
Unfinished(c) == cbs[c] = 0 /\ c \notin done

OnceOf(c) ==
    /\ cbs[c] \in {0, 1}
    /\ pc[c] = "idle" => ~Queued(c) /\ c \notin pending
    /\ Queued(c) => c \notin pending
    /\ pc[c] = "idle" \/ Queued(c) \/ c \in pending =>
          Unfinished(c) /\ \A t \in Threads : ~Holds(t, c)
    /\ \A t \in Threads : cur(t) = c /\ Stage(t) = "open" => Unfinished(c)
    /\ \A t, u \in Threads : Holds(t, c) /\ Holds(u, c) => t = u

QueueInv == \A i, j \in 1 .. Len(queue) : queue[i] = queue[j] => i = j

OnceInv ==
    /\ \A t \in Threads : Local(t)
    /\ QueueInv
    /\ \A c \in Cmds : OnceOf(c)

Inv == TypeInv /\ ModeInv /\ Polled = {} /\ OnceInv

\* No command has run yet.
LEMMA InitOnce == EventsOnly /\ Init => Inv
<1> SUFFICES ASSUME EventsOnly, Init PROVE Inv
    OBVIOUS
<1> USE CmdIfAssumption DEF Init
<1>1. TypeInv
    BY InitType
<1>2. ModeInv /\ Polled = {}
    BY DEF EventsOnly, ModeInv
<1>3. \A t \in Threads : pc[t] = "idle" /\ frame[t] = NoFrame(t) /\ Stage(t) = "none"
    BY DEF Stage, PrepPCs, ClaimPCs
<1>4. \A t \in Threads : Local(t)
    BY <1>3 DEF Local, NoFrame, CompPCs, cur
<1>5. QueueInv /\ \A c \in Cmds : ~Queued(c)
    BY DEF QueueInv, Queued
<1>6. \A c \in Cmds : OnceOf(c)
    BY <1>3, <1>5 DEF OnceOf, Unfinished, Holds
<1> QED
    BY <1>1, <1>2, <1>4, <1>5, <1>6 DEF Inv, OnceInv

-----------------------------------------------------------------------------
(* Steps that hand no command on.                                          *)

\* The step is t's own.
StepOf(t) == \A u \in Threads \ {t} : pc'[u] = pc[u] /\ frame'[u] = frame[u]

\* t keeps what it has in hand, or lets go of it.
Keeps(t) ==
    /\ StepOf(t) /\ Local(t)'
    /\ Stage(t)' = "none" \/ (Stage(t)' = Stage(t) /\ cur(t)' = cur(t))
    /\ t \in Cmds /\ pc'[t] = "idle" => pc[t] = "idle"

\* A step of one thread leaves what the others do alone.
LEMMA OtherLocal ==
    ASSUME Inv, NEW t \in Threads, StepOf(t), Local(t)'
    PROVE  /\ \A u \in Threads : Local(u)'
           /\ \A u \in Threads \ {t} : Stage(u)' = Stage(u) /\ cur(u)' = cur(u)
<1>1. ASSUME NEW u \in Threads \ {t}
      PROVE  Local(u)' /\ Stage(u)' = Stage(u) /\ cur(u)' = cur(u)
  <2>1. pc'[u] = pc[u] /\ frame'[u] = frame[u] /\ Local(u)
    BY DEF StepOf, Inv, OnceInv
  <2> QED
    BY <2>1 DEF Local, Stage, cur
<1> QED
    BY <1>1

\* A thread that completes nothing and hands no command on keeps the invariant.
LEMMA KeepsOnce ==
    ASSUME Inv, NEW t \in Threads, Keeps(t), UNCHANGED <<queue, pending, done, cbs>>
    PROVE  OnceInv'
<1>1. /\ \A u \in Threads : Local(u)'
      /\ \A u \in Threads \ {t} : Stage(u)' = Stage(u) /\ cur(u)' = cur(u)
    BY OtherLocal DEF Keeps
<1>2. \A u \in Threads : Stage(u)' = "none" \/ (Stage(u)' = Stage(u) /\ cur(u)' = cur(u))
    BY <1>1 DEF Keeps
<1>3. QueueInv' /\ \A c \in Cmds : Queued(c)' = Queued(c)
    BY DEF QueueInv, Queued, Inv, OnceInv
<1>4. ASSUME NEW c \in Cmds PROVE OnceOf(c)'
  <2>1. OnceOf(c) /\ Unfinished(c)' = Unfinished(c)
    BY DEF Inv, OnceInv, Unfinished
  <2>2. pc'[c] = "idle" => pc[c] = "idle"
    BY DEF Keeps, StepOf, Threads
  <2>3. \A u \in Threads : Holds(u, c)' => Holds(u, c)
    BY <1>2 DEF Holds
  <2>4. \A u \in Threads : (cur(u) = c /\ Stage(u) = "open")' => cur(u) = c /\ Stage(u) = "open"
    BY <1>2
  <2> QED
    BY <1>3, <2>1, <2>2, <2>3, <2>4 DEF OnceOf
<1> QED
    BY <1>1, <1>3, <1>4 DEF OnceInv

\* Places where a thread has no command in hand and that are not part of a
\* completion; the caller of a command does not go back to "idle".
FreePCs(t) == PCs \ (PrepPCs \cup CompPCs \cup {"free_idx", "w_poll", "w_noidx"}
                     \cup (IF t \in Cmds THEN {"idle"} ELSE {}))

\* A jump between places where a thread completes nothing is such a step.
LEMMA GotoKeeps ==
    ASSUME Inv, NEW t \in Threads, NEW p \in FreePCs(t), Goto(t, p), UNCHANGED frame
    PROVE  Keeps(t)
<1>1. StepOf(t) /\ pc'[t] = p /\ frame'[t] = frame[t]
    BY DEF Inv, TypeInv, TypeOK, ThrType, StepOf, Goto
<1>2. frame[t].type # "POLLING"
    BY DEF Inv, OnceInv, Local
<1>3. Stage(t)' = "none"
    BY <1>1 DEF Stage, FreePCs, ClaimPCs, PrepPCs, CompPCs
<1> QED
    BY <1>1, <1>2, <1>3 DEF Keeps, Local, FreePCs

\* From one place to the next, with the same command in hand.
LEMMA GotoSame ==
    ASSUME Inv, NEW t \in Threads, NEW p, Goto(t, p), UNCHANGED frame,
           \/ pc[t] \in PrepPCs /\ p \in PrepPCs
           \/ pc[t] \in ClaimPCs /\ p \in ClaimPCs
    PROVE  Keeps(t)
<1>1. StepOf(t) /\ pc'[t] = p /\ frame'[t] = frame[t] /\ cur(t)' = cur(t)
    BY DEF Inv, TypeInv, TypeOK, ThrType, StepOf, Goto, cur
<1>2. Stage(t)' = "open" /\ Stage(t) = "open"
    BY <1>1 DEF Stage
<1>3. Local(t)'
  <2>1. Local(t)
    BY DEF Inv, OnceInv
  <2> QED
    BY <1>1, <2>1 DEF Local, PrepPCs, ClaimPCs, CompPCs
<1>4. p # "idle"
    BY DEF PrepPCs, ClaimPCs
<1> QED
    BY <1>1, <1>2, <1>3, <1>4 DEF Keeps

\* So is the start of a function.
LEMMA EnterKeeps ==
    ASSUME Inv, NEW t \in Threads, NEW p \in FreePCs(t), Enter(t, p)
    PROVE  Keeps(t)
<1>1. StepOf(t) /\ pc'[t] = p /\ frame'[t] = NoFrame(t)
    BY DEF Inv, TypeInv, TypeOK, ThrType, StepOf, Enter, Goto, FreePCs
<1>2. NoFrame(t).type = "EVENT"
    BY DEF NoFrame
<1>3. Stage(t)' = "none"
    BY <1>1 DEF Stage, FreePCs, ClaimPCs, PrepPCs, CompPCs
<1> QED
    BY <1>1, <1>2, <1>3 DEF Keeps, Local, FreePCs

\* So is a call of mlx5_cmd_comp_handler, which completes only after its test_and_clear_bit.
LEMMA CallKeeps ==
    ASSUME Inv, NEW t \in Threads, NEW s, NEW y, NEW p,
           CallComp(t, s, y, p), y # "POLLING", t \in Cmds => p # "idle"
    PROVE  Keeps(t)
<1> DEFINE f == [frame[t] EXCEPT !.slot = s, !.type = y, !.back = p]
<1>1. StepOf(t) /\ pc'[t] = "c_tac" /\ frame'[t] = f
    BY DEF Inv, TypeInv, TypeOK, ThrType, StepOf, CallComp, Goto
<1>2. f.type = y /\ f.back = p
    BY DEF Inv, TypeInv, TypeOK, ThrType, Frames
<1>3. Stage(t)' = "none"
    BY <1>1 DEF Stage, ClaimPCs, PrepPCs
<1> HIDE DEF f
<1> QED
    BY <1>1, <1>2, <1>3 DEF Keeps, Local

\* cmd_ent_put outside a completion, and on the command that is being completed.
LEMMA PutKeeps ==
    ASSUME Inv, NEW t \in Threads, NEW c, NEW p \in ContPCs, cmd_ent_put(t, c, p),
           \/ p \in FreePCs(t)
           \/ p \in ClaimPCs /\ pc[t] \in ClaimPCs /\ c = cur(t)
    PROVE  Keeps(t)
<1>0. frame[t] \in Frames /\ Local(t)
    BY DEF Inv, TypeInv, TypeOK, ThrType, OnceInv
<1>1. CASE Enter(t, p) /\ p \in FreePCs(t)
    BY <1>1, EnterKeeps
<1>2. CASE Enter(t, p) /\ p \in ClaimPCs /\ pc[t] \in ClaimPCs /\ c = cur(t)
  <2> DEFINE f == [frame[t] EXCEPT !.cont = "idle"]
  <2>1. p \in CompPCs /\ pc[t] \in CompPCs /\ p # "w_poll"
    BY <1>2 DEF ClaimPCs, CompPCs
  <2>2. StepOf(t) /\ pc'[t] = p /\ frame'[t] = f
    BY <1>2, <2>1 DEF Inv, TypeInv, TypeOK, ThrType, StepOf, Enter, Goto
  <2>3. f.ent = frame[t].ent /\ f.type = frame[t].type /\ f.back = frame[t].back
    BY <1>0 DEF Frames
  <2> HIDE DEF f
  <2>4. Stage(t)' = "open" /\ Stage(t) = "open" /\ cur(t)' = cur(t)
    BY <1>2, <2>2, <2>3 DEF Stage, cur
  <2>5. p # "idle" /\ p # "free_idx"
    BY <1>2 DEF ClaimPCs
  <2> QED
    BY <1>0, <2>1, <2>2, <2>3, <2>4, <2>5 DEF Keeps, Local
<1>3. CASE /\ Goto(t, "free_idx")
           /\ frame' = [frame EXCEPT ![t] = [@ EXCEPT !.ent = c, !.cont = p]]
  <2> DEFINE f == [frame[t] EXCEPT !.ent = c, !.cont = p]
  <2>1. StepOf(t) /\ pc'[t] = "free_idx" /\ frame'[t] = f
    BY <1>3 DEF Inv, TypeInv, TypeOK, ThrType, StepOf, Goto
  <2>2. f.ent = c /\ f.cont = p /\ f.type = frame[t].type /\ f.back = frame[t].back
    BY <1>0 DEF Frames
  <2> HIDE DEF f
  <2>3. CASE p \in FreePCs(t)
    <3>1. p \notin ClaimPCs /\ p \notin CompPCs /\ (t \in Cmds => p # "idle")
      BY <2>3 DEF FreePCs, ClaimPCs, CompPCs
    <3>2. Stage(t)' = "none"
      BY <2>1, <2>2, <3>1 DEF Stage, PrepPCs, ClaimPCs
    <3> QED
      BY <1>0, <2>1, <2>2, <3>1, <3>2 DEF Keeps, Local, CompPCs
  <2>4. CASE p \in ClaimPCs /\ pc[t] \in ClaimPCs /\ c = cur(t)
    <3>1. Stage(t)' = "open" /\ Stage(t) = "open" /\ cur(t)' = cur(t)
      BY <2>1, <2>2, <2>4 DEF Stage, cur
    <3>2. p # "idle" /\ pc[t] \in CompPCs
      BY <2>4 DEF ClaimPCs, CompPCs
    <3> QED
      BY <1>0, <2>1, <2>2, <3>1, <3>2 DEF Keeps, Local, CompPCs
  <2> QED
    BY <2>3, <2>4
<1> QED
    BY <1>1, <1>2, <1>3 DEF cmd_ent_put

\* Places where a thread completes nothing.
LEMMA FreePlaces ==
    /\ \A t \in Threads : {"wait_h", "wait_d", "wait_p", "recover", "rewait", "expired",
                           "ret", "end", "cb", "t_recover", "t_test", "t_expired",
                           "t_put", "w_get", "w_check", "w_bell"}
                          \cup MgrPCs \subseteq FreePCs(t)
    /\ \A t \in {WQ, EQ, MGR} : "idle" \in FreePCs(t)
BY CmdIfAssumption
   DEF FreePCs, PCs, CallerPCs, WorkPCs, CompPCs, MgrPCs, PrepPCs

\* The caller of a command, and the timeout work of an asynchronous one.
LEMMA QuietCaller ==
    ASSUME Inv, NEW c \in Cmds,
           \/ cmd_exec_rejected(c) \/ cmd_exec_nomem(c)
           \/ Serve(c) \/ wait_timeout(c) \/ wait_exec_timeout(c) \/ timer_fires(c)
    PROVE  OnceInv' /\ Keeps(c) /\ UNCHANGED <<queue, pending, done, cbs>>
<1>t. c \in Threads
    BY DEF Threads
<1> DEFINE Still == UNCHANGED <<queue, pending, done, cbs>>
<1> USE DEF entVars, cmdVars, fwVars, mgrVars, hisVars
<1>1. ASSUME cmd_exec_rejected(c) \/ cmd_exec_nomem(c) PROVE Keeps(c) /\ Still
    BY <1>1, <1>t, GotoKeeps, FreePlaces DEF cmd_exec_rejected, cmd_exec_nomem
<1>2. ASSUME wait_handled(c) \/ wait_done(c) \/ wait_recovered(c) \/ timer_recovered(c)
             \/ timer_test(c)
      PROVE  Keeps(c) /\ Still
    BY <1>2, <1>t, GotoKeeps, FreePlaces
       DEF wait_handled, wait_done, wait_recovered, timer_recovered, timer_test
<1>3. ASSUME wait_timeout(c) \/ wait_exec_timeout(c) \/ timer_fires(c)
      PROVE  Keeps(c) /\ Still
    BY <1>3, <1>t, GotoKeeps, FreePlaces DEF wait_timeout, wait_exec_timeout, timer_fires
<1>4. ASSUME wait_force(c) \/ timer_force(c) PROVE Keeps(c) /\ Still
    BY <1>4, <1>t, GotoKeeps, CallKeeps, FreePlaces DEF wait_force, timer_force, ForceComp
<1>5. ASSUME invoke_return(c) \/ timer_put(c) PROVE Keeps(c) /\ Still
    BY <1>5, <1>t, PutKeeps, FreePlaces DEF invoke_return, timer_put, ContPCs
<1>6. Keeps(c) /\ Still
    BY <1>1, <1>2, <1>3, <1>4, <1>5 DEF Serve
<1> QED
    BY <1>t, <1>6, KeepsOnce

\* cmd_work_handler, but for the steps that hand the command on.
LEMMA QuietWork ==
    ASSUME Inv, NEW t \in Threads,
           \/ work_down(t) \/ cmd_alloc_index(t) \/ work_noidx_up(t) \/ work_arr(t)
           \/ work_get(t) \/ work_check(t) \/ work_doorbell(t) \/ work_polled(t)
           \/ work_poll_timeout(t)
    PROVE  OnceInv' /\ Keeps(t) /\ UNCHANGED <<queue, pending, done, cbs>>
<1> DEFINE Still == UNCHANGED <<queue, pending, done, cbs>>
<1> USE DEF entVars, cmdVars, fwVars, mgrVars, hisVars
<1>0. AfterWork(t) \in FreePCs(t) /\ (t \in Cmds => AfterWork(t) # "idle")
    BY CmdIfAssumption, FreePlaces DEF AfterWork
<1>1. ASSUME work_down(t) \/ cmd_alloc_index(t) \/ work_arr(t) PROVE Keeps(t) /\ Still
  <2>1. CASE work_down(t)
    BY <2>1, GotoSame DEF work_down, PrepPCs
  <2>2. CASE cmd_alloc_index(t)
    BY <2>2, GotoSame DEF cmd_alloc_index, PrepPCs
  <2>3. CASE work_arr(t)
    BY <2>3, GotoSame DEF work_arr, PrepPCs
  <2> QED
    BY <1>1, <2>1, <2>2, <2>3
<1>2. ASSUME work_noidx_up(t) PROVE Keeps(t) /\ Still
    BY <1>0, <1>2, EnterKeeps DEF work_noidx_up
<1>3. ASSUME work_check(t) \/ work_get(t) PROVE Keeps(t) /\ Still
  <2>1. CASE work_check(t)
    BY <1>0, <2>1, GotoKeeps, CallKeeps, FreePlaces DEF work_check
  <2>2. CASE work_get(t)
    BY <2>2, GotoKeeps, FreePlaces DEF work_get
  <2> QED
    BY <1>3, <2>1, <2>2
<1>4. ASSUME work_doorbell(t) PROVE Keeps(t) /\ Still
  <2>1. frame[t].type # "POLLING"
    BY DEF Inv, OnceInv, Local
  <2> QED
    BY <1>0, <1>4, <2>1, EnterKeeps DEF work_doorbell
<1>5. ASSUME work_polled(t) \/ work_poll_timeout(t) PROVE FALSE
    BY <1>5 DEF work_polled, work_poll_timeout, Inv, OnceInv, Local
<1>6. Keeps(t) /\ Still
    BY <1>1, <1>2, <1>3, <1>4, <1>5
<1> QED
    BY <1>6, KeepsOnce

\* mlx5_cmd_comp_handler, but for the steps that take and finish a command.
LEMMA QuietComp ==
    ASSUME Inv, NEW t \in Threads,
           \/ comp_cancel_timer(t) \/ comp_put_fw(t) \/ comp_put(t) \/ comp_up(t)
           \/ cmd_free_index(t)
    PROVE  OnceInv' /\ Keeps(t) /\ UNCHANGED <<queue, pending, done, cbs>>
<1> DEFINE Still == UNCHANGED <<queue, pending, done, cbs>>
<1> USE DEF entVars, cmdVars, fwVars, mgrVars, hisVars
<1>0. frame[t] \in Frames /\ Local(t)
    BY DEF Inv, TypeInv, TypeOK, ThrType, OnceInv
<1>1. ASSUME comp_cancel_timer(t) PROVE Keeps(t) /\ Still
    BY <1>1, GotoSame, PutKeeps DEF comp_cancel_timer, ClaimPCs, ContPCs
<1>2. ASSUME comp_put_fw(t) PROVE Keeps(t) /\ Still
    BY <1>2, GotoSame, PutKeeps DEF comp_put_fw, ClaimPCs, ContPCs
<1>3. ASSUME comp_put(t) PROVE Keeps(t) /\ Still
    BY <1>3, PutKeeps DEF comp_put, ClaimPCs, ContPCs
<1>b. \A p \in BackPCs \cup {"end"} : (t \in Cmds => p # "idle") => p \in FreePCs(t)
    BY DEF BackPCs, FreePCs, PCs, CallerPCs, MgrPCs, PrepPCs, CompPCs
<1>4. ASSUME comp_up(t) PROVE Keeps(t) /\ Still
  <2>1. frame[t].back \in BackPCs /\ (t \in Cmds => frame[t].back # "idle")
    BY <1>0, <1>4 DEF comp_up, Local, Frames, CompPCs
  <2> QED
    BY <1>4, <1>b, <2>1, EnterKeeps DEF comp_up
<1>5. ASSUME cmd_free_index(t) PROVE Keeps(t) /\ Still
  <2> DEFINE p == frame[t].cont
  <2>1. p \in ContPCs /\ (t \in Cmds => p # "idle") /\ pc[t] = "free_idx"
    BY <1>0, <1>5 DEF cmd_free_index, Local, Frames
  <2>2. Enter(t, p) /\ Still
    BY <1>5 DEF cmd_free_index
  <2>3. CASE p \notin CompPCs
    BY <1>b, <2>1, <2>2, <2>3, EnterKeeps DEF ContPCs, CompPCs
  <2>4. CASE p \in CompPCs
    <3> DEFINE f == [frame[t] EXCEPT !.cont = "idle"]
    <3>1. StepOf(t) /\ pc'[t] = p /\ frame'[t] = f
      BY <2>2, <2>4 DEF Inv, TypeInv, TypeOK, ThrType, StepOf, Enter, Goto
    <3>2. f.ent = frame[t].ent /\ f.type = frame[t].type /\ f.back = frame[t].back
      BY <1>0 DEF Frames
    <3>3. p \in ClaimPCs
      BY <2>1, <2>4 DEF ContPCs, BackPCs, CompPCs, ClaimPCs
    <3> HIDE DEF f
    <3>4. Stage(t)' = "open" /\ Stage(t) = "open" /\ cur(t)' = cur(t)
      BY <2>1, <3>1, <3>2, <3>3 DEF Stage, cur
    <3>5. p # "idle" /\ p # "free_idx" /\ p # "w_poll"
      BY <3>3 DEF ClaimPCs
    <3> QED
      BY <1>0, <2>1, <2>2, <2>4, <3>1, <3>2, <3>4, <3>5 DEF Keeps, Local
  <2> QED
    BY <2>3, <2>4
<1>6. Keeps(t) /\ Still
    BY <1>1, <1>2, <1>3, <1>4, <1>5
<1> QED
    BY <1>6, KeepsOnce

\* The holder of intf_state_mutex, the firmware and the event queue.
LEMMA QuietMgr ==
    ASSUME Inv, Mgr
    PROVE  OnceInv' /\ Keeps(MGR) /\ UNCHANGED <<queue, pending, done, cbs>>
<1>t. MGR \in Threads /\ MGR \notin Cmds
    BY CmdIfAssumption DEF Threads
<1> DEFINE Still == UNCHANGED <<queue, pending, done, cbs>>
<1> USE DEF entVars, cmdVars, fwVars, mgrVars, hisVars
<1>f. MgrPCs \cup {"idle"} \subseteq FreePCs(MGR)
    BY <1>t, FreePlaces
<1>1. ASSUME \/ mgr_next \/ cleanup_async_ctx \/ cleanup_wait \/ drain_down \/ drain_set
             \/ flush_down \/ flush_trylock_fails \/ mgr_up \/ trigger_sync
             \/ trigger_get \/ trigger_end
      PROVE  (\E p \in MgrPCs \cup {"idle"} : Goto(MGR, p)) /\ UNCHANGED frame /\ Still
  <2>1. CASE mgr_next \/ cleanup_async_ctx \/ cleanup_wait
    BY <2>1 DEF mgr_next, cleanup_async_ctx, cleanup_wait, MgrPCs
  <2>2. CASE drain_down \/ drain_set
    BY <2>2 DEF drain_down, drain_set, MgrPCs
  <2>3. CASE flush_down \/ flush_trylock_fails \/ mgr_up
    BY <2>3 DEF flush_down, flush_trylock_fails, mgr_up, MgrPCs
  <2>4. CASE trigger_sync \/ trigger_get \/ trigger_end
    BY <2>4 DEF trigger_sync, trigger_get, trigger_end, MgrPCs
  <2> QED
    BY <1>1, <2>1, <2>2, <2>3, <2>4
<1>2. ASSUME trigger_comp PROVE Keeps(MGR) /\ Still
    BY <1>2, <1>t, CallKeeps DEF trigger_comp
<1>3. ASSUME trigger_put PROVE Keeps(MGR) /\ Still
    BY <1>3, <1>t, <1>f, PutKeeps DEF trigger_put, ContPCs, BackPCs, MgrPCs
<1>4. Keeps(MGR) /\ Still
    BY <1>1, <1>2, <1>3, <1>t, <1>f, GotoKeeps DEF Mgr
<1> QED
    BY <1>t, <1>4, KeepsOnce

\* The firmware completes a command, and the event queue takes an event.
LEMMA QuietDevice ==
    ASSUME Inv, \/ \E s \in Slots : fw_complete(s)
                \/ \E via \in {"irq", "recover"} : eq_take(via)
    PROVE  OnceInv' /\ Keeps(EQ) /\ UNCHANGED <<queue, pending, done, cbs>>
<1>t. EQ \in Threads /\ EQ \notin Cmds
    BY CmdIfAssumption DEF Threads
<1> DEFINE Still == UNCHANGED <<queue, pending, done, cbs>>
<1> USE DEF entVars, cmdVars, fwVars, thrVars, mgrVars, hisVars
<1>1. ASSUME NEW s \in Slots, fw_complete(s) PROVE Keeps(EQ) /\ Still
  <2>1. UNCHANGED <<pc, frame>> /\ Still
    BY <1>1 DEF fw_complete
  <2>2. Local(EQ)
    BY <1>t DEF Inv, OnceInv
  <2> QED
    BY <1>t, <2>1, <2>2 DEF Keeps, StepOf, Local, Stage, cur
<1>2. ASSUME NEW via \in {"irq", "recover"}, eq_take(via) PROVE Keeps(EQ) /\ Still
  <2> DEFINE f == [frame[EQ] EXCEPT !.slot = idx[Head(eq)], !.via = via]
  <2>1. frame[EQ] \in Frames /\ frame[EQ].type # "POLLING"
    BY <1>t DEF Inv, TypeInv, TypeOK, ThrType, OnceInv, Local
  <2>2. StepOf(EQ) /\ pc'[EQ] = "c_tac" /\ frame'[EQ] = f /\ Still
    BY <1>2, <1>t DEF eq_take, Goto, Inv, TypeInv, TypeOK, ThrType, StepOf
  <2>3. f.type = frame[EQ].type
    BY <2>1 DEF Frames
  <2> HIDE DEF f
  <2>4. Stage(EQ)' = "none"
    BY <2>2 DEF Stage, PrepPCs, ClaimPCs
  <2> QED
    BY <1>t, <2>1, <2>2, <2>3, <2>4 DEF Keeps, Local
<1> QED
    BY <1>1, <1>2, <1>t, KeepsOnce

-----------------------------------------------------------------------------
(* The work queue.                                                         *)

\* queue_work puts a command that is not queued at the end of the queue.
LEMMA AppendQueue ==
    ASSUME queue \in Seq(Cmds), QueueInv, NEW c \in Cmds, ~Queued(c), queue' = Append(queue, c)
    PROVE  QueueInv' /\ \A d \in Cmds \ {c} : Queued(d)' => Queued(d)
<1>1. \A i \in 1 .. Len(queue) : queue[i] # c
    BY DEF Queued
<1>2. /\ Len(queue') = Len(queue) + 1 /\ Len(queue) \in Nat /\ queue'[Len(queue) + 1] = c
      /\ \A i \in 1 .. Len(queue) : queue'[i] = queue[i]
    OBVIOUS
<1>3. QueueInv'
    BY <1>1, <1>2 DEF QueueInv
<1>4. \A d \in Cmds \ {c} : Queued(d)' => Queued(d)
    BY <1>2 DEF Queued
<1> QED
    BY <1>3, <1>4

\* The work queue hands out the command at its head.
LEMMA TailQueue ==
    ASSUME queue \in Seq(Cmds), queue # << >>, QueueInv, NEW c, c = Head(queue),
           queue' = Tail(queue)
    PROVE  /\ QueueInv' /\ Queued(c) /\ ~Queued(c)'
           /\ \A d \in Cmds : Queued(d)' => Queued(d)
<1>1. /\ c = queue[1] /\ Len(queue) \in Nat \ {0}
      /\ Len(Tail(queue)) = Len(queue) - 1
      /\ \A i \in 1 .. Len(queue) - 1 : Tail(queue)[i] = queue[i + 1]
    OBVIOUS
<1>2. Queued(c)
    BY <1>1 DEF Queued
<1>3. QueueInv'
  <2> SUFFICES ASSUME NEW i \in 1 .. Len(queue) - 1, NEW j \in 1 .. Len(queue) - 1,
                      Tail(queue)[i] = Tail(queue)[j]
               PROVE  i = j
    BY <1>1 DEF QueueInv
  <2>1. queue[i + 1] = queue[j + 1]
    BY <1>1
  <2>2. i + 1 \in 1 .. Len(queue) /\ j + 1 \in 1 .. Len(queue)
    BY <1>1
  <2>3. i + 1 = j + 1
    BY <2>1, <2>2 DEF QueueInv
  <2> QED
    BY <2>3
<1>4. ~Queued(c)'
  <2> SUFFICES ASSUME NEW i \in 1 .. Len(queue) - 1, Tail(queue)[i] = c
               PROVE  FALSE
    BY <1>1 DEF Queued
  <2>1. queue[i + 1] = queue[1] /\ i + 1 \in 1 .. Len(queue) /\ 1 \in 1 .. Len(queue)
    BY <1>1
  <2>2. i + 1 = 1
    BY <2>1 DEF QueueInv
  <2> QED
    BY <2>2
<1>5. \A d \in Cmds : Queued(d)' => Queued(d)
  <2> SUFFICES ASSUME NEW i \in 1 .. Len(queue) - 1
               PROVE  \E j \in 1 .. Len(queue) : queue[j] = Tail(queue)[i]
    BY <1>1 DEF Queued
  <2>1. i + 1 \in 1 .. Len(queue) /\ queue[i + 1] = Tail(queue)[i]
    BY <1>1
  <2> QED
    BY <2>1
<1> QED
    BY <1>2, <1>3, <1>4, <1>5

\* A sequence without its k-th element.
LEMMA RemoveAt ==
    ASSUME NEW S, NEW q \in Seq(S), NEW k \in 1 .. Len(q)
    PROVE  /\ Len(SubSeq(q, 1, k - 1) \o SubSeq(q, k + 1, Len(q))) = Len(q) - 1
           /\ \A i \in 1 .. Len(q) - 1 :
                 /\ (IF i < k THEN i ELSE i + 1) \in 1 .. Len(q)
                 /\ (SubSeq(q, 1, k - 1) \o SubSeq(q, k + 1, Len(q)))[i]
                       = q[IF i < k THEN i ELSE i + 1]
<1> DEFINE a == SubSeq(q, 1, k - 1)
           b == SubSeq(q, k + 1, Len(q))
<1>0. Len(q) \in Nat /\ k \in Nat /\ 1 <= k /\ k <= Len(q)
    OBVIOUS
<1>1. /\ a \in Seq(S) /\ Len(a) = k - 1
      /\ \A i \in 1 .. k - 1 : a[i] = q[i]
    OBVIOUS
<1>2. /\ b \in Seq(S)
      /\ Len(b) = IF k + 1 <= Len(q) THEN Len(q) - (k + 1) + 1 ELSE 0
      /\ \A i \in 1 .. Len(q) - (k + 1) + 1 : b[i] = q[k + 1 + i - 1]
  <2>1. k + 1 \in Int /\ Len(q) \in Int /\ \A i \in k + 1 .. Len(q) : q[i] \in S
    OBVIOUS
  <2> QED
    BY <2>1
<1> HIDE DEF a, b
<1>3. Len(b) = Len(q) - k
    BY <1>0, <1>2
<1>4. /\ Len(a \o b) = Len(a) + Len(b)
      /\ \A i \in 1 .. Len(a) + Len(b) :
            (a \o b)[i] = IF i <= Len(a) THEN a[i] ELSE b[i - Len(a)]
  <2>0. a \in Seq(S) /\ b \in Seq(S) /\ Len(a) \in Nat /\ Len(b) \in Nat
    BY <1>1, <1>2
  <2>1. Len(a \o b) = Len(a) + Len(b)
    BY <2>0
  <2>2. ASSUME NEW i \in 1 .. Len(a) PROVE (a \o b)[i] = a[i]
    BY <2>0
  <2>3. ASSUME NEW i \in Len(a) + 1 .. Len(a) + Len(b) PROVE (a \o b)[i] = b[i - Len(a)]
    BY <2>0
  <2> QED
    BY <2>0, <2>1, <2>2, <2>3
<1>5. Len(a \o b) = Len(q) - 1
    BY <1>0, <1>1, <1>3, <1>4
<1>6. ASSUME NEW i \in 1 .. Len(q) - 1
      PROVE  /\ (IF i < k THEN i ELSE i + 1) \in 1 .. Len(q)
             /\ (a \o b)[i] = q[IF i < k THEN i ELSE i + 1]
  <2>0. i \in 1 .. Len(a) + Len(b)
    BY <1>0, <1>1, <1>3
  <2>1. CASE i < k
    <3>1. i \in 1 .. k - 1 /\ i <= Len(a)
      BY <1>0, <1>1, <2>1
    <3> QED
      BY <1>0, <1>1, <1>4, <2>0, <2>1, <3>1
  <2>2. CASE ~(i < k)
    <3> DEFINE j == i - (k - 1)
    <3>1. j \in 1 .. Len(q) - (k + 1) + 1 /\ k + 1 + j - 1 = i + 1 /\ ~(i <= k - 1)
      BY <1>0, <2>2
    <3>2. (a \o b)[i] = b[j]
      BY <1>1, <1>4, <2>0, <3>1
    <3> HIDE DEF j
    <3>3. b[j] = q[i + 1]
      BY <1>2, <3>1
    <3> QED
      BY <1>0, <2>2, <3>2, <3>3
  <2> QED
    BY <2>1, <2>2
<1> QED
    BY <1>5, <1>6 DEF a, b

\* cancel_work_sync takes a command out of the queue.
LEMMA CutQueue ==
    ASSUME queue \in Seq(Cmds), QueueInv,
           \E k \in DOMAIN queue :
              queue' = SubSeq(queue, 1, k - 1) \o SubSeq(queue, k + 1, Len(queue))
    PROVE  QueueInv' /\ \A d \in Cmds : Queued(d)' => Queued(d)
<1>d. DOMAIN queue = 1 .. Len(queue) /\ Len(queue) \in Nat
    OBVIOUS
<1>2. PICK k \in 1 .. Len(queue) :
            queue' = SubSeq(queue, 1, k - 1) \o SubSeq(queue, k + 1, Len(queue))
    BY <1>d
<1> DEFINE old(i) == IF i < k THEN i ELSE i + 1
<1>4. /\ Len(queue) \in Nat /\ Len(queue') = Len(queue) - 1
      /\ \A i \in 1 .. Len(queue) - 1 : old(i) \in 1 .. Len(queue) /\ queue'[i] = queue[old(i)]
    BY <1>2, <1>d, RemoveAt
<1>5. QueueInv'
  <2> SUFFICES ASSUME NEW i \in 1 .. Len(queue) - 1, NEW j \in 1 .. Len(queue) - 1,
                      queue'[i] = queue'[j]
               PROVE  i = j
    BY <1>4 DEF QueueInv
  <2>1. old(i) = old(j)
    BY <1>4 DEF QueueInv
  <2> QED
    BY <2>1
<1>6. \A d \in Cmds : Queued(d)' => Queued(d)
    BY <1>4 DEF Queued
<1> QED
    BY <1>5, <1>6

-----------------------------------------------------------------------------
(* Steps that hand a command on.                                           *)

\* What such a step has to show: for c, the command that is handed on, that the
\* invariant holds again; nothing changes for the others.
LEMMA HandOn ==
    ASSUME Inv, NEW t \in Threads, NEW c \in Cmds, StepOf(t), Local(t)', QueueInv',
           OnceOf(c)', Stage(t)' # "none" => cur(t)' = c,
           \A d \in Cmds \ {c} : /\ Queued(d)' => Queued(d)
                                 /\ d \in pending' => d \in pending
                                 /\ Unfinished(d)' = Unfinished(d) /\ cbs'[d] = cbs[d]
                                 /\ pc'[d] = "idle" => pc[d] = "idle"
    PROVE  OnceInv'
<1>1. /\ \A u \in Threads : Local(u)'
      /\ \A u \in Threads \ {t} : Stage(u)' = Stage(u) /\ cur(u)' = cur(u)
    BY OtherLocal
<1>2. ASSUME NEW d \in Cmds \ {c} PROVE OnceOf(d)'
  <2>1. OnceOf(d)
    BY DEF Inv, OnceInv
  <2>2. \A u \in Threads : Holds(u, d)' => Holds(u, d)
    BY <1>1 DEF Holds
  <2>3. \A u \in Threads : (cur(u) = d /\ Stage(u) = "open")' => cur(u) = d /\ Stage(u) = "open"
    <3>1. ASSUME NEW u \in Threads, (cur(u) = d /\ Stage(u) = "open")'
          PROVE  cur(u) = d /\ Stage(u) = "open"
      BY <1>1, <3>1
    <3> QED
      BY <3>1
  <2> QED
    BY <2>1, <2>2, <2>3 DEF OnceOf
<1> QED
    BY <1>1, <1>2 DEF OnceInv

\* The issuer hands c to the work queue or, for a page command, submits it itself.
LEMMA Once_cmd_exec ==
    ASSUME Inv, NEW c \in Cmds, cmd_exec(c)
    PROVE  OnceInv'
<1>t. c \in Threads
    BY DEF Threads
<1>0. /\ pc[c] = "idle" /\ cur(c) = c /\ OnceOf(c) /\ QueueInv /\ frame[c].type # "POLLING"
      /\ pc \in [Threads -> PCs] /\ queue \in Seq(Cmds)
    BY <1>t DEF cmd_exec, Inv, OnceInv, Local, TypeInv, TypeOK, ThrType, CmdType
<1>1. /\ UNCHANGED <<pending, done, cbs, frame>>
      /\ \/ c \in Paged /\ Goto(c, "w_down") /\ UNCHANGED queue
         \/ \E p \in {"cb", "wait_h"} : Goto(c, p) /\ queue' = Append(queue, c)
    BY DEF cmd_exec, fwVars, mgrVars, hisVars
<1>2. StepOf(c) /\ cur(c)' = c /\ pc'[c] \in {"w_down", "cb", "wait_h"}
    BY <1>0, <1>1, <1>t DEF StepOf, Goto, cur
<1>3. Local(c)'
    BY <1>0, <1>1, <1>2 DEF Local, CompPCs
<1>4. \A u \in Threads : ~Holds(u, c)
    BY <1>0 DEF OnceOf
<1>5. \A u \in Threads \ {c} : ~Holds(u, c)'
    BY <1>2, <1>4 DEF StepOf, Holds, Stage, cur
<1>6. \A d \in Cmds : Unfinished(d)' = Unfinished(d) /\ cbs'[d] = cbs[d]
    BY <1>1 DEF Unfinished
<1>7. \A d \in Cmds \ {c} : pc'[d] = "idle" => pc[d] = "idle"
    BY <1>2 DEF StepOf, Threads
<1>8. CASE Goto(c, "w_down") /\ UNCHANGED queue
  <2>1. pc'[c] = "w_down"
    BY <1>0, <1>8, <1>t DEF Goto
  <2>2. QueueInv' /\ \A d \in Cmds : Queued(d)' = Queued(d)
    BY <1>0, <1>8 DEF QueueInv, Queued
  <2>3. OnceOf(c)'
    BY <1>0, <1>1, <1>5, <1>6, <2>1, <2>2 DEF OnceOf
  <2> QED
    BY <1>1, <1>2, <1>3, <1>6, <1>7, <1>t, <2>2, <2>3, HandOn
<1>9. CASE \E p \in {"cb", "wait_h"} : Goto(c, p) /\ queue' = Append(queue, c)
  <2>1. pc'[c] \in {"cb", "wait_h"}
    BY <1>0, <1>9, <1>t DEF Goto
  <2>2. Stage(c)' = "none"
    BY <2>1 DEF Stage, PrepPCs, ClaimPCs
  <2>3. ~Queued(c)
    BY <1>0 DEF OnceOf
  <2>5. QueueInv' /\ \A d \in Cmds \ {c} : Queued(d)' => Queued(d)
    BY <1>0, <1>9, <2>3, AppendQueue
  <2>7. \A u \in Threads : ~Holds(u, c)'
    BY <1>5, <2>2 DEF Holds
  <2>8. OnceOf(c)'
    <3>1. Unfinished(c)' /\ c \notin pending' /\ pc'[c] # "idle" /\ cbs'[c] \in {0, 1}
      BY <1>0, <1>1, <1>6, <2>1 DEF OnceOf
    <3> QED
      BY <2>7, <3>1 DEF OnceOf, Holds
  <2> QED
    BY <1>1, <1>2, <1>3, <1>6, <1>7, <1>t, <2>2, <2>5, <2>8, HandOn
<1> QED
    BY <1>1, <1>8, <1>9

\* The work queue hands the command at its head to cmd_work_handler.
LEMMA Once_work_start ==
    ASSUME Inv, work_start
    PROVE  OnceInv'
<1>t. WQ \in Threads /\ WQ \notin Cmds
    BY CmdIfAssumption DEF Threads
<1>0. /\ queue \in Seq(Cmds) /\ queue # << >> /\ frame[WQ] \in Frames /\ QueueInv
      /\ pc \in [Threads -> PCs] /\ frame \in [Threads -> Frames] /\ Local(WQ)
    BY <1>t DEF work_start, Inv, OnceInv, TypeInv, TypeOK, ThrType, CmdType
<1>c. PICK c \in Cmds : c = Head(queue)
    BY <1>0
<1>2. /\ UNCHANGED <<pending, done, cbs>> /\ queue' = Tail(queue) /\ Goto(WQ, "w_down")
      /\ frame' = [frame EXCEPT ![WQ].ent = c]
    BY <1>c DEF work_start, hisVars
<1>3. QueueInv' /\ Queued(c) /\ ~Queued(c)' /\ \A d \in Cmds : Queued(d)' => Queued(d)
    BY <1>0, <1>2, <1>c, TailQueue
<1>4. OnceOf(c)
    BY DEF Inv, OnceInv
<1>5. StepOf(WQ) /\ cur(WQ)' = c /\ pc'[WQ] = "w_down" /\ frame'[WQ].type = frame[WQ].type
    BY <1>0, <1>2, <1>t DEF StepOf, Goto, cur, Frames
<1>6. Local(WQ)'
    BY <1>0, <1>5, <1>t DEF Local
<1>7. \A u \in Threads \ {WQ} : ~Holds(u, c)'
    BY <1>3, <1>4, <1>5 DEF OnceOf, StepOf, Holds, Stage, cur
<1>11. \A d \in Cmds : /\ Unfinished(d)' = Unfinished(d) /\ cbs'[d] = cbs[d]
                       /\ pc'[d] = "idle" => pc[d] = "idle"
    BY <1>2, <1>5, <1>t DEF Unfinished, StepOf, Threads
<1>12. OnceOf(c)'
  <2>1. Unfinished(c)' /\ c \notin pending' /\ pc'[c] # "idle" /\ cbs'[c] \in {0, 1}
    BY <1>2, <1>3, <1>4, <1>11 DEF OnceOf
  <2> QED
    BY <1>3, <1>7, <2>1 DEF OnceOf
<1> QED
    BY <1>2, <1>3, <1>5, <1>6, <1>11, <1>12, <1>t, HandOn

\* A caller whose work did not start in time takes its command out of the queue.
LEMMA Once_wait_canceled ==
    ASSUME Inv, NEW c \in Cmds, wait_canceled(c)
    PROVE  OnceInv'
<1>t. c \in Threads
    BY DEF Threads
<1>0. queue \in Seq(Cmds) /\ QueueInv
    BY DEF Inv, OnceInv, TypeInv, TypeOK, CmdType
<1>1. /\ UNCHANGED <<pending, done, cbs, frame>> /\ Goto(c, "ret")
      /\ \E i \in DOMAIN queue :
            queue' = SubSeq(queue, 1, i - 1) \o SubSeq(queue, i + 1, Len(queue))
    BY DEF wait_canceled, hisVars
<1>3. Keeps(c)
    BY <1>1, <1>t, GotoKeeps, FreePlaces
<1>5. QueueInv' /\ \A d \in Cmds : Queued(d)' => Queued(d)
    BY <1>0, <1>1, CutQueue
<1>7. \A d \in Cmds : Unfinished(d)' = Unfinished(d) /\ cbs'[d] = cbs[d]
    BY <1>1 DEF Unfinished
<1>8. /\ \A u \in Threads : Local(u)'
      /\ \A u \in Threads \ {c} : Stage(u)' = Stage(u) /\ cur(u)' = cur(u)
    BY <1>3, <1>t, OtherLocal DEF Keeps
<1>9. ASSUME NEW d \in Cmds PROVE OnceOf(d)'
  <2>1. OnceOf(d) /\ (pc'[d] = "idle" => pc[d] = "idle")
    BY <1>3, <1>t DEF Inv, OnceInv, Keeps, StepOf, Threads
  <2>2. \A u \in Threads : Stage(u)' = "none" \/ (Stage(u)' = Stage(u) /\ cur(u)' = cur(u))
    BY <1>3, <1>8 DEF Keeps
  <2>3. \A u \in Threads : Holds(u, d)' => Holds(u, d)
    BY <2>2 DEF Holds
  <2>4. \A u \in Threads : (cur(u) = d /\ Stage(u) = "open")' => cur(u) = d /\ Stage(u) = "open"
    BY <2>2
  <2> QED
    BY <1>1, <1>5, <1>7, <2>1, <2>3, <2>4 DEF OnceOf
<1> QED
    BY <1>5, <1>8, <1>9 DEF OnceInv

\* A step of the thread that has c open, after which nobody else can have it.
LEMMA HolderStep ==
    ASSUME Inv, NEW t \in Threads, NEW c \in Cmds, cur(t) = c, Stage(t) = "open", StepOf(t),
           UNCHANGED queue
    PROVE  /\ OnceOf(c) /\ Unfinished(c) /\ pc[c] # "idle" /\ ~Queued(c) /\ c \notin pending
           /\ \A u \in Threads \ {t} : ~Holds(u, c)'
           /\ pc'[c] = "idle" => c = t
           /\ QueueInv' /\ \A d \in Cmds : Queued(d)' = Queued(d)
<1>1. OnceOf(c) /\ QueueInv /\ Holds(t, c)
    BY DEF Inv, OnceInv, Holds
<1>2. Unfinished(c) /\ pc[c] # "idle" /\ ~Queued(c) /\ c \notin pending
    BY <1>1 DEF OnceOf
<1>3. \A u \in Threads \ {t} : ~Holds(u, c)
    BY <1>1 DEF OnceOf
<1>4. \A u \in Threads \ {t} : ~Holds(u, c)'
    BY <1>3 DEF StepOf, Holds, Stage, cur
<1>5. QueueInv' /\ \A d \in Cmds : Queued(d)' = Queued(d)
    BY <1>1 DEF QueueInv, Queued
<1>6. pc'[c] = "idle" => c = t
    BY <1>2 DEF StepOf, Threads
<1> QED
    BY <1>1, <1>2, <1>4, <1>5, <1>6

\* A claimed command is finished: t goes from "open" to "up".
LEMMA Finish ==
    ASSUME Inv, NEW t \in Threads, NEW c \in Cmds, c = cur(t), NEW p,
           \/ pc[t] \in ClaimPCs /\ p = "c_up"
           \/ pc[t] = "w_idx" /\ p = "w_noidx",
           Goto(t, p), UNCHANGED <<frame, queue, pending>>,
           \/ cbs' = [cbs EXCEPT ![c] = @ + 1] /\ UNCHANGED done
           \/ done' = done \cup {c} /\ UNCHANGED cbs
    PROVE  OnceInv' /\ Stage(t) = "open" /\ Stage(t)' = "up" /\ StepOf(t) /\ cur(t)' = c
<1>0. cbs \in [Cmds -> Nat] /\ Local(t)
    BY DEF Inv, OnceInv, TypeInv, TypeOK, HisType
<1>1. StepOf(t) /\ pc'[t] = p /\ frame'[t] = frame[t] /\ cur(t)' = c
    BY DEF Goto, StepOf, cur, Inv, TypeInv, TypeOK, ThrType
<1>2. Stage(t) = "open" /\ Stage(t)' = "up"
    BY <1>1 DEF Stage, PrepPCs, ClaimPCs
<1>3. Local(t)'
    BY <1>0, <1>1 DEF Local, ClaimPCs, CompPCs
<1>4. /\ OnceOf(c) /\ Unfinished(c) /\ pc[c] # "idle" /\ ~Queued(c) /\ c \notin pending
      /\ \A u \in Threads \ {t} : ~Holds(u, c)'
      /\ pc'[c] = "idle" => c = t
      /\ QueueInv' /\ \A d \in Cmds : Queued(d)' = Queued(d)
    BY <1>1, <1>2, HolderStep
<1>5. cbs'[c] \in {0, 1}
  <2>1. cbs[c] = 0
    BY <1>4 DEF Unfinished
  <2>2. cbs'[c] = cbs[c] \/ cbs'[c] = cbs[c] + 1
    BY <1>0
  <2> QED
    BY <2>1, <2>2
<1>6. \A u \in Threads : (cur(u) = c /\ Stage(u) = "open")' => FALSE
    BY <1>2, <1>4 DEF Holds
<1>7. OnceOf(c)'
  <2>1. pc'[c] # "idle" /\ ~Queued(c)' /\ c \notin pending'
    BY <1>1, <1>4
  <2> QED
    BY <1>4, <1>5, <1>6, <2>1 DEF OnceOf
<1>8. \A d \in Cmds \ {c} : /\ Unfinished(d)' = Unfinished(d) /\ cbs'[d] = cbs[d]
                            /\ pc'[d] = "idle" => pc[d] = "idle"
    BY <1>0, <1>1 DEF Unfinished, StepOf, Threads
<1>9. OnceInv'
    BY <1>1, <1>3, <1>4, <1>7, <1>8, HandOn
<1> QED
    BY <1>1, <1>2, <1>9

\* No slot: cmd_work_handler answers the command itself.
LEMMA Once_alloc_index_failed ==
    ASSUME Inv, NEW t \in Threads, alloc_index_failed(t)
    PROVE  /\ OnceInv' /\ Stage(t) = "open" /\ Stage(t)' = "up" /\ StepOf(t)
           /\ cur(t) \in Cmds /\ cur(t)' = cur(t)
<1>c. PICK c \in Cmds : c = cur(t)
    BY DEF alloc_index_failed, Inv, TypeInv, ThrInv, ThrLocal, Busy, WorkPCs
<1>1. /\ pc[t] = "w_idx" /\ Goto(t, "w_noidx") /\ UNCHANGED <<frame, queue, pending>>
      /\ \/ cbs' = [cbs EXCEPT ![c] = @ + 1] /\ UNCHANGED done
         \/ done' = done \cup {c} /\ UNCHANGED cbs
    BY <1>c DEF alloc_index_failed, cmdVars
<1> QED
    BY Zenon, <1>c, <1>1, Finish

\* cmd_work_handler sets PENDING_COMP: from now on whoever clears it has c.
LEMMA Once_work_arm ==
    ASSUME Inv, NEW t \in Threads, work_arm(t)
    PROVE  OnceInv'
<1>0. cur(t) \in Cmds /\ frame[t] \in Frames /\ Local(t)
    BY DEF work_arm, Inv, OnceInv, TypeInv, TypeOK, ThrType, ThrInv, ThrLocal, Busy, WorkPCs
<1>c. PICK c \in Cmds : c = cur(t)
    BY <1>0
<1>1. /\ pc[t] = "w_arm" /\ Goto(t, "w_get") /\ UNCHANGED <<queue, done, cbs>>
      /\ pending' = pending \cup {c}
      /\ frame' = [frame EXCEPT ![t].type = "EVENT"]
    BY <1>c DEF work_arm, cmdVars, hisVars, Inv, ModeInv
<1>2. StepOf(t) /\ pc'[t] = "w_get" /\ frame'[t].type = "EVENT"
    BY <1>0, <1>1 DEF Goto, StepOf, Inv, TypeInv, TypeOK, ThrType, Frames
<1>3. Stage(t) = "open" /\ Stage(t)' = "none"
    BY <1>1, <1>2 DEF Stage, PrepPCs, ClaimPCs
<1>4. Local(t)'
    BY <1>2 DEF Local, CompPCs
<1>5. /\ OnceOf(c) /\ Unfinished(c) /\ pc[c] # "idle" /\ ~Queued(c) /\ c \notin pending
      /\ \A u \in Threads \ {t} : ~Holds(u, c)'
      /\ pc'[c] = "idle" => c = t
      /\ QueueInv' /\ \A d \in Cmds : Queued(d)' = Queued(d)
    BY <1>1, <1>2, <1>3, <1>c, HolderStep
<1>6. \A u \in Threads : ~Holds(u, c)'
    BY <1>3, <1>5 DEF Holds
<1>7. \A d \in Cmds : Unfinished(d)' = Unfinished(d) /\ cbs'[d] = cbs[d]
    BY <1>1 DEF Unfinished
<1>8. OnceOf(c)'
  <2>1. pc'[c] # "idle" /\ ~Queued(c)' /\ Unfinished(c)' /\ cbs'[c] \in {0, 1}
    BY <1>2, <1>5, <1>7 DEF OnceOf
  <2> QED
    BY <1>6, <2>1 DEF OnceOf
<1>9. \A d \in Cmds \ {c} : pc'[d] = "idle" => pc[d] = "idle"
    BY <1>1, <1>2 DEF StepOf, Threads
<1> QED
    BY <1>1, <1>2, <1>3, <1>4, <1>5, <1>7, <1>8, <1>9, HandOn

\* comp_callback completes its command at most once.
LEMMA Once_comp_callback ==
    ASSUME Inv, NEW t \in Threads, comp_callback(t)
    PROVE  OnceInv'
<1>c. PICK c \in Cmds : c = cur(t)
    BY DEF comp_callback, Inv, TypeInv, ThrInv, ThrLocal, Busy, CompPCs
<1>1. /\ pc[t] \in ClaimPCs /\ Goto(t, "c_up") /\ UNCHANGED <<frame, queue, pending, done>>
      /\ cbs' = [cbs EXCEPT ![c] = @ + 1]
    BY <1>c DEF comp_callback, ClaimPCs, entVars, cmdVars
<1> QED
    BY Zenon, <1>c, <1>1, Finish

\* complete() finishes a blocking command; an asynchronous one stays claimed.
LEMMA Once_comp_finish ==
    ASSUME Inv, NEW t \in Threads, comp_finish(t)
    PROVE  OnceInv'
<1>c. PICK c \in Cmds : c = cur(t)
    BY DEF comp_finish, Inv, TypeInv, ThrInv, ThrLocal, Busy, CompPCs
<1>1. /\ pc[t] = "c_fin" /\ UNCHANGED <<queue, pending, cbs>>
      /\ \/ /\ \E r : frame' = [frame EXCEPT ![t].err = r]
            /\ Goto(t, "c_put") /\ UNCHANGED done
         \/ done' = done \cup {c} /\ Goto(t, "c_up") /\ UNCHANGED frame
    BY <1>c DEF comp_finish, cmdVars, hisVars
<1>2. CASE done' = done \cup {c} /\ Goto(t, "c_up") /\ UNCHANGED frame
  <2>1. pc[t] \in ClaimPCs
    BY <1>1 DEF ClaimPCs
  <2> QED
    BY Zenon, <1>1, <1>2, <1>c, <2>1, Finish
<1>3. CASE /\ \E r : frame' = [frame EXCEPT ![t].err = r]
           /\ Goto(t, "c_put") /\ UNCHANGED done
  <2>0. frame[t] \in Frames /\ Local(t)
    BY DEF Inv, OnceInv, TypeInv, TypeOK, ThrType
  <2>1. /\ StepOf(t) /\ pc'[t] = "c_put" /\ frame'[t].ent = frame[t].ent
        /\ frame'[t].type = frame[t].type /\ frame'[t].back = frame[t].back
    BY <1>3, <2>0 DEF Goto, StepOf, Frames, Inv, TypeInv, TypeOK, ThrType
  <2>2. Stage(t)' = "open" /\ Stage(t) = "open" /\ cur(t)' = cur(t)
    BY <1>1, <2>1 DEF Stage, ClaimPCs, cur
  <2>3. Keeps(t)
    BY <1>1, <2>0, <2>1, <2>2 DEF Keeps, Local, CompPCs
  <2> QED
    BY <1>1, <1>3, <2>3, KeepsOnce
<1> QED
    BY <1>1, <1>2, <1>3

\* test_and_clear_bit(PENDING_COMP): who finds it set has the command.
LEMMA Once_comp_test_and_clear ==
    ASSUME Inv, NEW t \in Threads, comp_test_and_clear(t)
    PROVE  OnceInv'
<1>0. /\ frame[t] \in Frames /\ Local(t) /\ QueueInv /\ frame[t].slot \in Slots
      /\ ent_arr \in [Slots -> Cmds \cup {None}]
    BY DEF Inv, OnceInv, TypeInv, TypeOK, ThrType, CmdType, Frames
<1>c. PICK c \in Cmds : c = ent_arr[frame[t].slot]
    BY <1>0 DEF comp_test_and_clear
<1>b. /\ pc[t] = "c_tac" /\ UNCHANGED <<queue, done, cbs>> /\ pending' = pending \ {c}
    BY <1>c DEF comp_test_and_clear, ClearPending, cmdVars, hisVars
<1>s. Skips(t, c) <=> c \notin pending
    BY <1>0 DEF Skips, Local, Inv
<1>1. CASE c \notin pending
  <2>1. pending' = pending
    BY <1>1, <1>b
  <2>2. cmd_ent_put(t, c, frame[t].back) \/ Enter(t, frame[t].back)
    BY <1>1, <1>c, <1>s DEF comp_test_and_clear
  <2>3. frame[t].back \in BackPCs /\ (t \in Cmds => frame[t].back # "idle")
    BY <1>0, <1>b DEF Local, Frames, CompPCs
  <2>4. frame[t].back \in FreePCs(t) /\ frame[t].back \in ContPCs
    BY <2>3 DEF BackPCs, ContPCs, FreePCs, PCs, CallerPCs, MgrPCs, PrepPCs, CompPCs
  <2>5. Keeps(t)
    BY <2>2, <2>4, EnterKeeps, PutKeeps
  <2> QED
    BY <1>b, <2>1, <2>5, KeepsOnce
<1>2. CASE c \in pending
  <2>1. Goto(t, "c_timer") /\ frame' = [frame EXCEPT ![t].ent = c]
    BY <1>2, <1>c, <1>s DEF comp_test_and_clear
  <2>2. /\ StepOf(t) /\ pc'[t] = "c_timer" /\ cur(t)' = c
        /\ frame'[t].type = frame[t].type /\ frame'[t].back = frame[t].back
    BY <1>0, <2>1 DEF Goto, StepOf, cur, Frames, Inv, TypeInv, TypeOK, ThrType
  <2>3. Local(t)'
    BY <1>0, <1>b, <2>2 DEF Local, CompPCs
  <2>4. OnceOf(c)
    BY DEF Inv, OnceInv
  <2>5. /\ Unfinished(c) /\ pc[c] # "idle" /\ ~Queued(c) /\ cbs[c] \in {0, 1}
        /\ \A u \in Threads : ~Holds(u, c)
    BY <1>2, <2>4 DEF OnceOf
  <2>6. \A u \in Threads \ {t} : ~Holds(u, c)'
    BY <2>2, <2>5 DEF StepOf, Holds, Stage, cur
  <2>7. QueueInv' /\ \A d \in Cmds : Queued(d)' = Queued(d)
    BY <1>0, <1>b DEF QueueInv, Queued
  <2>8. \A d \in Cmds : Unfinished(d)' = Unfinished(d) /\ cbs'[d] = cbs[d]
    BY <1>b DEF Unfinished
  <2>9. \A d \in Cmds : pc'[d] = "idle" => pc[d] = "idle"
    BY <2>2 DEF StepOf, Threads
  <2>10. OnceOf(c)'
    <3>1. /\ pc'[c] # "idle" /\ ~Queued(c)' /\ c \notin pending' /\ Unfinished(c)'
          /\ cbs'[c] \in {0, 1}
      BY <1>b, <2>5, <2>7, <2>8, <2>9
    <3> QED
      BY <2>6, <3>1 DEF OnceOf
  <2> QED
    BY <1>b, <2>2, <2>3, <2>7, <2>8, <2>9, <2>10, HandOn
<1> QED
    BY <1>1, <1>2

-----------------------------------------------------------------------------
(* The interface stays in event mode.                                      *)

\* No step changes the mode, when no change is asked for.
LEMMA StepMode ==
    ASSUME TypeInv, ModeInv, [Next]_vars
    PROVE  ModeInv'
<1> USE DEF entVars, cmdVars, fwVars, thrVars, mgrVars, hisVars
<1> DEFINE Still == UNCHANGED <<mode, script>>
<1>0. script \in Seq(Ops)
    BY DEF TypeInv, TypeOK, MgrType
<1>1. ASSUME NEW c \in Cmds, cmd_exec(c) \/ cmd_exec_rejected(c) \/ cmd_exec_nomem(c)
      PROVE  Still
    BY <1>1 DEF cmd_exec, cmd_exec_rejected, cmd_exec_nomem
<1>2. ASSUME NEW c \in Cmds, Serve(c) PROVE Still
    BY <1>2 DEF Serve, wait_handled, wait_done, wait_recovered, wait_force, invoke_return,
                timer_recovered, timer_test, timer_force, timer_put
<1>3. ASSUME NEW c \in Cmds, Expire(c) PROVE Still
    BY <1>3 DEF Expire, wait_canceled, wait_timeout, wait_exec_timeout, timer_fires
<1>4. ASSUME NEW t \in Threads, Work(t) PROVE Still
    BY <1>4 DEF Work, work_down, cmd_alloc_index, alloc_index_failed, work_noidx_up,
                work_arr, work_arm, work_get, work_check, work_doorbell, work_polled,
                work_poll_timeout
<1>5. ASSUME NEW t \in Threads, Comp(t) PROVE Still
    BY <1>5 DEF Comp, comp_test_and_clear, comp_cancel_timer, comp_put_fw, comp_finish,
                comp_put, comp_callback, comp_up, cmd_free_index
<1>6. ASSUME \/ work_start \/ \E s \in Slots : fw_complete(s)
             \/ \E via \in {"irq", "recover"} : eq_take(via)
      PROVE  Still
    BY <1>6 DEF work_start, fw_complete, eq_take
<1>7. ASSUME \/ mgr_next \/ cleanup_async_ctx \/ drain_down \/ flush_down
             \/ flush_trylock_fails \/ trigger_sync \/ trigger_get \/ trigger_comp
             \/ trigger_put \/ trigger_end
      PROVE  Still
    BY <1>7 DEF mgr_next, cleanup_async_ctx, drain_down, flush_down, flush_trylock_fails,
                trigger_sync, trigger_get, trigger_comp, trigger_put, trigger_end
<1>8. ASSUME cleanup_wait \/ mgr_up PROVE ModeInv'
  <2>1. script # << >> /\ script' = Tail(script) /\ mode' = mode
    BY <1>8 DEF cleanup_wait, mgr_up
  <2>2. /\ Len(script) \in Nat \ {0} /\ Len(script') = Len(script) - 1
        /\ \A i \in 1 .. Len(script) - 1 : script'[i] = script[i + 1]
    BY <1>0, <2>1
  <2>3. \A i \in 1 .. Len(script) - 1 : script'[i] # "polling"
    <3> SUFFICES ASSUME NEW i \in 1 .. Len(script) - 1 PROVE script'[i] # "polling"
      OBVIOUS
    <3>1. i + 1 \in 1 .. Len(script) /\ script'[i] = script[i + 1]
      BY <2>2
    <3> QED
      BY <3>1 DEF ModeInv
  <2> QED
    BY <2>1, <2>2, <2>3 DEF ModeInv
<1>9. ASSUME drain_set PROVE ModeInv'
  <2>1. script # << >>
    BY <1>9 DEF drain_set
  <2>2. Head(script) = script[1] /\ 1 \in 1 .. Len(script)
    BY <1>0, <2>1
  <2>3. Head(script) # "polling"
    BY <2>2 DEF ModeInv
  <2> QED
    BY <1>9, <2>3 DEF drain_set, ModeInv
<1>10. ASSUME Still PROVE ModeInv'
    BY <1>10 DEF ModeInv
<1>11. CASE UNCHANGED vars
    BY <1>11 DEF vars, ModeInv
<1>12. ASSUME Mgr PROVE ModeInv'
    BY <1>7, <1>8, <1>9, <1>10, <1>12 DEF Mgr
<1> QED
    BY <1>1, <1>2, <1>3, <1>4, <1>5, <1>6, <1>10, <1>11, <1>12 DEF Next

-----------------------------------------------------------------------------
\* Every step keeps the invariant.
LEMMA StepOnce == Inv /\ [Next]_vars => Inv'
<1> SUFFICES ASSUME Inv, [Next]_vars PROVE Inv'
    OBVIOUS
<1>1. TypeInv' /\ ModeInv'
    BY StepType, StepMode DEF Inv
<1>2. ASSUME NEW c \in Cmds,
             \/ cmd_exec(c) \/ cmd_exec_rejected(c) \/ cmd_exec_nomem(c)
             \/ Serve(c) \/ Expire(c)
      PROVE  OnceInv'
    BY <1>2, Once_cmd_exec, Once_wait_canceled, QuietCaller DEF Expire
<1>3. ASSUME NEW t \in Threads, Work(t) PROVE OnceInv'
    BY <1>3, QuietWork, Once_alloc_index_failed, Once_work_arm DEF Work
<1>4. ASSUME NEW t \in Threads, Comp(t) PROVE OnceInv'
    BY <1>4, QuietComp, Once_comp_test_and_clear, Once_comp_finish, Once_comp_callback
       DEF Comp
<1>5. ASSUME UNCHANGED vars PROVE OnceInv'
  <2>1. UNCHANGED <<pc, frame, queue, pending, done, cbs>>
    BY <1>5 DEF vars, entVars, cmdVars, thrVars, hisVars
  <2>2. MGR \in Threads /\ Local(MGR)
    BY DEF Threads, Inv, OnceInv
  <2>3. Keeps(MGR)
    BY <2>1, <2>2 DEF Keeps, StepOf, Local, Stage, cur
  <2> QED
    BY <2>1, <2>2, <2>3, KeepsOnce
<1>6. ASSUME \/ \E s \in Slots : fw_complete(s)
             \/ \E via \in {"irq", "recover"} : eq_take(via)
      PROVE  OnceInv'
    BY <1>6, QuietDevice
<1>7. ASSUME Next PROVE OnceInv'
  <2>1. CASE \E c \in Cmds : \/ cmd_exec(c) \/ cmd_exec_rejected(c) \/ cmd_exec_nomem(c)
                             \/ Serve(c) \/ Expire(c)
    BY <1>2, <2>1
  <2>2. CASE \E t \in Threads : Work(t) \/ Comp(t)
    BY <1>3, <1>4, <2>2
  <2>3. CASE work_start \/ Mgr
    BY <2>3, Once_work_start, QuietMgr
  <2> QED
    BY <1>6, <1>7, <2>1, <2>2, <2>3 DEF Next
<1>8. OnceInv'
    BY <1>5, <1>7
<1> QED
    BY <1>1, <1>8 DEF Inv

\* The invariant says that a command completes once.
LEMMA InvCompletedOnce == Inv => CompletedOnce
<1> SUFFICES ASSUME Inv, NEW c \in Cmds
             PROVE  /\ cbs[c] \in {0, 1}
                    /\ c \in done \/ cbs[c] = 1 => c \notin pending
                    /\ \A t \in Threads : Completing(t, c) =>
                          /\ c \notin pending
                          /\ \A u \in Threads \ {t} : ~Completing(u, c)
    BY DEF CompletedOnce
<1>1. OnceOf(c)
    BY DEF Inv, OnceInv
<1>2. ASSUME NEW t \in Threads, Completing(t, c) PROVE Holds(t, c)
  <2>1. frame[t].cont \in ContPCs
    BY DEF Inv, TypeInv, TypeOK, ThrType, Frames
  <2> QED
    BY <1>2, <2>1 DEF Completing, Holds, Stage, CompPCs, ClaimPCs, ContPCs, BackPCs
<1>3. cbs[c] \in {0, 1} /\ (c \in done \/ cbs[c] = 1 => c \notin pending)
  <2>1. cbs[c] \in {0, 1} /\ (c \in pending => Unfinished(c))
    BY <1>1 DEF OnceOf
  <2>2. Unfinished(c) => c \notin done /\ cbs[c] # 1
    BY DEF Unfinished
  <2> QED
    BY <2>1, <2>2
<1>4. ASSUME NEW t \in Threads, Completing(t, c)
      PROVE  c \notin pending /\ \A u \in Threads \ {t} : ~Completing(u, c)
  <2>1. Holds(t, c)
    BY <1>2, <1>4
  <2>2. c \notin pending
    BY <1>1, <2>1 DEF OnceOf
  <2>3. \A u \in Threads \ {t} : ~Holds(u, c)
    BY <1>1, <2>1 DEF OnceOf
  <2> QED
    BY <1>2, <2>2, <2>3
<1> QED
    BY <1>3, <1>4

\* Whatever the number of commands and slots, whenever the firmware answers,
\* whichever timeouts expire and whether or not the interface is flushed: in
\* event mode mlx5_cmd_comp_handler completes a command once, on behalf of the
\* event handler, the waiter, the timer or the flush.
THEOREM CompletesOnce == EventsOnly /\ Spec => []CompletedOnce
<1> QED
    BY InitOnce, StepOnce, InvCompletedOnce, PTL DEF Spec

-----------------------------------------------------------------------------
(* num_inflight of an asynchronous context.                                *)

\* c is still to be completed, or to be issued.
Live(c) ==
    \/ pc[c] = "idle" \/ Queued(c) \/ c \in pending
    \/ \E t \in Threads : cur(t) = c /\ Stage(t) = "open"

\* The thread of an asynchronous command runs cb_timeout_handler and what it
\* calls, and the callback is called for asynchronous commands.
AsyncPCs == {"idle", "cb", "t_recover", "t_test", "t_expired", "t_put", "end", "free_idx"}
            \cup CompPCs
CbPlace(t) == \/ pc[t] \in {"c_put", "c_cb"}
              \/ pc[t] = "free_idx" /\ frame[t].cont = "c_cb"
InsideComp(t) == pc[t] \in CompPCs \/ (pc[t] = "free_idx" /\ frame[t].cont \in CompPCs)
CtxLocal(t) ==
    /\ CbPlace(t) => cur(t) \in Async
    /\ t \in Async =>
          /\ pc[t] \in AsyncPCs
          /\ InsideComp(t) => frame[t].back = "t_put"
          /\ pc[t] = "free_idx" => frame[t].cont \in {"t_put", "end"} \cup CompPCs

\* What num_inflight counts, and the reference of the context itself, which
\* mlx5_cmd_cleanup_async_ctx gives up when every command has been issued.
Open == {c \in Async : pc[c] # "idle" /\ res[c] = "none"}
Issued == \A c \in Async : pc[c] # "idle"
CtxCount ==
    \/ pc[MGR] # "a_wait" /\ num_inflight = Cardinality(Open) + 1
    \/ Issued /\ pc[MGR] = "a_wait" /\ num_inflight = Cardinality(Open)
    \/ Issued /\ Open = {}

CtxInv ==
    /\ \A t \in Threads : CtxLocal(t)
    /\ \A c \in Async : Live(c) => res[c] = "none"
    /\ CtxCount

-----------------------------------------------------------------------------
(* A command that is over stays over.                                      *)

\* A step of t with c: t takes c in hand, queues it or sets PENDING_COMP.
LEMMA LiveStep ==
    ASSUME NEW t \in Threads, NEW c \in Cmds, Live(c), StepOf(t),
           Stage(t)' = "open" => (Stage(t) = "open" /\ cur(t)' = cur(t)) \/ cur(t)' = c,
           t \in Cmds /\ pc'[t] = "idle" => pc[t] = "idle",
           \A d \in Cmds \ {c} : Queued(d)' => Queued(d),
           \A d \in Cmds \ {c} : d \in pending' => d \in pending
    PROVE  \A d \in Cmds : Live(d)' => Live(d)
<1> SUFFICES ASSUME NEW d \in Cmds \ {c}, Live(d)' PROVE Live(d)
    BY Zenon
<1>t. d \in Threads
    BY Zenon DEF Threads
<1>1. \A u \in Threads \ {t} : Stage(u)' = Stage(u) /\ cur(u)' = cur(u)
    BY Zenon DEF StepOf, Stage, cur
<1>2. pc'[d] = "idle" => pc[d] = "idle"
    BY Zenon, <1>t DEF StepOf
<1>3. ASSUME NEW u \in Threads, cur(u)' = d, Stage(u)' = "open"
      PROVE  cur(u) = d /\ Stage(u) = "open"
    BY Zenon, <1>1, <1>3
<1>4. \/ pc'[d] = "idle" \/ Queued(d)' \/ d \in pending'
      \/ \E u \in Threads : cur(u)' = d /\ Stage(u)' = "open"
    BY Zenon DEF Live, cur
<1> QED
    BY Zenon, <1>2, <1>3, <1>4 DEF Live

\* A step that hands nothing on.
LEMMA LiveKeeps ==
    ASSUME NEW t \in Threads, Keeps(t), UNCHANGED <<queue, pending>>
    PROVE  \A d \in Cmds : Live(d)' => Live(d)
<1> SUFFICES ASSUME NEW d \in Cmds, Live(d)' PROVE Live(d)
    OBVIOUS
<1>t. d \in Threads
    BY Zenon DEF Threads
<1>1. \A u \in Threads \ {t} : Stage(u)' = Stage(u) /\ cur(u)' = cur(u)
    BY Zenon DEF Keeps, StepOf, Stage, cur
<1>2. pc'[d] = "idle" => pc[d] = "idle"
    BY Zenon, <1>t DEF Keeps, StepOf
<1>3. ASSUME NEW u \in Threads, cur(u)' = d, Stage(u)' = "open"
      PROVE  cur(u) = d /\ Stage(u) = "open"
  <2>1. "open" # "none"
    OBVIOUS
  <2> QED
    BY Zenon, <1>1, <1>3, <2>1 DEF Keeps
<1>4. Queued(d)' <=> Queued(d)
    BY DEF Queued
<1>5. \/ pc'[d] = "idle" \/ Queued(d)' \/ d \in pending'
      \/ \E u \in Threads : cur(u)' = d /\ Stage(u)' = "open"
    BY Zenon DEF Live, cur
<1> QED
    BY Zenon, <1>2, <1>3, <1>4, <1>5 DEF Live

\* A step that hands c on, or ends it.
LEMMA LiveHandsOn ==
    ASSUME Inv
    PROVE  /\ \A c \in Cmds : cmd_exec(c) \/ wait_canceled(c) => \A d \in Cmds : Live(d)' => Live(d)
           /\ work_start => \A d \in Cmds : Live(d)' => Live(d)
           /\ \A t \in Threads : work_arm(t) \/ comp_finish(t) \/ comp_test_and_clear(t) =>
                 \A d \in Cmds : Live(d)' => Live(d)
<1> DEFINE Shrinks == \A d \in Cmds : Live(d)' => Live(d)
<1>0. /\ queue \in Seq(Cmds) /\ QueueInv /\ pc \in [Threads -> PCs] /\ frame \in [Threads -> Frames]
      /\ Cmds \subseteq Threads /\ WQ \in Threads /\ WQ \notin Cmds
    BY CmdIfAssumption DEF Inv, OnceInv, TypeInv, TypeOK, CmdType, ThrType, Threads
<1>q. ASSUME UNCHANGED queue PROVE \A d \in Cmds : Queued(d)' => Queued(d)
    BY <1>q DEF Queued
<1>1. ASSUME NEW c \in Cmds, cmd_exec(c) PROVE Shrinks
  <2>1. /\ pc[c] = "idle" /\ cur(c) = c /\ OnceOf(c) /\ UNCHANGED <<pending, frame>>
        /\ UNCHANGED queue \/ queue' = Append(queue, c)
        /\ \E p \in {"w_down", "cb", "wait_h"} : Goto(c, p)
    BY <1>0, <1>1 DEF cmd_exec, Inv, OnceInv, Local
  <2>2. StepOf(c) /\ cur(c)' = c /\ pc'[c] \in {"w_down", "cb", "wait_h"}
    BY <1>0, <2>1 DEF StepOf, Goto, cur
  <2>3. Live(c) /\ ~Queued(c)
    BY Zenon, <2>1 DEF Live, OnceOf
  <2>4. \A d \in Cmds \ {c} : Queued(d)' => Queued(d)
    BY Zenon, <1>0, <1>q, <2>1, <2>3, AppendQueue
  <2>5. pc'[c] # "idle"
    BY <2>2
  <2> QED
    BY Zenon, <1>0, <2>1, <2>2, <2>3, <2>4, <2>5, LiveStep
<1>2. ASSUME NEW c \in Cmds, wait_canceled(c) PROVE Shrinks
  <2>1. /\ UNCHANGED <<pending, frame>> /\ Goto(c, "ret")
        /\ \E i \in DOMAIN queue :
              queue' = SubSeq(queue, 1, i - 1) \o SubSeq(queue, i + 1, Len(queue))
        /\ \E i \in DOMAIN queue : queue[i] = c
    BY Zenon, <1>2 DEF wait_canceled
  <2>2. StepOf(c) /\ pc'[c] = "ret" /\ Stage(c)' = "none"
    BY <1>0, <2>1 DEF StepOf, Goto, Stage, PrepPCs, ClaimPCs
  <2>3. Queued(c)
    BY <1>0, <2>1 DEF Queued
  <2>4. \A d \in Cmds : Queued(d)' => Queued(d)
    BY Zenon, <1>0, <2>1, CutQueue
  <2>5. Live(c) /\ pc'[c] # "idle" /\ Stage(c)' # "open"
    BY <2>2, <2>3 DEF Live
  <2> QED
    BY Zenon, <1>0, <2>1, <2>2, <2>4, <2>5, LiveStep
<1>3. ASSUME work_start PROVE Shrinks
  <2>c. PICK c \in Cmds : c = Head(queue)
    BY <1>0, <1>3 DEF work_start
  <2>1. /\ UNCHANGED pending /\ queue' = Tail(queue) /\ Goto(WQ, "w_down") /\ queue # << >>
        /\ frame' = [frame EXCEPT ![WQ].ent = c]
    BY <1>3, <2>c DEF work_start
  <2>2. StepOf(WQ) /\ cur(WQ)' = c
    BY <1>0, <2>1 DEF StepOf, Goto, cur, Frames
  <2>3. Queued(c) /\ \A d \in Cmds : Queued(d)' => Queued(d)
    BY Zenon, <1>0, <2>1, <2>c, TailQueue
  <2> QED
    BY Zenon, <1>0, <2>1, <2>2, <2>3, LiveStep DEF Live
<1>4. ASSUME NEW t \in Threads, work_arm(t) PROVE Shrinks
  <2>c. PICK c \in Cmds : c = cur(t)
    BY <1>4 DEF work_arm, Inv, TypeInv, ThrInv, ThrLocal, Busy, WorkPCs
  <2>1. /\ pc[t] = "w_arm" /\ Goto(t, "w_get") /\ UNCHANGED queue
        /\ pending' = pending \cup {c}
        /\ frame' = [frame EXCEPT ![t].type = "EVENT"]
    BY <1>4, <2>c DEF work_arm, cmdVars, Inv, ModeInv
  <2>2. StepOf(t) /\ pc'[t] = "w_get" /\ Stage(t) = "open" /\ Stage(t)' = "none"
    BY <1>0, <2>1 DEF Goto, StepOf, Stage, PrepPCs, ClaimPCs
  <2>3. Live(c) /\ pc'[t] # "idle" /\ Stage(t)' # "open"
    BY <2>c, <2>2 DEF Live
  <2>4. \A d \in Cmds \ {c} : d \in pending' => d \in pending
    BY <2>1
  <2> QED
    BY Zenon, <1>q, <2>1, <2>2, <2>3, <2>4, LiveStep
<1>5. ASSUME NEW t \in Threads, comp_finish(t) PROVE Shrinks
  <2>c. PICK c \in Cmds : c = cur(t)
    BY <1>5 DEF comp_finish, Inv, TypeInv, ThrInv, ThrLocal, Busy, CompPCs
  <2>1. /\ pc[t] = "c_fin" /\ UNCHANGED <<queue, pending>>
        /\ UNCHANGED frame \/ \E r : frame' = [frame EXCEPT ![t].err = r]
        /\ Goto(t, "c_put") \/ Goto(t, "c_up")
    BY <1>5 DEF comp_finish, cmdVars
  <2>2. StepOf(t) /\ pc'[t] # "idle" /\ Stage(t) = "open" /\ cur(t)' = c
    BY <1>0, <2>1, <2>c DEF Goto, StepOf, Stage, PrepPCs, ClaimPCs, cur, Frames
  <2>3. Live(c)
    BY Zenon, <2>c, <2>2 DEF Live
  <2> QED
    BY Zenon, <1>q, <2>1, <2>2, <2>3, LiveStep
<1>6. ASSUME NEW t \in Threads, comp_test_and_clear(t) PROVE Shrinks
  <2>0. /\ frame[t] \in Frames /\ Local(t) /\ frame[t].slot \in Slots
        /\ ent_arr \in [Slots -> Cmds \cup {None}]
    BY DEF Inv, OnceInv, TypeInv, TypeOK, ThrType, CmdType, Frames
  <2>c. PICK c \in Cmds : c = ent_arr[frame[t].slot]
    BY <1>6, <2>0 DEF comp_test_and_clear
  <2>b. /\ pc[t] = "c_tac" /\ UNCHANGED queue /\ pending' = pending \ {c}
    BY <1>6, <2>c DEF comp_test_and_clear, ClearPending, cmdVars
  <2>s. Skips(t, c) <=> c \notin pending
    BY <2>0 DEF Skips, Local, Inv
  <2>1. CASE c \notin pending
    <3>1. pending' = pending
      BY <2>1, <2>b
    <3>2. cmd_ent_put(t, c, frame[t].back) \/ Enter(t, frame[t].back)
      BY <1>6, <2>1, <2>c, <2>s DEF comp_test_and_clear
    <3>3. frame[t].back \in BackPCs /\ (t \in Cmds => frame[t].back # "idle")
      BY <2>0, <2>b DEF Local, Frames, CompPCs
    <3>4. frame[t].back \in FreePCs(t) /\ frame[t].back \in ContPCs
      BY <3>3 DEF BackPCs, ContPCs, FreePCs, PCs, CallerPCs, MgrPCs, PrepPCs, CompPCs
    <3>5. Keeps(t)
      BY Zenon, <3>2, <3>4, EnterKeeps, PutKeeps
    <3> QED
      BY Zenon, <2>b, <3>1, <3>5, LiveKeeps
  <2>2. CASE c \in pending
    <3>1. Goto(t, "c_timer") /\ frame' = [frame EXCEPT ![t].ent = c]
      BY <1>6, <2>2, <2>c, <2>s DEF comp_test_and_clear
    <3>2. StepOf(t) /\ pc'[t] # "idle" /\ cur(t)' = c
      BY <1>0, <3>1 DEF Goto, StepOf, cur, Frames
    <3>3. Live(c) /\ \A d \in Cmds : d \in pending' => d \in pending
      BY <2>2, <2>b DEF Live
    <3> QED
      BY Zenon, <1>q, <2>b, <3>2, <3>3, LiveStep
  <2> QED
    BY Zenon, <2>1, <2>2
<1> QED
    BY Zenon, <1>1, <1>2, <1>3, <1>4, <1>5, <1>6

\* The callback is the end of a command, and of no other.
LEMMA LiveFinish ==
    ASSUME Inv, NEW t \in Threads, NEW c \in Cmds, c = cur(t),
           comp_callback(t) \/ alloc_index_failed(t)
    PROVE  Live(c) /\ ~Live(c)' /\ pc[c] # "idle" /\ \A d \in Cmds : Live(d)' => Live(d)
<1>0. pc \in [Threads -> PCs] /\ frame \in [Threads -> Frames]
    BY DEF Inv, TypeInv, TypeOK, ThrType
<1>1. /\ pc[t] \in {"c_cb", "w_idx"} /\ UNCHANGED <<queue, pending, frame>>
      /\ Goto(t, "c_up") \/ Goto(t, "w_noidx")
    BY DEF comp_callback, alloc_index_failed, entVars, cmdVars
<1>2. /\ StepOf(t) /\ pc'[t] \in {"c_up", "w_noidx"} /\ cur(t)' = c
      /\ Stage(t) = "open" /\ Stage(t)' = "up"
    BY <1>0, <1>1 DEF StepOf, Goto, Stage, PrepPCs, ClaimPCs, cur
<1>3. /\ pc[c] # "idle" /\ ~Queued(c) /\ c \notin pending
      /\ \A u \in Threads \ {t} : ~Holds(u, c)'
      /\ pc'[c] = "idle" => c = t
      /\ \A d \in Cmds : Queued(d)' = Queued(d)
    BY Zenon, <1>1, <1>2, HolderStep
<1>4. Live(c)
    BY Zenon, <1>2 DEF Live
<1>5. pc'[c] # "idle" /\ ~Queued(c)' /\ c \notin pending'
    BY <1>1, <1>2, <1>3
<1>6. \A u \in Threads : ~(cur(u)' = c /\ Stage(u)' = "open")
  <2>1. "up" # "open" /\ "open" # "none"
    OBVIOUS
  <2> QED
    BY Zenon, <1>2, <1>3, <2>1 DEF Holds, cur
<1>7. ~Live(c)'
    BY Zenon, <1>5, <1>6 DEF Live, cur
<1>8. Stage(t)' # "open" /\ pc'[t] # "idle"
    BY <1>2
<1>9. \A d \in Cmds : Queued(d)' => Queued(d)
    BY Zenon, <1>3
<1> QED
    BY Zenon, <1>1, <1>2, <1>3, <1>4, <1>7, <1>8, <1>9, LiveStep

\* A command that is not accepted is over at once.
LEMMA LiveRejected ==
    ASSUME Inv, NEW c \in Cmds, cmd_exec_rejected(c) \/ cmd_exec_nomem(c)
    PROVE  ~Live(c)' /\ pc[c] = "idle"
<1>t. c \in Threads
    BY Zenon DEF Threads
<1>0. pc \in [Threads -> PCs] /\ OnceOf(c)
    BY DEF Inv, OnceInv, TypeInv, TypeOK, ThrType
<1>1. pc[c] = "idle" /\ Goto(c, "end") /\ UNCHANGED <<queue, pending, frame>>
    BY DEF cmd_exec_rejected, cmd_exec_nomem, entVars, cmdVars
<1>2. ~Queued(c) /\ c \notin pending /\ \A u \in Threads : ~Holds(u, c)
    BY Zenon, <1>0, <1>1 DEF OnceOf
<1>3. StepOf(c) /\ pc'[c] = "end" /\ Stage(c)' = "none"
    BY <1>0, <1>1, <1>t DEF StepOf, Goto, Stage, PrepPCs, ClaimPCs
<1>4. \A u \in Threads \ {c} : Stage(u)' = Stage(u) /\ cur(u)' = cur(u)
    BY Zenon, <1>3 DEF StepOf, Stage, cur
<1>5. \A u \in Threads : ~(cur(u)' = c /\ Stage(u)' = "open")
  <2>1. "open" # "none"
    OBVIOUS
  <2> QED
    BY Zenon, <1>2, <1>3, <1>4, <2>1 DEF Holds
<1>6. pc'[c] # "idle" /\ ~Queued(c)' /\ c \notin pending'
    BY <1>1, <1>2, <1>3 DEF Queued
<1> QED
    BY Zenon, <1>1, <1>5, <1>6 DEF Live, cur

\* No step brings a command back.
LEMMA LiveShrinks ==
    ASSUME Inv, [Next]_vars
    PROVE  \A d \in Cmds : Live(d)' => Live(d)
<1> DEFINE Shrinks == \A d \in Cmds : Live(d)' => Live(d)
<1>0. Cmds \subseteq Threads /\ MGR \in Threads /\ EQ \in Threads
    BY DEF Threads
<1>1. ASSUME NEW c \in Cmds,
             \/ cmd_exec(c) \/ cmd_exec_rejected(c) \/ cmd_exec_nomem(c)
             \/ Serve(c) \/ Expire(c)
      PROVE  Shrinks
    BY Zenon, <1>0, <1>1, QuietCaller, LiveKeeps, LiveHandsOn DEF Expire
<1>2. ASSUME NEW t \in Threads, alloc_index_failed(t) \/ comp_callback(t) PROVE Shrinks
  <2>c. PICK c \in Cmds : c = cur(t)
    BY <1>2 DEF alloc_index_failed, comp_callback, Inv, TypeInv, ThrInv, ThrLocal, Busy,
                WorkPCs, CompPCs
  <2> QED
    BY Zenon, <1>2, <2>c, LiveFinish
<1>3. ASSUME NEW t \in Threads, Work(t) PROVE Shrinks
    BY Zenon, <1>2, <1>3, QuietWork, LiveKeeps, LiveHandsOn DEF Work
<1>4. ASSUME NEW t \in Threads, Comp(t) PROVE Shrinks
    BY Zenon, <1>2, <1>4, QuietComp, LiveKeeps, LiveHandsOn DEF Comp
<1>5. ASSUME \/ \E s \in Slots : fw_complete(s)
             \/ \E via \in {"irq", "recover"} : eq_take(via)
      PROVE  Shrinks
    BY Zenon, <1>0, <1>5, QuietDevice, LiveKeeps
<1>6. ASSUME Mgr PROVE Shrinks
    BY Zenon, <1>0, <1>6, QuietMgr, LiveKeeps
<1>7. ASSUME UNCHANGED vars PROVE Shrinks
  <2>1. UNCHANGED <<pc, frame, queue, pending>>
    BY Zenon, <1>7 DEF vars, entVars, cmdVars, thrVars
  <2>2. \A d \in Cmds : Queued(d)' <=> Queued(d)
    BY <2>1 DEF Queued
  <2> QED
    BY Zenon, <2>1, <2>2 DEF Live, Stage, cur
<1> QED
    BY Zenon, <1>1, <1>3, <1>4, <1>5, <1>6, <1>7, LiveHandsOn DEF Next

-----------------------------------------------------------------------------
(* Where the threads of asynchronous commands go.                          *)

\* Places outside mlx5_cmd_comp_handler.
OutPCs(t) == (PCs \ (CompPCs \cup {"free_idx"})) \cap (IF t \in Async THEN AsyncPCs ELSE PCs)

\* A jump out of mlx5_cmd_comp_handler, or elsewhere.
LEMMA GotoCtx ==
    ASSUME TypeInv, NEW t \in Threads, NEW p \in OutPCs(t), Goto(t, p) \/ Enter(t, p)
    PROVE  CtxLocal(t)'
<1>1. pc'[t] = p
    BY DEF Goto, Enter, TypeInv, TypeOK, ThrType
<1>2. p \notin CompPCs /\ p # "free_idx" /\ (t \in Async => p \in AsyncPCs)
    BY DEF OutPCs
<1>3. p \notin {"c_put", "c_cb"}
    BY <1>2 DEF CompPCs
<1> QED
    BY Zenon, <1>1, <1>2, <1>3 DEF CtxLocal, CbPlace, InsideComp

\* A call of mlx5_cmd_comp_handler; the timeout work comes back to its put.
LEMMA CallCtx ==
    ASSUME TypeInv, NEW t \in Threads, NEW s, NEW y, NEW p, CallComp(t, s, y, p),
           t \in Async => p = "t_put"
    PROVE  CtxLocal(t)'
<1>1. pc'[t] = "c_tac" /\ frame'[t].back = p
    BY DEF CallComp, Goto, Frames, TypeInv, TypeOK, ThrType
<1>2. "c_tac" \in AsyncPCs /\ "c_tac" \notin {"c_put", "c_cb"} /\ "c_tac" # "free_idx"
    BY DEF AsyncPCs, CompPCs
<1> QED
    BY Zenon, <1>1, <1>2 DEF CtxLocal, CbPlace, InsideComp

\* cmd_ent_put outside mlx5_cmd_comp_handler, or at its end.
LEMMA PutCtx ==
    ASSUME TypeInv, NEW t \in Threads, NEW c, NEW p \in OutPCs(t), cmd_ent_put(t, c, p),
           t \in Async => p \in {"t_put", "end"}
    PROVE  CtxLocal(t)'
<1>1. CASE Enter(t, p)
    BY Zenon, <1>1, GotoCtx
<1>2. CASE /\ Goto(t, "free_idx")
           /\ frame' = [frame EXCEPT ![t] = [@ EXCEPT !.ent = c, !.cont = p]]
  <2>1. pc'[t] = "free_idx" /\ frame'[t].cont = p
    BY <1>2 DEF Goto, Frames, TypeInv, TypeOK, ThrType
  <2>2. p \notin CompPCs /\ p # "c_cb"
    BY DEF OutPCs, CompPCs
  <2>3. /\ "free_idx" \in AsyncPCs /\ "free_idx" \notin CompPCs
        /\ "free_idx" # "c_put" /\ "free_idx" # "c_cb"
    BY DEF AsyncPCs, CompPCs
  <2> QED
    BY Zenon, <2>1, <2>2, <2>3 DEF CtxLocal, CbPlace, InsideComp
<1> QED
    BY Zenon, <1>1, <1>2 DEF cmd_ent_put

\* From one place of mlx5_cmd_comp_handler to another, for the same command.
LEMMA InsideCtx ==
    ASSUME NEW t \in Threads, CtxLocal(t), InsideComp(t), NEW p \in CompPCs,
           frame'[t].ent = frame[t].ent, frame'[t].back = frame[t].back,
           pc'[t] = p \/ (pc'[t] = "free_idx" /\ frame'[t].cont = p),
           p \in {"c_put", "c_cb"} => cur(t) \in Async
    PROVE  CtxLocal(t)'
<1>1. /\ "free_idx" \in AsyncPCs /\ "free_idx" \notin CompPCs
      /\ "free_idx" # "c_put" /\ "free_idx" # "c_cb" /\ CompPCs \subseteq AsyncPCs
    BY DEF AsyncPCs, CompPCs
<1>2. cur(t)' = cur(t) /\ (t \in Async => frame'[t].back = "t_put")
    BY Zenon DEF cur, CtxLocal
<1>3. CbPlace(t)' => cur(t)' \in Async
  <2>1. CbPlace(t)' => p \in {"c_put", "c_cb"}
    BY Zenon, <1>1 DEF CbPlace
  <2> QED
    BY Zenon, <1>2, <2>1
<1>4. pc'[t] \in AsyncPCs /\ (pc'[t] = "free_idx" => frame'[t].cont \in CompPCs)
    BY Zenon, <1>1
<1> QED
    BY Zenon, <1>2, <1>3, <1>4 DEF CtxLocal

\* The caller, the timeout work, and the device.
LEMMA CtxCaller ==
    ASSUME TypeInv, NEW c \in Cmds, CtxLocal(c),
           \/ cmd_exec(c) \/ cmd_exec_rejected(c) \/ cmd_exec_nomem(c)
           \/ Serve(c) \/ Expire(c)
    PROVE  CtxLocal(c)'
<1>t. c \in Threads
    BY Zenon DEF Threads
<1>1. CallerPCs \ AsyncPCs = {"wait_h", "wait_d", "wait_p", "recover", "rewait", "expired", "ret"}
    BY DEF CallerPCs, AsyncPCs, CompPCs
<1>2. CallerPCs \subseteq PCs \ (CompPCs \cup {"free_idx"})
    BY DEF CallerPCs, PCs, CompPCs
<1>3. "w_down" \in PCs \ (CompPCs \cup {"free_idx"})
    BY DEF WorkPCs, PCs, CompPCs
<1>4. c \in Async => pc[c] \in AsyncPCs
    BY Zenon DEF CtxLocal
<1>5. {"cb", "end", "t_recover", "t_test", "t_expired", "t_put"} \subseteq OutPCs(c)
    BY <1>2 DEF OutPCs, AsyncPCs, CallerPCs
<1>6. c \notin Async => CallerPCs \cup {"w_down"} \subseteq OutPCs(c)
    BY <1>2, <1>3 DEF OutPCs
<1>7. CASE cmd_exec(c)
  <2>1. \E p \in OutPCs(c) : Goto(c, p)
    <3>1. CASE c \in Async
      <4>1. c \notin Paged
        BY <3>1, CmdIfAssumption
      <4> QED
        BY <1>5, <1>7, <3>1, <4>1 DEF cmd_exec
    <3>2. CASE c \notin Async
      BY <1>6, <1>7, <3>2 DEF cmd_exec, CallerPCs
    <3> QED
      BY Zenon, <3>1, <3>2
  <2> QED
    BY Zenon, <1>t, <2>1, GotoCtx
<1>8. CASE cmd_exec_rejected(c) \/ cmd_exec_nomem(c)
  <2>1. Goto(c, "end")
    BY Zenon, <1>8 DEF cmd_exec_rejected, cmd_exec_nomem
  <2> QED
    BY Zenon, <1>t, <1>5, <2>1, GotoCtx
<1>9. CASE \/ wait_handled(c) \/ wait_done(c) \/ wait_recovered(c) \/ wait_canceled(c)
           \/ wait_timeout(c) \/ wait_exec_timeout(c)
  <2>1. /\ pc[c] \in {"wait_h", "wait_d", "wait_p", "recover", "rewait"}
        /\ \E p \in CallerPCs : Goto(c, p)
    BY <1>9 DEF wait_handled, wait_done, wait_recovered, wait_canceled, wait_timeout,
                wait_exec_timeout, CallerPCs
  <2>2. c \notin Async
    BY <1>1, <1>4, <2>1
  <2> QED
    BY Zenon, <1>t, <1>6, <2>1, <2>2, GotoCtx
<1>10. CASE wait_force(c)
  <2>1. c \notin Async /\ "ret" \in CallerPCs
    BY <1>1, <1>4, <1>10 DEF wait_force, CallerPCs
  <2>2. Goto(c, "ret") \/ CallComp(c, idx[c], "FORCED", "ret")
    BY Zenon, <1>10 DEF wait_force, ForceComp
  <2> QED
    BY Zenon, <1>t, <1>6, <2>1, <2>2, GotoCtx, CallCtx
<1>11. CASE invoke_return(c) \/ timer_put(c)
  <2>1. cmd_ent_put(c, c, "end")
    BY Zenon, <1>11 DEF invoke_return, timer_put
  <2> QED
    BY Zenon, <1>t, <1>5, <2>1, PutCtx
<1>12. CASE timer_fires(c) \/ timer_recovered(c) \/ timer_test(c)
  <2>1. \E p \in {"t_recover", "t_test", "t_expired", "t_put"} : Goto(c, p)
    BY <1>12 DEF timer_fires, timer_recovered, timer_test
  <2> QED
    BY Zenon, <1>t, <1>5, <2>1, GotoCtx
<1>13. CASE timer_force(c)
  <2>1. Goto(c, "t_put") \/ CallComp(c, idx[c], "FORCED", "t_put")
    BY Zenon, <1>13 DEF timer_force, ForceComp
  <2> QED
    BY Zenon, <1>t, <1>5, <2>1, GotoCtx, CallCtx
<1> QED
    BY Zenon, <1>7, <1>8, <1>9, <1>10, <1>11, <1>12, <1>13 DEF Serve, Expire

\* cmd_work_handler, which no asynchronous command runs itself.
LEMMA CtxWork ==
    ASSUME TypeInv, NEW t \in Threads, CtxLocal(t), Work(t)
    PROVE  CtxLocal(t)'
<1>1. pc[t] \in WorkPCs /\ \E p \in PCs \ {"free_idx", "c_put", "c_cb"} : Goto(t, p)
  <2>1. CASE \/ work_down(t) \/ cmd_alloc_index(t) \/ alloc_index_failed(t) \/ work_noidx_up(t)
             \/ work_arr(t) \/ work_arm(t) \/ work_get(t)
    BY <2>1 DEF work_down, cmd_alloc_index, alloc_index_failed, work_noidx_up, work_arr,
                work_arm, work_get, Enter, AfterWork, WorkPCs, PCs, CallerPCs
  <2>2. CASE work_check(t) \/ work_doorbell(t) \/ work_polled(t) \/ work_poll_timeout(t)
    BY <2>2 DEF work_check, work_doorbell, work_polled, work_poll_timeout, Enter, CallComp,
                AfterWork, WorkPCs, PCs, CallerPCs, CompPCs
  <2> QED
    BY Zenon, <2>1, <2>2 DEF Work
<1>2. WorkPCs \cap AsyncPCs = {}
    BY DEF WorkPCs, AsyncPCs, CompPCs
<1>3. t \notin Async
    BY <1>1, <1>2 DEF CtxLocal
<1>4. pc'[t] \notin {"free_idx", "c_put", "c_cb"}
    BY <1>1 DEF Goto, TypeInv, TypeOK, ThrType
<1>5. ~CbPlace(t)'
    BY <1>4 DEF CbPlace
<1> QED
    BY Zenon, <1>3, <1>5 DEF CtxLocal

\* mlx5_cmd_comp_handler.
LEMMA CtxComp ==
    ASSUME Inv, NEW t \in Threads, CtxLocal(t), Comp(t)
    PROVE  CtxLocal(t)'
<1>0. /\ TypeInv /\ frame[t] \in Frames /\ frame \in [Threads -> Frames] /\ pc \in [Threads -> PCs]
      /\ Local(t) /\ frame[t].back \in BackPCs /\ frame[t].cont \in ContPCs
    BY DEF Inv, OnceInv, TypeInv, TypeOK, ThrType, Frames
<1>p. \A p \in BackPCs \cup {"end"} : p \in PCs \ (CompPCs \cup {"free_idx"})
    BY DEF BackPCs, PCs, CallerPCs, MgrPCs, CompPCs
<1>a. "t_put" \in AsyncPCs /\ "end" \in AsyncPCs
    BY DEF AsyncPCs
<1>b. InsideComp(t) => frame[t].back \in OutPCs(t) /\ (t \in Async => frame[t].back = "t_put")
    BY <1>0, <1>p, <1>a DEF CtxLocal, OutPCs
<1>i. ASSUME NEW p \in CompPCs, InsideComp(t), p \in {"c_put", "c_cb"} => cur(t) \in Async,
             \/ Goto(t, p) /\ UNCHANGED frame
             \/ cmd_ent_put(t, cur(t), p)
      PROVE  CtxLocal(t)'
  <2>1. CASE Goto(t, p) /\ UNCHANGED frame
    <3>1. pc'[t] = p
      BY <1>0, <2>1 DEF Goto
    <3> QED
      BY Zenon, <1>i, <2>1, <3>1, InsideCtx
  <2>2. CASE Enter(t, p)
    <3>1. frame' = [frame EXCEPT ![t] = [frame[t] EXCEPT !.cont = "idle"]] /\ Goto(t, p)
      BY Zenon, <1>i, <2>2 DEF Enter
    <3>2. frame'[t].ent = frame[t].ent /\ frame'[t].back = frame[t].back /\ pc'[t] = p
      BY <1>0, <3>1 DEF Goto, Frames
    <3> QED
      BY Zenon, <1>i, <3>2, InsideCtx
  <2>3. CASE /\ Goto(t, "free_idx")
             /\ frame' = [frame EXCEPT ![t] = [@ EXCEPT !.ent = cur(t), !.cont = p]]
    <3>1. /\ frame'[t].ent = frame[t].ent /\ frame'[t].back = frame[t].back
          /\ pc'[t] = "free_idx" /\ frame'[t].cont = p
      BY <1>0, <2>3 DEF Goto, Frames, cur
    <3> QED
      BY Zenon, <1>i, <3>1, InsideCtx
  <2> QED
    BY Zenon, <1>i, <2>1, <2>2, <2>3 DEF cmd_ent_put
<1>1. CASE comp_test_and_clear(t)
  <2>0. pc[t] = "c_tac" /\ InsideComp(t)
    BY <1>1 DEF comp_test_and_clear, InsideComp, CompPCs
  <2>1. \/ \E c : cmd_ent_put(t, c, frame[t].back)
        \/ Enter(t, frame[t].back)
        \/ \E c : Goto(t, "c_timer") /\ frame' = [frame EXCEPT ![t].ent = c]
    <3> DEFINE c == ent_arr[frame[t].slot]
    <3>1. Skips(t, c) <=> c \notin pending
      BY <1>0 DEF Skips, Local, Inv
    <3> HIDE DEF c
    <3> QED
      BY <1>1, <3>1 DEF comp_test_and_clear, c
  <2>2. CASE \E c : Goto(t, "c_timer") /\ frame' = [frame EXCEPT ![t].ent = c]
    <3>1. pc'[t] = "c_timer" /\ frame'[t].back = frame[t].back
      BY <1>0, <2>2 DEF Goto, Frames
    <3>2. "c_timer" \in AsyncPCs /\ "c_timer" \notin {"c_put", "c_cb"} /\ "c_timer" # "free_idx"
      BY DEF AsyncPCs, CompPCs
    <3> QED
      BY Zenon, <1>b, <2>0, <3>1, <3>2 DEF CtxLocal, CbPlace, InsideComp
  <2> QED
    BY Zenon, <1>0, <1>b, <2>0, <2>1, <2>2, PutCtx, GotoCtx
<1>2. CASE comp_cancel_timer(t) \/ comp_put_fw(t) \/ comp_callback(t)
  <2>1. \E p \in {"c_fw", "c_fin", "c_up"} :
           (Goto(t, p) /\ UNCHANGED frame) \/ cmd_ent_put(t, cur(t), p)
    BY <1>2 DEF comp_cancel_timer, comp_put_fw, comp_callback
  <2>2. InsideComp(t) /\ \A p \in {"c_fw", "c_fin", "c_up"} : p \in CompPCs /\ p \notin {"c_put", "c_cb"}
    BY <1>2 DEF comp_cancel_timer, comp_put_fw, comp_callback, InsideComp, CompPCs
  <2> QED
    BY Zenon, <1>i, <2>1, <2>2
<1>3. CASE comp_finish(t)
  <2>1. /\ \/ Goto(t, "c_put") /\ cur(t) \in Async
           \/ Goto(t, "c_up")
        /\ UNCHANGED frame \/ \E r : frame' = [frame EXCEPT ![t].err = r]
    BY <1>3 DEF comp_finish
  <2>2. frame'[t].ent = frame[t].ent /\ frame'[t].back = frame[t].back
    BY <1>0, <2>1 DEF Frames
  <2>3. InsideComp(t) /\ "c_put" \in CompPCs /\ "c_up" \in CompPCs /\ "c_up" \notin {"c_put", "c_cb"}
    BY <1>3 DEF comp_finish, InsideComp, CompPCs
  <2>4. (pc'[t] = "c_put" /\ cur(t) \in Async) \/ pc'[t] = "c_up"
    BY <1>0, <2>1 DEF Goto
  <2> QED
    BY Zenon, <2>2, <2>3, <2>4, InsideCtx
<1>4. CASE comp_put(t)
  <2>1. InsideComp(t) /\ CbPlace(t) /\ "c_cb" \in CompPCs /\ cmd_ent_put(t, cur(t), "c_cb")
    BY <1>4 DEF comp_put, InsideComp, CbPlace, CompPCs
  <2> QED
    BY Zenon, <1>i, <2>1 DEF CtxLocal
<1>5. CASE comp_up(t)
  <2>1. InsideComp(t) /\ Enter(t, frame[t].back)
    BY <1>5 DEF comp_up, InsideComp, CompPCs
  <2> QED
    BY Zenon, <1>0, <1>b, <2>1, GotoCtx
<1>6. CASE cmd_free_index(t)
  <2>0. pc[t] = "free_idx" /\ Enter(t, frame[t].cont)
    BY Zenon, <1>6 DEF cmd_free_index
  <2>1. CASE frame[t].cont \in CompPCs
    <3>1. /\ frame'[t].ent = frame[t].ent /\ frame'[t].back = frame[t].back
          /\ pc'[t] = frame[t].cont
      BY <1>0, <2>0, <2>1 DEF Enter, Goto, Frames
    <3>2. frame[t].cont # "c_put"
      BY <1>0 DEF ContPCs, BackPCs
    <3>3. InsideComp(t) /\ (frame[t].cont \in {"c_put", "c_cb"} => CbPlace(t))
      BY <2>0, <2>1, <3>2 DEF InsideComp, CbPlace
    <3> QED
      BY Zenon, <2>1, <3>1, <3>3, InsideCtx DEF CtxLocal
  <2>2. CASE frame[t].cont \notin CompPCs
    <3>1. frame[t].cont \in BackPCs \cup {"end"}
      BY <1>0, <2>2 DEF ContPCs, CompPCs
    <3>2. t \in Async => frame[t].cont \in {"t_put", "end"}
      BY <2>0, <2>2 DEF CtxLocal
    <3>3. frame[t].cont \in OutPCs(t)
      BY <1>p, <1>a, <3>1, <3>2 DEF OutPCs
    <3> QED
      BY Zenon, <1>0, <2>0, <3>3, GotoCtx
  <2> QED
    BY Zenon, <2>1, <2>2
<1> QED
    BY Zenon, <1>1, <1>2, <1>3, <1>4, <1>5, <1>6 DEF Comp

\* The event handler, the work queue and MGR.
LEMMA CtxOthers ==
    ASSUME TypeInv
    PROVE  /\ work_start => CtxLocal(WQ)'
           /\ (\E via \in {"irq", "recover"} : eq_take(via)) => CtxLocal(EQ)'
           /\ Mgr => CtxLocal(MGR)'
<1>t. {WQ, EQ, MGR} \subseteq Threads /\ WQ \notin Async /\ EQ \notin Async /\ MGR \notin Async
    BY CmdIfAssumption DEF Threads
<1>p. pc \in [Threads -> PCs]
    BY DEF TypeInv, TypeOK, ThrType
<1>0. ASSUME NEW t \in {WQ, EQ, MGR}, NEW p, Goto(t, p), p \notin {"c_put", "c_cb", "free_idx"}
      PROVE  CtxLocal(t)'
  <2>1. pc'[t] = p /\ t \notin Async
    BY <1>0, <1>t, <1>p DEF Goto
  <2>2. ~CbPlace(t)'
    BY <1>0, <2>1 DEF CbPlace
  <2> QED
    BY Zenon, <2>1, <2>2 DEF CtxLocal
<1>1. ASSUME work_start PROVE CtxLocal(WQ)'
    BY <1>0, <1>1 DEF work_start
<1>2. ASSUME \E via \in {"irq", "recover"} : eq_take(via) PROVE CtxLocal(EQ)'
    BY <1>0, <1>2 DEF eq_take
<1>3. ASSUME Mgr, ~trigger_put PROVE CtxLocal(MGR)'
  <2>1. \E p \in MgrPCs \cup {"idle", "c_tac"} : Goto(MGR, p)
    <3>1. CASE \/ mgr_next \/ cleanup_async_ctx \/ cleanup_wait \/ drain_down \/ drain_set
               \/ flush_down
      BY <3>1 DEF mgr_next, cleanup_async_ctx, cleanup_wait, drain_down, drain_set, flush_down,
                  MgrPCs
    <3>2. CASE \/ flush_trylock_fails \/ mgr_up \/ trigger_sync \/ trigger_get \/ trigger_end
      BY <3>2 DEF flush_trylock_fails, mgr_up, trigger_sync, trigger_get, trigger_end, MgrPCs
    <3>3. CASE trigger_comp
      <4>1. Goto(MGR, "c_tac")
        BY Zenon, <3>3 DEF trigger_comp, CallComp
      <4> QED
        BY <4>1
    <3> QED
      BY Zenon, <1>3, <3>1, <3>2, <3>3 DEF Mgr
  <2>2. \A p \in MgrPCs \cup {"idle", "c_tac"} : p \notin {"c_put", "c_cb", "free_idx"}
    BY DEF MgrPCs
  <2> QED
    BY <1>0, <2>1, <2>2
<1>4. ASSUME trigger_put PROVE CtxLocal(MGR)'
  <2>1. \E c : cmd_ent_put(MGR, c, "g_comp")
    BY <1>4 DEF trigger_put
  <2>2. "g_comp" \in OutPCs(MGR)
    BY <1>t DEF OutPCs, PCs, MgrPCs, CompPCs
  <2> QED
    BY Zenon, <1>t, <2>1, <2>2, PutCtx
<1> QED
    BY Zenon, <1>1, <1>2, <1>3, <1>4

=============================================================================
