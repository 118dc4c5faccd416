---------------------------- MODULE CmdIf_proof ----------------------------
(***************************************************************************)
(* Type correctness of the command interface, continued from CmdIf_types:  *)
(* the actions of the callers, the timer, the flush and the firmware, and  *)
(* the theorem.                                                            *)
(***************************************************************************)
EXTENDS CmdIf_types

\* wait_canceled keeps the types.
LEMMA Type_wait_canceled ==
    ASSUME TypeInv, NEW c \in Cmds, wait_canceled(c)
    PROVE  TypeInv'
<1> USE CmdIfAssumption DEF wait_canceled
<1>1. ThrInv' /\ \A u \in Threads \ {c} : pc'[u] = pc[u]
    BY GotoThr DEF Threads, Goto, Busy, Slotted, PCs, CallerPCs, WorkPCs, CompPCs, MgrPCs, entVars, cmdVars, fwVars, thrVars, mgrVars, hisVars
<1>2. EntType' /\ CmdType' /\ FwType' /\ MgrType' /\ HisType'
  <2>1. EntType'
    BY <1>1 DEF TypeInv, TypeOK, EntType, entVars, cmdVars, fwVars, thrVars, mgrVars, hisVars, Rets
  <2>2. CmdType'
    <3>1. UNCHANGED <<sem, pages_sem, bitmask, ent_arr, mode, allowed, down>>
          /\ \E i \in DOMAIN queue :
                queue' = SubSeq(queue, 1, i - 1) \o SubSeq(queue, i + 1, Len(queue))
      BY DEF wait_canceled
    <3> HIDE CmdIfAssumption DEF wait_canceled
    <3>2. queue \in Seq(Cmds)
      BY DEF TypeInv, TypeOK, CmdType
    <3>d. DOMAIN queue = 1 .. Len(queue)
      BY <3>2
    <3>3. PICK i \in 1 .. Len(queue) :
            queue' = SubSeq(queue, 1, i - 1) \o SubSeq(queue, i + 1, Len(queue))
      BY <3>1, <3>d
    <3>4. Len(queue) \in Nat /\ i \in Nat /\ 1 <= i /\ i <= Len(queue)
      BY <3>2
    <3>5. SubSeq(queue, 1, i - 1) \in Seq(Cmds)
      BY <3>2, <3>4
    <3>6. SubSeq(queue, i + 1, Len(queue)) \in Seq(Cmds)
      BY <3>2, <3>4
    <3>7. queue' \in Seq(Cmds)
      BY <3>3, <3>5, <3>6
    <3> QED
      BY <3>1, <3>2, <3>3, <3>4, <3>5, <3>6, <3>7 DEF TypeInv, TypeOK, CmdType
  <2>3. FwType'
    BY <1>1 DEF TypeInv, TypeOK, FwType, entVars, cmdVars, fwVars, thrVars, mgrVars, hisVars
  <2>4. MgrType'
    BY <1>1 DEF TypeInv, TypeOK, MgrType, entVars, cmdVars, fwVars, thrVars, mgrVars, hisVars
  <2>5. HisType'
    BY <1>1 DEF TypeInv, TypeOK, HisType, entVars, cmdVars, fwVars, thrVars, mgrVars, hisVars, Rets
  <2> QED
    BY <2>1, <2>2, <2>3, <2>4, <2>5
<1>3. SlotLocals' /\ GotLocal'
    BY <1>1, QuietLocals DEF Threads, entVars, cmdVars, fwVars, thrVars, mgrVars, hisVars
<1> QED
    BY <1>1, <1>2, <1>3 DEF TypeInv, TypeOK, ThrInv

\* wait_handled keeps the types.
LEMMA Type_wait_handled ==
    ASSUME TypeInv, NEW c \in Cmds, wait_handled(c)
    PROVE  TypeInv'
<1> USE CmdIfAssumption DEF wait_handled
<1>1. ThrInv' /\ \A u \in Threads \ {c} : pc'[u] = pc[u]
    BY GotoThr DEF Threads, Goto, Busy, Slotted, PCs, CallerPCs, WorkPCs, CompPCs, MgrPCs, entVars, cmdVars, fwVars, thrVars, mgrVars, hisVars
<1>2. EntType' /\ CmdType' /\ FwType' /\ MgrType' /\ HisType'
    BY <1>1 DEF TypeInv, TypeOK, EntType, CmdType, FwType, MgrType, HisType, Rets, entVars, cmdVars, fwVars, thrVars, mgrVars, hisVars
<1>3. SlotLocals' /\ GotLocal'
    BY <1>1, QuietLocals DEF Threads, entVars, cmdVars, fwVars, thrVars, mgrVars, hisVars
<1> QED
    BY <1>1, <1>2, <1>3 DEF TypeInv, TypeOK, ThrInv

\* wait_done keeps the types.
LEMMA Type_wait_done ==
    ASSUME TypeInv, NEW c \in Cmds, wait_done(c)
    PROVE  TypeInv'
<1> USE CmdIfAssumption DEF wait_done
<1>1. ThrInv' /\ \A u \in Threads \ {c} : pc'[u] = pc[u]
    BY GotoThr DEF Threads, Goto, Busy, Slotted, PCs, CallerPCs, WorkPCs, CompPCs, MgrPCs, entVars, cmdVars, fwVars, thrVars, mgrVars, hisVars
<1>2. EntType' /\ CmdType' /\ FwType' /\ MgrType' /\ HisType'
    BY <1>1 DEF TypeInv, TypeOK, EntType, CmdType, FwType, MgrType, HisType, Rets, entVars, cmdVars, fwVars, thrVars, mgrVars, hisVars
<1>3. SlotLocals' /\ GotLocal'
    BY <1>1, QuietLocals DEF Threads, entVars, cmdVars, fwVars, thrVars, mgrVars, hisVars
<1> QED
    BY <1>1, <1>2, <1>3 DEF TypeInv, TypeOK, ThrInv

\* wait_timeout keeps the types.
LEMMA Type_wait_timeout ==
    ASSUME TypeInv, NEW c \in Cmds, wait_timeout(c)
    PROVE  TypeInv'
<1> USE CmdIfAssumption DEF wait_timeout
<1>1. ThrInv' /\ \A u \in Threads \ {c} : pc'[u] = pc[u]
    BY GotoThr DEF Threads, Goto, Busy, Slotted, PCs, CallerPCs, WorkPCs, CompPCs, MgrPCs, entVars, cmdVars, fwVars, thrVars, mgrVars, hisVars
<1>2. EntType' /\ CmdType' /\ FwType' /\ MgrType' /\ HisType'
    BY <1>1 DEF TypeInv, TypeOK, EntType, CmdType, FwType, MgrType, HisType, Rets, entVars, cmdVars, fwVars, thrVars, mgrVars, hisVars
<1>3. SlotLocals' /\ GotLocal'
    BY <1>1, QuietLocals DEF Threads, entVars, cmdVars, fwVars, thrVars, mgrVars, hisVars
<1> QED
    BY <1>1, <1>2, <1>3 DEF TypeInv, TypeOK, ThrInv

\* wait_recovered keeps the types.
LEMMA Type_wait_recovered ==
    ASSUME TypeInv, NEW c \in Cmds, wait_recovered(c)
    PROVE  TypeInv'
<1> USE CmdIfAssumption DEF wait_recovered
<1>1. ThrInv' /\ \A u \in Threads \ {c} : pc'[u] = pc[u]
    BY GotoThr DEF Threads, Goto, Busy, Slotted, PCs, CallerPCs, WorkPCs, CompPCs, MgrPCs, entVars, cmdVars, fwVars, thrVars, mgrVars, hisVars
<1>2. EntType' /\ CmdType' /\ FwType' /\ MgrType' /\ HisType'
    BY <1>1 DEF TypeInv, TypeOK, EntType, CmdType, FwType, MgrType, HisType, Rets, entVars, cmdVars, fwVars, thrVars, mgrVars, hisVars
<1>3. SlotLocals' /\ GotLocal'
    BY <1>1, QuietLocals DEF Threads, entVars, cmdVars, fwVars, thrVars, mgrVars, hisVars
<1> QED
    BY <1>1, <1>2, <1>3 DEF TypeInv, TypeOK, ThrInv

\* wait_exec_timeout keeps the types.
LEMMA Type_wait_exec_timeout ==
    ASSUME TypeInv, NEW c \in Cmds, wait_exec_timeout(c)
    PROVE  TypeInv'
<1> USE CmdIfAssumption DEF wait_exec_timeout
<1>1. ThrInv' /\ \A u \in Threads \ {c} : pc'[u] = pc[u]
    BY GotoThr DEF Threads, Goto, Busy, Slotted, PCs, CallerPCs, WorkPCs, CompPCs, MgrPCs, entVars, cmdVars, fwVars, thrVars, mgrVars, hisVars
<1>2. EntType' /\ CmdType' /\ FwType' /\ MgrType' /\ HisType'
    BY <1>1 DEF TypeInv, TypeOK, EntType, CmdType, FwType, MgrType, HisType, Rets, entVars, cmdVars, fwVars, thrVars, mgrVars, hisVars
<1>3. SlotLocals' /\ GotLocal'
    BY <1>1, QuietLocals DEF Threads, entVars, cmdVars, fwVars, thrVars, mgrVars, hisVars
<1> QED
    BY <1>1, <1>2, <1>3 DEF TypeInv, TypeOK, ThrInv

\* wait_force keeps the types.
LEMMA Type_wait_force ==
    ASSUME TypeInv, NEW c \in Cmds, wait_force(c)
    PROVE  TypeInv'
<1> USE CmdIfAssumption DEF wait_force
<1>0. idx[c] = NoIdx \/ idx[c] \in Slots
    BY DEF TypeInv, TypeOK, EntType
<1>1. ThrInv' /\ \A u \in Threads \ {c} : pc'[u] = pc[u]
    BY <1>0, GotoThr, CallThr DEF Threads, ForceComp, BackPCs, Goto, Busy, Slotted, PCs, CallerPCs, WorkPCs, CompPCs, MgrPCs, entVars, cmdVars, fwVars, thrVars, mgrVars, hisVars
<1>2. EntType' /\ CmdType' /\ FwType' /\ MgrType' /\ HisType'
    BY <1>0, <1>1 DEF TypeInv, TypeOK, EntType, CmdType, FwType, MgrType, HisType, Rets, entVars, cmdVars, fwVars, thrVars, mgrVars, hisVars, TimedOut
<1>3. SlotLocals' /\ GotLocal'
    BY <1>1, QuietLocals DEF Threads, entVars, cmdVars, fwVars, thrVars, mgrVars, hisVars
<1> QED
    BY <1>1, <1>2, <1>3 DEF TypeInv, TypeOK, ThrInv

\* timer_force keeps the types.
LEMMA Type_timer_force ==
    ASSUME TypeInv, NEW c \in Cmds, timer_force(c)
    PROVE  TypeInv'
<1> USE CmdIfAssumption DEF timer_force
<1>0. idx[c] = NoIdx \/ idx[c] \in Slots
    BY DEF TypeInv, TypeOK, EntType
<1>1. ThrInv' /\ \A u \in Threads \ {c} : pc'[u] = pc[u]
    BY <1>0, GotoThr, CallThr DEF Threads, ForceComp, BackPCs, Goto, Busy, Slotted, PCs, CallerPCs, WorkPCs, CompPCs, MgrPCs, entVars, cmdVars, fwVars, thrVars, mgrVars, hisVars
<1>2. EntType' /\ CmdType' /\ FwType' /\ MgrType' /\ HisType'
    BY <1>0, <1>1 DEF TypeInv, TypeOK, EntType, CmdType, FwType, MgrType, HisType, Rets, entVars, cmdVars, fwVars, thrVars, mgrVars, hisVars, TimedOut
<1>3. SlotLocals' /\ GotLocal'
    BY <1>1, QuietLocals DEF Threads, entVars, cmdVars, fwVars, thrVars, mgrVars, hisVars
<1> QED
    BY <1>1, <1>2, <1>3 DEF TypeInv, TypeOK, ThrInv

\* invoke_return keeps the types.
LEMMA Type_invoke_return ==
    ASSUME TypeInv, NEW c \in Cmds, invoke_return(c)
    PROVE  TypeInv'
<1> USE CmdIfAssumption DEF invoke_return
<1>0. c \in Threads /\ "end" \in ContPCs /\ "end" \notin CompPCs
    BY DEF Threads, ContPCs, CompPCs
<1>1. ThrInv' /\ \A u \in Threads \ {c} : pc'[u] = pc[u]
    BY <1>0, PutThr DEF Threads, entVars, cmdVars, fwVars, thrVars, mgrVars, hisVars
<1>2. EntType' /\ CmdType' /\ FwType' /\ MgrType' /\ HisType'
  <2>1. EntType'
    BY <1>0, PutThr DEF TypeInv, TypeOK, EntType
  <2>2. CmdType'
    BY <1>0, <1>1 DEF TypeInv, TypeOK, CmdType, entVars, cmdVars, fwVars, thrVars, mgrVars, hisVars
  <2>3. FwType'
    BY <1>0, <1>1 DEF TypeInv, TypeOK, FwType, entVars, cmdVars, fwVars, thrVars, mgrVars, hisVars
  <2>4. MgrType'
    BY <1>0, <1>1 DEF TypeInv, TypeOK, MgrType, entVars, cmdVars, fwVars, thrVars, mgrVars, hisVars
  <2>5. HisType'
    BY <1>0, <1>1 DEF TypeInv, TypeOK, HisType, entVars, cmdVars, fwVars, thrVars, mgrVars, hisVars, EntType, Rets
  <2> QED
    BY <2>1, <2>2, <2>3, <2>4, <2>5
<1>3. SlotLocals' /\ GotLocal'
    BY <1>1, QuietLocals DEF Threads, entVars, cmdVars, fwVars, thrVars, mgrVars, hisVars
<1> QED
    BY <1>1, <1>2, <1>3 DEF TypeInv, TypeOK, ThrInv

\* timer_fires keeps the types.
LEMMA Type_timer_fires ==
    ASSUME TypeInv, NEW c \in Cmds, timer_fires(c)
    PROVE  TypeInv'
<1> USE CmdIfAssumption DEF timer_fires
<1>1. ThrInv' /\ \A u \in Threads \ {c} : pc'[u] = pc[u]
    BY GotoThr DEF Threads, Goto, Busy, Slotted, PCs, CallerPCs, WorkPCs, CompPCs, MgrPCs, entVars, cmdVars, fwVars, thrVars, mgrVars, hisVars
<1>2. EntType' /\ CmdType' /\ FwType' /\ MgrType' /\ HisType'
    BY <1>1 DEF TypeInv, TypeOK, EntType, CmdType, FwType, MgrType, HisType, Rets, entVars, cmdVars, fwVars, thrVars, mgrVars, hisVars
<1>3. SlotLocals' /\ GotLocal'
    BY <1>1, QuietLocals DEF Threads, entVars, cmdVars, fwVars, thrVars, mgrVars, hisVars
<1> QED
    BY <1>1, <1>2, <1>3 DEF TypeInv, TypeOK, ThrInv

\* timer_recovered keeps the types.
LEMMA Type_timer_recovered ==
    ASSUME TypeInv, NEW c \in Cmds, timer_recovered(c)
    PROVE  TypeInv'
<1> USE CmdIfAssumption DEF timer_recovered
<1>1. ThrInv' /\ \A u \in Threads \ {c} : pc'[u] = pc[u]
    BY GotoThr DEF Threads, Goto, Busy, Slotted, PCs, CallerPCs, WorkPCs, CompPCs, MgrPCs, entVars, cmdVars, fwVars, thrVars, mgrVars, hisVars
<1>2. EntType' /\ CmdType' /\ FwType' /\ MgrType' /\ HisType'
    BY <1>1 DEF TypeInv, TypeOK, EntType, CmdType, FwType, MgrType, HisType, Rets, entVars, cmdVars, fwVars, thrVars, mgrVars, hisVars
<1>3. SlotLocals' /\ GotLocal'
    BY <1>1, QuietLocals DEF Threads, entVars, cmdVars, fwVars, thrVars, mgrVars, hisVars
<1> QED
    BY <1>1, <1>2, <1>3 DEF TypeInv, TypeOK, ThrInv

\* timer_test keeps the types.
LEMMA Type_timer_test ==
    ASSUME TypeInv, NEW c \in Cmds, timer_test(c)
    PROVE  TypeInv'
<1> USE CmdIfAssumption DEF timer_test
<1>1. ThrInv' /\ \A u \in Threads \ {c} : pc'[u] = pc[u]
    BY GotoThr DEF Threads, Goto, Busy, Slotted, PCs, CallerPCs, WorkPCs, CompPCs, MgrPCs, entVars, cmdVars, fwVars, thrVars, mgrVars, hisVars
<1>2. EntType' /\ CmdType' /\ FwType' /\ MgrType' /\ HisType'
    BY <1>1 DEF TypeInv, TypeOK, EntType, CmdType, FwType, MgrType, HisType, Rets, entVars, cmdVars, fwVars, thrVars, mgrVars, hisVars
<1>3. SlotLocals' /\ GotLocal'
    BY <1>1, QuietLocals DEF Threads, entVars, cmdVars, fwVars, thrVars, mgrVars, hisVars
<1> QED
    BY <1>1, <1>2, <1>3 DEF TypeInv, TypeOK, ThrInv

\* timer_put keeps the types.
LEMMA Type_timer_put ==
    ASSUME TypeInv, NEW c \in Cmds, timer_put(c)
    PROVE  TypeInv'
<1> USE CmdIfAssumption DEF timer_put
<1>0. c \in Threads /\ "end" \in ContPCs /\ "end" \notin CompPCs
    BY DEF Threads, ContPCs, CompPCs
<1>1. ThrInv' /\ \A u \in Threads \ {c} : pc'[u] = pc[u]
    BY <1>0, PutThr DEF Threads, entVars, cmdVars, fwVars, thrVars, mgrVars, hisVars
<1>2. EntType' /\ CmdType' /\ FwType' /\ MgrType' /\ HisType'
  <2>1. EntType'
    BY <1>0, PutThr DEF TypeInv, TypeOK, EntType
  <2>2. CmdType'
    BY <1>0, <1>1 DEF TypeInv, TypeOK, CmdType, entVars, cmdVars, fwVars, thrVars, mgrVars, hisVars
  <2>3. FwType'
    BY <1>0, <1>1 DEF TypeInv, TypeOK, FwType, entVars, cmdVars, fwVars, thrVars, mgrVars, hisVars
  <2>4. MgrType'
    BY <1>0, <1>1 DEF TypeInv, TypeOK, MgrType, entVars, cmdVars, fwVars, thrVars, mgrVars, hisVars
  <2>5. HisType'
    BY <1>0, <1>1 DEF TypeInv, TypeOK, HisType, entVars, cmdVars, fwVars, thrVars, mgrVars, hisVars, Rets
  <2> QED
    BY <2>1, <2>2, <2>3, <2>4, <2>5
<1>3. SlotLocals' /\ GotLocal'
    BY <1>1, QuietLocals DEF Threads, entVars, cmdVars, fwVars, thrVars, mgrVars, hisVars
<1> QED
    BY <1>1, <1>2, <1>3 DEF TypeInv, TypeOK, ThrInv

\* mgr_next keeps the types.
LEMMA Type_mgr_next ==
    ASSUME TypeInv, mgr_next
    PROVE  TypeInv'
<1> USE CmdIfAssumption DEF mgr_next
<1>1. ThrInv' /\ \A u \in Threads \ {MGR} : pc'[u] = pc[u]
    BY GotoThr DEF Threads, Goto, Busy, Slotted, PCs, CallerPCs, WorkPCs, CompPCs, MgrPCs, entVars, cmdVars, fwVars, thrVars, mgrVars, hisVars
<1>2. EntType' /\ CmdType' /\ FwType' /\ MgrType' /\ HisType'
    BY <1>1 DEF TypeInv, TypeOK, EntType, CmdType, FwType, MgrType, HisType, Rets, entVars, cmdVars, fwVars, thrVars, mgrVars, hisVars
<1>3. SlotLocals' /\ GotLocal'
    BY <1>1, QuietLocals DEF Threads, entVars, cmdVars, fwVars, thrVars, mgrVars, hisVars
<1> QED
    BY <1>1, <1>2, <1>3 DEF TypeInv, TypeOK, ThrInv

\* cleanup_async_ctx keeps the types.
LEMMA Type_cleanup_async_ctx ==
    ASSUME TypeInv, cleanup_async_ctx
    PROVE  TypeInv'
<1> USE CmdIfAssumption DEF cleanup_async_ctx
<1>1. ThrInv' /\ \A u \in Threads \ {MGR} : pc'[u] = pc[u]
    BY GotoThr DEF Threads, Goto, Busy, Slotted, PCs, CallerPCs, WorkPCs, CompPCs, MgrPCs, entVars, cmdVars, fwVars, thrVars, mgrVars, hisVars
<1>2. EntType' /\ CmdType' /\ FwType' /\ MgrType' /\ HisType'
  <2>1. EntType'
    BY DEF TypeInv, TypeOK, EntType, entVars, cmdVars, fwVars, thrVars, mgrVars, hisVars, Rets
  <2>2. CmdType'
    BY DEF TypeInv, TypeOK, CmdType, entVars, cmdVars, fwVars, thrVars, mgrVars, hisVars
  <2>3. FwType'
    BY DEF TypeInv, TypeOK, FwType, entVars, cmdVars, fwVars, thrVars, mgrVars, hisVars
  <2>4. MgrType'
    <3>1. UNCHANGED <<script, got, vec, held>> /\ num_inflight' = num_inflight - 1
      BY DEF cleanup_async_ctx, mgrVars
    <3> HIDE CmdIfAssumption DEF cleanup_async_ctx
    <3>2. num_inflight' \in Int
      BY <3>1 DEF TypeInv, TypeOK, MgrType
    <3> QED
      BY <3>1, <3>2 DEF TypeInv, TypeOK, MgrType
  <2>5. HisType'
    BY DEF TypeInv, TypeOK, HisType, entVars, cmdVars, fwVars, thrVars, mgrVars, hisVars, Rets
  <2> QED
    BY <2>1, <2>2, <2>3, <2>4, <2>5
<1>3. SlotLocals' /\ GotLocal'
    BY <1>1, QuietLocals DEF Threads, entVars, cmdVars, fwVars, thrVars, mgrVars, hisVars
<1> QED
    BY <1>1, <1>2, <1>3 DEF TypeInv, TypeOK, ThrInv

\* flush_trylock_fails keeps the types.
LEMMA Type_flush_trylock_fails ==
    ASSUME TypeInv, flush_trylock_fails
    PROVE  TypeInv'
<1> USE CmdIfAssumption DEF flush_trylock_fails
<1>1. ThrInv' /\ \A u \in Threads \ {MGR} : pc'[u] = pc[u]
    BY GotoThr DEF Threads, Goto, Busy, Slotted, PCs, CallerPCs, WorkPCs, CompPCs, MgrPCs, entVars, cmdVars, fwVars, thrVars, mgrVars, hisVars
<1>2. EntType' /\ CmdType' /\ FwType' /\ MgrType' /\ HisType'
    BY <1>1 DEF TypeInv, TypeOK, EntType, CmdType, FwType, MgrType, HisType, Rets, entVars, cmdVars, fwVars, thrVars, mgrVars, hisVars
<1>3. SlotLocals' /\ GotLocal'
    BY <1>1, QuietLocals DEF Threads, entVars, cmdVars, fwVars, thrVars, mgrVars, hisVars
<1> QED
    BY <1>1, <1>2, <1>3 DEF TypeInv, TypeOK, ThrInv

\* trigger_sync keeps the types.
LEMMA Type_trigger_sync ==
    ASSUME TypeInv, trigger_sync
    PROVE  TypeInv'
<1> USE CmdIfAssumption DEF trigger_sync
<1>1. ThrInv' /\ \A u \in Threads \ {MGR} : pc'[u] = pc[u]
    BY GotoThr DEF Threads, Goto, Busy, Slotted, PCs, CallerPCs, WorkPCs, CompPCs, MgrPCs, entVars, cmdVars, fwVars, thrVars, mgrVars, hisVars
<1>2. EntType' /\ CmdType' /\ FwType' /\ MgrType' /\ HisType'
    BY <1>1 DEF TypeInv, TypeOK, EntType, CmdType, FwType, MgrType, HisType, Rets, entVars, cmdVars, fwVars, thrVars, mgrVars, hisVars
<1>3. SlotLocals' /\ GotLocal'
    BY <1>1, QuietLocals DEF Threads, entVars, cmdVars, fwVars, thrVars, mgrVars, hisVars
<1> QED
    BY <1>1, <1>2, <1>3 DEF TypeInv, TypeOK, ThrInv

\* trigger_end keeps the types.
LEMMA Type_trigger_end ==
    ASSUME TypeInv, trigger_end
    PROVE  TypeInv'
<1> USE CmdIfAssumption DEF trigger_end
<1>1. ThrInv' /\ \A u \in Threads \ {MGR} : pc'[u] = pc[u]
    BY GotoThr DEF Threads, Goto, Busy, Slotted, PCs, CallerPCs, WorkPCs, CompPCs, MgrPCs, entVars, cmdVars, fwVars, thrVars, mgrVars, hisVars
<1>2. EntType' /\ CmdType' /\ FwType' /\ MgrType' /\ HisType'
    BY <1>1 DEF TypeInv, TypeOK, EntType, CmdType, FwType, MgrType, HisType, Rets, entVars, cmdVars, fwVars, thrVars, mgrVars, hisVars
<1>3. SlotLocals' /\ GotLocal'
    BY <1>1, QuietLocals DEF Threads, entVars, cmdVars, fwVars, thrVars, mgrVars, hisVars
<1> QED
    BY <1>1, <1>2, <1>3 DEF TypeInv, TypeOK, ThrInv

\* cleanup_wait keeps the types.
LEMMA Type_cleanup_wait ==
    ASSUME TypeInv, cleanup_wait
    PROVE  TypeInv'
<1> USE CmdIfAssumption DEF cleanup_wait
<1>1. ThrInv' /\ \A u \in Threads \ {MGR} : pc'[u] = pc[u]
    BY GotoThr DEF Threads, Goto, Busy, Slotted, PCs, CallerPCs, WorkPCs, CompPCs, MgrPCs, entVars, cmdVars, fwVars, thrVars, mgrVars, hisVars
<1>2. EntType' /\ CmdType' /\ FwType' /\ MgrType' /\ HisType'
  <2>1. EntType'
    BY <1>1 DEF TypeInv, TypeOK, EntType, entVars, cmdVars, fwVars, thrVars, mgrVars, hisVars, Rets
  <2>2. CmdType'
    BY <1>1 DEF TypeInv, TypeOK, CmdType, entVars, cmdVars, fwVars, thrVars, mgrVars, hisVars
  <2>3. FwType'
    BY <1>1 DEF TypeInv, TypeOK, FwType, entVars, cmdVars, fwVars, thrVars, mgrVars, hisVars
  <2>4. MgrType'
    <3>1. UNCHANGED <<got, num_inflight, vec, held>> /\ script # << >> /\ script' = Tail(script)
      BY DEF cleanup_wait
    <3> HIDE CmdIfAssumption DEF cleanup_wait
    <3>2. script' \in Seq(Ops)
      BY <3>1 DEF TypeInv, TypeOK, MgrType
    <3> QED
      BY <3>1, <3>2 DEF TypeInv, TypeOK, MgrType
  <2>5. HisType'
    BY <1>1 DEF TypeInv, TypeOK, HisType, entVars, cmdVars, fwVars, thrVars, mgrVars, hisVars, Rets
  <2> QED
    BY <2>1, <2>2, <2>3, <2>4, <2>5
<1>3. SlotLocals' /\ GotLocal'
    BY <1>1, QuietLocals DEF Threads, entVars, cmdVars, fwVars, thrVars, mgrVars, hisVars
<1> QED
    BY <1>1, <1>2, <1>3 DEF TypeInv, TypeOK, ThrInv

\* drain_set keeps the types.
LEMMA Type_drain_set ==
    ASSUME TypeInv, drain_set
    PROVE  TypeInv'
<1> USE CmdIfAssumption DEF drain_set
<1>1. ThrInv' /\ \A u \in Threads \ {MGR} : pc'[u] = pc[u]
    BY GotoThr DEF Threads, Goto, Busy, Slotted, PCs, CallerPCs, WorkPCs, CompPCs, MgrPCs, entVars, cmdVars, fwVars, thrVars, mgrVars, hisVars
<1>2. EntType' /\ CmdType' /\ FwType' /\ MgrType' /\ HisType'
  <2>1. EntType'
    BY <1>1 DEF TypeInv, TypeOK, EntType, entVars, cmdVars, fwVars, thrVars, mgrVars, hisVars, Rets
  <2>2. CmdType'
    BY <1>1 DEF TypeInv, TypeOK, CmdType, entVars, cmdVars, fwVars, thrVars, mgrVars, hisVars
  <2>3. FwType'
    BY <1>1 DEF TypeInv, TypeOK, FwType, entVars, cmdVars, fwVars, thrVars, mgrVars, hisVars
  <2>4. MgrType'
    BY <1>1 DEF TypeInv, TypeOK, MgrType, entVars, cmdVars, fwVars, thrVars, mgrVars, hisVars
  <2>5. HisType'
    BY <1>1 DEF TypeInv, TypeOK, HisType, entVars, cmdVars, fwVars, thrVars, mgrVars, hisVars, Rets
  <2> QED
    BY <2>1, <2>2, <2>3, <2>4, <2>5
<1>3. SlotLocals' /\ GotLocal'
  <2>1. SlotLocals'
    BY DEF TypeInv, SlotLocals, entVars, fwVars
  <2>2. MGR \in Threads
    BY DEF Threads
  <2>3. GotLocal'
    BY <2>2 DEF TypeInv, TypeOK, ThrType, GotLocal, Goto, mgrVars
  <2> QED
    BY <2>1, <2>3
<1> QED
    BY <1>1, <1>2, <1>3 DEF TypeInv, TypeOK, ThrInv

\* drain_down keeps the types.
LEMMA Type_drain_down ==
    ASSUME TypeInv, drain_down
    PROVE  TypeInv'
<1> USE CmdIfAssumption DEF drain_down
<1>0. got \in Int /\ got <= NumReg
    BY DEF TypeInv, TypeOK, MgrType, GotLocal
<1>1. ThrInv' /\ \A u \in Threads \ {MGR} : pc'[u] = pc[u]
    BY <1>0, GotoThr DEF Threads, Goto, Busy, Slotted, PCs, CallerPCs, WorkPCs, CompPCs, MgrPCs, entVars, cmdVars, fwVars, thrVars, mgrVars, hisVars
<1>2. EntType' /\ CmdType' /\ FwType' /\ MgrType' /\ HisType'
  <2>1. EntType'
    BY <1>0, <1>1 DEF TypeInv, TypeOK, EntType, entVars, cmdVars, fwVars, thrVars, mgrVars, hisVars, Rets
  <2>2. CmdType'
    <3>1. UNCHANGED <<queue, bitmask, ent_arr, mode, allowed, down>>
      BY DEF drain_down
    <3>2. sem' \in {sem, sem - 1} /\ pages_sem' \in {pages_sem, pages_sem - 1}
      BY DEF drain_down, MgrDown
    <3> HIDE CmdIfAssumption DEF drain_down
    <3>3. sem \in Int /\ pages_sem \in Int
      BY DEF TypeInv, TypeOK, CmdType
    <3>4. sem' \in Int /\ pages_sem' \in Int
      BY <3>2, <3>3
    <3> QED
      BY <3>1, <3>2, <3>3, <3>4 DEF TypeInv, TypeOK, CmdType
  <2>3. FwType'
    BY <1>0, <1>1 DEF TypeInv, TypeOK, FwType, entVars, cmdVars, fwVars, thrVars, mgrVars, hisVars
  <2>4. MgrType'
    <3>1. UNCHANGED <<script, num_inflight, vec, held>> /\ got' = got + 1
      BY DEF drain_down
    <3>2. NumReg \in Nat /\ got \in 0 .. NumReg + 1
      BY DEF TypeInv, TypeOK, MgrType
    <3> HIDE CmdIfAssumption DEF drain_down
    <3>3. got' \in 0 .. NumReg + 1
      BY <1>0, <3>1, <3>2
    <3> QED
      BY <3>1, <3>2, <3>3 DEF TypeInv, TypeOK, MgrType
  <2>5. HisType'
    BY <1>0, <1>1 DEF TypeInv, TypeOK, HisType, entVars, cmdVars, fwVars, thrVars, mgrVars, hisVars, Rets
  <2> QED
    BY <2>1, <2>2, <2>3, <2>4, <2>5
<1>3. SlotLocals' /\ GotLocal'
  <2>1. SlotLocals'
    BY DEF TypeInv, SlotLocals, entVars, fwVars
  <2>2. MGR \in Threads /\ got \in Int
    BY DEF Threads, TypeInv, TypeOK, MgrType
  <2>3. GotLocal'
    BY <2>2 DEF TypeInv, TypeOK, ThrType, GotLocal, Goto, LastDown
  <2> QED
    BY <2>1, <2>3
<1> QED
    BY <1>1, <1>2, <1>3 DEF TypeInv, TypeOK, ThrInv

\* flush_down keeps the types.
LEMMA Type_flush_down ==
    ASSUME TypeInv, flush_down
    PROVE  TypeInv'
<1> USE CmdIfAssumption DEF flush_down
<1>0. got \in Int /\ got <= NumReg
    BY DEF TypeInv, TypeOK, MgrType, GotLocal
<1>1. ThrInv' /\ \A u \in Threads \ {MGR} : pc'[u] = pc[u]
    BY <1>0, GotoThr DEF Threads, Goto, Busy, Slotted, PCs, CallerPCs, WorkPCs, CompPCs, MgrPCs, entVars, cmdVars, fwVars, thrVars, mgrVars, hisVars
<1>2. EntType' /\ CmdType' /\ FwType' /\ MgrType' /\ HisType'
  <2>1. EntType'
    BY <1>0, <1>1 DEF TypeInv, TypeOK, EntType, entVars, cmdVars, fwVars, thrVars, mgrVars, hisVars, Rets
  <2>2. CmdType'
    <3>1. UNCHANGED <<queue, bitmask, ent_arr, mode, allowed, down>>
      BY DEF flush_down
    <3>2. sem' \in {sem, sem - 1} /\ pages_sem' \in {pages_sem, pages_sem - 1}
      BY DEF flush_down, MgrDown
    <3> HIDE CmdIfAssumption DEF flush_down
    <3>3. sem \in Int /\ pages_sem \in Int
      BY DEF TypeInv, TypeOK, CmdType
    <3>4. sem' \in Int /\ pages_sem' \in Int
      BY <3>2, <3>3
    <3> QED
      BY <3>1, <3>2, <3>3, <3>4 DEF TypeInv, TypeOK, CmdType
  <2>3. FwType'
    BY <1>0, <1>1 DEF TypeInv, TypeOK, FwType, entVars, cmdVars, fwVars, thrVars, mgrVars, hisVars
  <2>4. MgrType'
    <3>1. UNCHANGED <<script, num_inflight, vec, held>> /\ got' = got + 1
      BY DEF flush_down
    <3>2. NumReg \in Nat /\ got \in 0 .. NumReg + 1
      BY DEF TypeInv, TypeOK, MgrType
    <3> HIDE CmdIfAssumption DEF flush_down
    <3>3. got' \in 0 .. NumReg + 1
      BY <1>0, <3>1, <3>2
    <3> QED
      BY <3>1, <3>2, <3>3 DEF TypeInv, TypeOK, MgrType
  <2>5. HisType'
    BY <1>0, <1>1 DEF TypeInv, TypeOK, HisType, entVars, cmdVars, fwVars, thrVars, mgrVars, hisVars, Rets
  <2> QED
    BY <2>1, <2>2, <2>3, <2>4, <2>5
<1>3. SlotLocals' /\ GotLocal'
  <2>1. SlotLocals'
    BY DEF TypeInv, SlotLocals, entVars, fwVars
  <2>2. MGR \in Threads /\ got \in Int
    BY DEF Threads, TypeInv, TypeOK, MgrType
  <2>3. GotLocal'
    BY <2>2, SMTT(30) DEF TypeInv, TypeOK, ThrType, GotLocal, Goto, LastDown
  <2> QED
    BY <2>1, <2>3
<1> QED
    BY <1>1, <1>2, <1>3 DEF TypeInv, TypeOK, ThrInv

\* mgr_up keeps the types.
LEMMA Type_mgr_up ==
    ASSUME TypeInv, mgr_up
    PROVE  TypeInv'
<1> USE CmdIfAssumption DEF mgr_up
<1>1. ThrInv' /\ \A u \in Threads \ {MGR} : pc'[u] = pc[u]
    BY GotoThr DEF Threads, Goto, Busy, Slotted, PCs, CallerPCs, WorkPCs, CompPCs, MgrPCs, entVars, cmdVars, fwVars, thrVars, mgrVars, hisVars
<1>2. EntType' /\ CmdType' /\ FwType' /\ MgrType' /\ HisType'
  <2>1. EntType'
    BY <1>1 DEF TypeInv, TypeOK, EntType, entVars, cmdVars, fwVars, thrVars, mgrVars, hisVars, Rets
  <2>2. CmdType'
    <3>1. UNCHANGED <<queue, bitmask, ent_arr, mode, allowed, down>>
          /\ sem' = sem + NumReg /\ pages_sem' = pages_sem + 1
      BY DEF mgr_up, PagesUp
    <3>2. NumReg \in Int
      BY DEF mgr_up
    <3> HIDE CmdIfAssumption DEF mgr_up
    <3>3. sem \in Int /\ pages_sem \in Int
      BY DEF TypeInv, TypeOK, CmdType
    <3>4. sem' \in Int /\ pages_sem' \in Int
      BY <3>1, <3>2, <3>3
    <3> QED
      BY <3>1, <3>2, <3>3, <3>4 DEF TypeInv, TypeOK, CmdType
  <2>3. FwType'
    BY <1>1 DEF TypeInv, TypeOK, FwType, entVars, cmdVars, fwVars, thrVars, mgrVars, hisVars
  <2>4. MgrType'
    <3>1. UNCHANGED <<num_inflight, vec, held>>
          /\ script # << >> /\ script' = Tail(script) /\ got' = 0
      BY DEF mgr_up, Restart
    <3>2. NumReg \in Nat
      BY DEF mgr_up
    <3> HIDE CmdIfAssumption DEF mgr_up
    <3>3. script' \in Seq(Ops)
      BY <3>1 DEF TypeInv, TypeOK, MgrType
    <3>4. got' \in 0 .. NumReg + 1
      BY <3>1, <3>2
    <3> QED
      BY <3>1, <3>2, <3>3, <3>4 DEF TypeInv, TypeOK, MgrType
  <2>5. HisType'
    BY <1>1 DEF TypeInv, TypeOK, HisType, entVars, cmdVars, fwVars, thrVars, mgrVars, hisVars, Rets
  <2> QED
    BY <2>1, <2>2, <2>3, <2>4, <2>5
<1>3. SlotLocals' /\ GotLocal'
  <2>1. SlotLocals'
    BY DEF TypeInv, SlotLocals, entVars, fwVars
  <2>3. GotLocal'
    <3>1. got' = 0 /\ NumReg \in Nat
      BY DEF mgr_up, Restart
    <3> HIDE CmdIfAssumption DEF mgr_up
    <3> QED
      BY <3>1 DEF TypeInv, TypeOK, GotLocal
  <2> QED
    BY <2>1, <2>3
<1> QED
    BY <1>1, <1>2, <1>3 DEF TypeInv, TypeOK, ThrInv

\* trigger_get keeps the types.
LEMMA Type_trigger_get ==
    ASSUME TypeInv, trigger_get
    PROVE  TypeInv'
<1> USE CmdIfAssumption DEF trigger_get
<1>1. ThrInv' /\ \A u \in Threads \ {MGR} : pc'[u] = pc[u]
    BY GotoThr DEF Threads, Goto, Busy, Slotted, PCs, CallerPCs, WorkPCs, CompPCs, MgrPCs, entVars, cmdVars, fwVars, thrVars, mgrVars, hisVars
<1>2. EntType' /\ CmdType' /\ FwType' /\ MgrType' /\ HisType'
  <2>1. EntType'
    <3>1. UNCHANGED <<idx, pending, done, handling, timer, ret>>
      BY DEF trigger_get
    <3>2. refcnt' = [c \in Cmds |-> IF \E s \in Taken : ent_arr[s] = c
                                     THEN Inc(refcnt[c]) ELSE refcnt[c]]
      BY DEF trigger_get
    <3> HIDE CmdIfAssumption DEF trigger_get
    <3>3. \A c \in Cmds : refcnt[c] \in Nat /\ Inc(refcnt[c]) \in Nat
      BY DEF TypeInv, TypeOK, EntType, Inc
    <3>4. refcnt' \in [Cmds -> Nat]
      BY <3>2, <3>3
    <3> QED
      BY <3>1, <3>2, <3>3, <3>4 DEF TypeInv, TypeOK, EntType
  <2>2. CmdType'
    BY <1>1 DEF TypeInv, TypeOK, CmdType, entVars, cmdVars, fwVars, thrVars, mgrVars, hisVars
  <2>3. FwType'
    BY <1>1 DEF TypeInv, TypeOK, FwType, entVars, cmdVars, fwVars, thrVars, mgrVars, hisVars
  <2>4. MgrType'
    BY <1>1 DEF TypeInv, TypeOK, MgrType, entVars, cmdVars, fwVars, thrVars, mgrVars, hisVars, Taken
  <2>5. HisType'
    BY <1>1 DEF TypeInv, TypeOK, HisType, entVars, cmdVars, fwVars, thrVars, mgrVars, hisVars, Rets
  <2> QED
    BY <2>1, <2>2, <2>3, <2>4, <2>5
<1>3. SlotLocals' /\ GotLocal'
    BY <1>1, QuietLocals DEF Threads, entVars, cmdVars, fwVars, thrVars, mgrVars, hisVars
<1> QED
    BY <1>1, <1>2, <1>3 DEF TypeInv, TypeOK, ThrInv

\* trigger_comp keeps the types.
LEMMA Type_trigger_comp ==
    ASSUME TypeInv, trigger_comp
    PROVE  TypeInv'
<1> USE CmdIfAssumption DEF trigger_comp
<1>0. MGR \in Threads /\ "g_comp" \in BackPCs /\ vec \subseteq Slots
    BY DEF Threads, BackPCs, TypeInv, TypeOK, MgrType
<1>1. ThrInv' /\ \A u \in Threads \ {MGR} : pc'[u] = pc[u]
    BY <1>0, CallThr DEF Threads, entVars, cmdVars, fwVars, thrVars, mgrVars, hisVars
<1>2. EntType' /\ CmdType' /\ FwType' /\ MgrType' /\ HisType'
  <2>1. EntType'
    BY <1>0, <1>1 DEF TypeInv, TypeOK, EntType, entVars, cmdVars, fwVars, thrVars, mgrVars, hisVars, Rets
  <2>2. CmdType'
    BY <1>0, <1>1 DEF TypeInv, TypeOK, CmdType, entVars, cmdVars, fwVars, thrVars, mgrVars, hisVars
  <2>3. FwType'
    BY <1>0, <1>1 DEF TypeInv, TypeOK, FwType, entVars, cmdVars, fwVars, thrVars, mgrVars, hisVars
  <2>4. MgrType'
    BY <1>0, <1>1 DEF TypeInv, TypeOK, MgrType, entVars, cmdVars, fwVars, thrVars, mgrVars, hisVars
  <2>5. HisType'
    BY <1>0, <1>1 DEF TypeInv, TypeOK, HisType, entVars, cmdVars, fwVars, thrVars, mgrVars, hisVars, Rets
  <2> QED
    BY <2>1, <2>2, <2>3, <2>4, <2>5
<1>3. SlotLocals' /\ GotLocal'
    BY <1>1, QuietLocals DEF Threads, entVars, cmdVars, fwVars, thrVars, mgrVars, hisVars
<1> QED
    BY <1>1, <1>2, <1>3 DEF TypeInv, TypeOK, ThrInv

\* trigger_put keeps the types.
LEMMA Type_trigger_put ==
    ASSUME TypeInv, trigger_put
    PROVE  TypeInv'
<1> USE CmdIfAssumption DEF trigger_put
<1>0. /\ MGR \in Threads /\ "g_comp" \in ContPCs /\ "g_comp" \notin CompPCs
      /\ \A s \in held : ent_arr[s] # None => ent_arr[s] \in Cmds
    BY DEF Threads, ContPCs, BackPCs, CompPCs, TypeInv, TypeOK, MgrType, CmdType
<1>1. ThrInv' /\ \A u \in Threads \ {MGR} : pc'[u] = pc[u]
    BY <1>0, PutThr DEF Threads, entVars, cmdVars, fwVars, thrVars, mgrVars, hisVars
<1>2. EntType' /\ CmdType' /\ FwType' /\ MgrType' /\ HisType'
  <2>1. EntType'
    BY <1>0, PutThr DEF TypeInv, TypeOK, EntType
  <2>2. CmdType'
    BY <1>0, <1>1 DEF TypeInv, TypeOK, CmdType, entVars, cmdVars, fwVars, thrVars, mgrVars, hisVars
  <2>3. FwType'
    BY <1>0, <1>1 DEF TypeInv, TypeOK, FwType, entVars, cmdVars, fwVars, thrVars, mgrVars, hisVars
  <2>4. MgrType'
    BY <1>0, <1>1 DEF TypeInv, TypeOK, MgrType, entVars, cmdVars, fwVars, thrVars, mgrVars, hisVars
  <2>5. HisType'
    BY <1>0, <1>1 DEF TypeInv, TypeOK, HisType, entVars, cmdVars, fwVars, thrVars, mgrVars, hisVars, Rets
  <2> QED
    BY <2>1, <2>2, <2>3, <2>4, <2>5
<1>3. SlotLocals' /\ GotLocal'
    BY <1>1, QuietLocals DEF Threads, entVars, cmdVars, fwVars, thrVars, mgrVars, hisVars
<1> QED
    BY <1>1, <1>2, <1>3 DEF TypeInv, TypeOK, ThrInv

\* comp_test_and_clear keeps the types.
LEMMA Type_comp_test_and_clear ==
    ASSUME TypeInv, NEW t \in Threads, comp_test_and_clear(t)
    PROVE  TypeInv'
<1> USE CmdIfAssumption DEF comp_test_and_clear
<1>0. ent_arr[frame[t].slot] \in Cmds /\ frame[t].back \in BackPCs /\ frame[t] \in Frames
    BY DEF TypeInv, TypeOK, ThrType, Frames, CmdType
<1> DEFINE c == ent_arr[frame[t].slot]
           f == [frame[t] EXCEPT !.ent = c]
<1>g. f \in Frames /\ f.ent = c
    BY <1>0, FrameEnt
<1>h. pending' = pending \ {c} /\ idx' = idx
    BY DEF ClearPending
<1>b. /\ frame[t].back \in ContPCs \ CompPCs
      /\ frame[t].back \in PCs \ (WorkPCs \cup {"free_idx"})
    BY <1>0 DEF BackPCs, ContPCs, CompPCs, WorkPCs, PCs, CallerPCs, MgrPCs
<1>c. "c_timer" \in PCs /\ "c_timer" \notin Slotted
    BY DEF PCs, CompPCs, Slotted
<1>d. \/ Skips(t, c) /\ cmd_ent_put(t, c, frame[t].back)
      \/ Skips(t, c) /\ Enter(t, frame[t].back) /\ refcnt' = refcnt
      \/ /\ pc' = [pc EXCEPT ![t] = "c_timer"] /\ frame' = [frame EXCEPT ![t] = f]
         /\ refcnt' = refcnt
    BY <1>0 DEF Skips, Goto
<1> HIDE DEF f
<1>1. ThrInv' /\ \A u \in Threads \ {t} : pc'[u] = pc[u]
  <2>0. c \in Cmds
    BY <1>0
  <2> HIDE DEF comp_test_and_clear, c
  <2>1. CASE cmd_ent_put(t, c, frame[t].back)
    BY <2>0, <1>b, <1>h, <2>1, PutThr
  <2>2. CASE Enter(t, frame[t].back)
    BY <1>b, <1>h, <2>2, EnterThr
  <2>3. CASE pc' = [pc EXCEPT ![t] = "c_timer"] /\ frame' = [frame EXCEPT ![t] = f]
    <3>1. Moves(t, "c_timer", f)
      BY <1>h, <2>3 DEF Moves
    <3> QED
      BY <2>0, <1>c, <1>g, <3>1, MovesThr
  <2> QED
    BY <1>d, <2>1, <2>2, <2>3
<1>2. EntType' /\ CmdType' /\ FwType' /\ MgrType' /\ HisType'
  <2>0. refcnt' \in [Cmds -> Nat]
    BY <1>0, <1>b, <1>d, <1>h, PutThr DEF TypeInv, TypeOK, EntType
  <2>1. EntType'
    BY <1>h, <2>0 DEF TypeInv, TypeOK, EntType
  <2>2. CmdType'
    BY <1>0, <1>1 DEF TypeInv, TypeOK, CmdType, entVars, cmdVars, fwVars, thrVars, mgrVars, hisVars
  <2>3. FwType'
    BY <1>0, <1>1 DEF TypeInv, TypeOK, FwType, entVars, cmdVars, fwVars, thrVars, mgrVars, hisVars
  <2>4. MgrType'
    BY <1>0, <1>1 DEF TypeInv, TypeOK, MgrType, entVars, cmdVars, fwVars, thrVars, mgrVars, hisVars
  <2>5. HisType'
    BY <1>0, <1>1 DEF TypeInv, TypeOK, HisType, entVars, cmdVars, fwVars, thrVars, mgrVars, hisVars, Rets
  <2> QED
    BY <2>1, <2>2, <2>3, <2>4, <2>5
<1>3. SlotLocals' /\ GotLocal'
  <2>1. SlotLocals'
    BY <1>h DEF TypeInv, SlotLocals, fwVars
  <2>2. GotLocal'
    BY <1>1 DEF TypeInv, GotLocal, Threads, mgrVars
  <2> QED
    BY <2>1, <2>2
<1> QED
    BY <1>1, <1>2, <1>3 DEF TypeInv, TypeOK, ThrInv

\* fw_complete keeps the types.
LEMMA Type_fw_complete ==
    ASSUME TypeInv, NEW s \in Slots, fw_complete(s)
    PROVE  TypeInv'
<1> USE DEF fw_complete
<1>1. ThrInv'
    BY DEF TypeInv, TypeOK, ThrType, ThrInv, ThrLocal, cur, entVars, thrVars
<1>0. fw[s] \in Cmds /\ idx[fw[s]] \in Slots
    BY DEF TypeInv, TypeOK, FwType, SlotLocals
<1>2. EntType' /\ CmdType' /\ FwType' /\ MgrType' /\ HisType'
  <2>1. EntType'
    BY <1>0, <1>1 DEF TypeInv, TypeOK, EntType, entVars, cmdVars, fwVars, thrVars, mgrVars, hisVars, Rets
  <2>2. CmdType'
    BY <1>0, <1>1 DEF TypeInv, TypeOK, CmdType, entVars, cmdVars, fwVars, thrVars, mgrVars, hisVars
  <2>3. FwType'
    <3>1. /\ fw' = [fw EXCEPT ![s] = None] /\ own' = [own EXCEPT ![s] = "SW"]
          /\ eq' = eq \/ eq' = Append(eq, fw[s])
      BY DEF fw_complete
    <3> HIDE DEF fw_complete
    <3>2. eq' \in Seq(Cmds)
      <4>1. eq \in Seq(Cmds)
        BY DEF TypeInv, TypeOK, FwType
      <4>2. Append(eq, fw[s]) \in Seq(Cmds)
        BY <1>0, <4>1, AppendType
      <4> QED
        BY <3>1, <4>1, <4>2
    <3>3. fw' \in [Slots -> Cmds \cup {None}] /\ own' \in [Slots -> {"HW", "SW"}]
      BY <3>1 DEF TypeInv, TypeOK, FwType
    <3> QED
      BY <3>1, <3>2, <3>3 DEF TypeInv, TypeOK, FwType
  <2>4. MgrType'
    BY <1>0, <1>1 DEF TypeInv, TypeOK, MgrType, entVars, cmdVars, fwVars, thrVars, mgrVars, hisVars
  <2>5. HisType'
    BY <1>0, <1>1 DEF TypeInv, TypeOK, HisType, entVars, cmdVars, fwVars, thrVars, mgrVars, hisVars, Rets
  <2> QED
    BY <2>1, <2>2, <2>3, <2>4, <2>5
<1>3. SlotLocals' /\ GotLocal'
  <2>1. \A r \in Slots : fw'[r] \in Cmds => idx[fw'[r]] \in Slots
    BY CmdIfAssumption DEF TypeInv, TypeOK, FwType, SlotLocals
  <2>2. \A i \in 1 .. Len(eq') : eq'[i] = fw[s] \/ (i \in 1 .. Len(eq) /\ eq'[i] = eq[i])
    <3>1. eq' = eq \/ eq' = Append(eq, fw[s])
      OBVIOUS
    <3>2. eq \in Seq(Cmds)
      BY DEF TypeInv, TypeOK, FwType
    <3> HIDE DEF fw_complete
    <3>3. CASE eq' = eq
      BY <3>3
    <3>4. CASE eq' = Append(eq, fw[s])
      <4>1. fw[s] \in Cmds
        BY <1>0
      <4>2. \A i \in 1 .. Len(Append(eq, fw[s])) :
               Append(eq, fw[s])[i] = fw[s] \/ (i \in 1 .. Len(eq) /\ Append(eq, fw[s])[i] = eq[i])
        BY <3>2, <4>1, AppendElement
      <4> QED
        BY <3>4, <4>2, Zenon
    <3> QED
      BY <3>1, <3>3, <3>4
  <2>3. SlotLocals'
    BY <1>0, <2>1, <2>2 DEF TypeInv, SlotLocals, entVars
  <2>4. GotLocal'
    BY DEF TypeInv, GotLocal, thrVars, mgrVars
  <2> QED
    BY <2>3, <2>4
<1> QED
    BY <1>1, <1>2, <1>3 DEF TypeInv, TypeOK, ThrInv

\* eq_take keeps the types.
LEMMA Type_eq_take ==
    ASSUME TypeInv, NEW via \in {"irq", "recover"}, eq_take(via)
    PROVE  TypeInv'
<1> USE CmdIfAssumption DEF eq_take
<1>0. /\ Head(eq) \in Cmds /\ Tail(eq) \in Seq(Cmds) /\ idx[Head(eq)] \in Slots
      /\ \A i \in 1 .. Len(Tail(eq)) : i + 1 \in 1 .. Len(eq) /\ Tail(eq)[i] = eq[i + 1]
  <2>1. eq \in Seq(Cmds) /\ eq # << >> /\ \A i \in 1 .. Len(eq) : idx[eq[i]] \in Slots
    BY DEF TypeInv, TypeOK, FwType, SlotLocals
  <2>2. /\ Head(eq) = eq[1] /\ 1 \in 1 .. Len(eq) /\ Tail(eq) \in Seq(Cmds)
        /\ eq[1] \in Cmds /\ Len(Tail(eq)) = Len(eq) - 1
    BY <2>1
  <2> HIDE DEF eq_take
  <2>3. \A i \in 1 .. Len(Tail(eq)) : i + 1 \in 1 .. Len(eq) /\ Tail(eq)[i] = eq[i + 1]
    BY <2>1, <2>2
  <2> QED
    BY <2>1, <2>2, <2>3
<1> DEFINE f == [frame[EQ] EXCEPT !.slot = idx[Head(eq)], !.via = via]
<1>f. EQ \in Threads /\ EQ \notin Cmds /\ frame[EQ] \in Frames
    BY DEF TypeInv, TypeOK, ThrType, Threads
<1>g. f \in Frames
    BY <1>0, <1>f, FrameSlot
<1>h. Moves(EQ, "c_tac", f)
    BY DEF Goto, entVars, Moves
<1>i. "c_tac" \in PCs /\ "c_tac" \notin Slotted /\ "c_tac" \notin Busy
    BY DEF PCs, CompPCs, WorkPCs, Slotted, Busy
<1> HIDE DEF f, eq_take
<1>1. ThrInv' /\ \A u \in Threads \ {EQ} : pc'[u] = pc[u]
    BY <1>0, MovesThr, <1>f, <1>g, <1>h, <1>i DEF Threads, entVars, cmdVars, fwVars, thrVars, mgrVars, hisVars
<1>2. EntType' /\ CmdType' /\ FwType' /\ MgrType' /\ HisType'
  <2> USE DEF eq_take
  <2>1. EntType'
    BY <1>0, <1>1 DEF TypeInv, TypeOK, EntType, entVars, cmdVars, fwVars, thrVars, mgrVars, hisVars, Rets
  <2>2. CmdType'
    BY <1>0, <1>1 DEF TypeInv, TypeOK, CmdType, entVars, cmdVars, fwVars, thrVars, mgrVars, hisVars
  <2>3. FwType'
    BY <1>0, <1>1 DEF TypeInv, TypeOK, FwType, entVars, cmdVars, fwVars, thrVars, mgrVars, hisVars
  <2>4. MgrType'
    BY <1>0, <1>1 DEF TypeInv, TypeOK, MgrType, entVars, cmdVars, fwVars, thrVars, mgrVars, hisVars
  <2>5. HisType'
    BY <1>0, <1>1 DEF TypeInv, TypeOK, HisType, entVars, cmdVars, fwVars, thrVars, mgrVars, hisVars, Rets
  <2> QED
    BY <2>1, <2>2, <2>3, <2>4, <2>5
<1>3. SlotLocals' /\ GotLocal'
  <2> USE DEF eq_take
  <2>1. SlotLocals'
    BY <1>0 DEF TypeInv, SlotLocals, entVars
  <2>2. GotLocal'
    BY <1>1 DEF TypeInv, GotLocal, Threads, mgrVars
  <2> QED
    BY <2>1, <2>2
<1> QED
    BY <1>1, <1>2, <1>3 DEF TypeInv, TypeOK, ThrInv

\* Every step keeps the types.
LEMMA StepType == TypeInv /\ [Next]_vars => TypeInv'
<1> SUFFICES ASSUME TypeInv, [Next]_vars PROVE TypeInv'
    OBVIOUS
<1>1. ASSUME NEW c \in Cmds, cmd_exec(c) \/ cmd_exec_rejected(c) \/ cmd_exec_nomem(c) PROVE TypeInv'
    BY <1>1, Type_cmd_exec, Type_cmd_exec_rejected, Type_cmd_exec_nomem
<1>2. ASSUME NEW c \in Cmds, Serve(c) PROVE TypeInv'
    BY <1>2, Type_wait_handled, Type_wait_done, Type_wait_recovered, Type_wait_force,
       Type_invoke_return, Type_timer_recovered, Type_timer_test, Type_timer_force,
       Type_timer_put DEF Serve
<1>3. ASSUME NEW c \in Cmds, Expire(c) PROVE TypeInv'
    BY <1>3, Type_wait_canceled, Type_wait_timeout, Type_wait_exec_timeout,
       Type_timer_fires DEF Expire
<1>4. ASSUME NEW t \in Threads, Work(t) PROVE TypeInv'
    BY <1>4, Type_work_down, Type_cmd_alloc_index, Type_alloc_index_failed,
       Type_work_noidx_up, Type_work_arr, Type_work_arm, Type_work_get, Type_work_check,
       Type_work_doorbell, Type_work_polled, Type_work_poll_timeout DEF Work
<1>5. ASSUME NEW t \in Threads, Comp(t) PROVE TypeInv'
    BY <1>5, Type_comp_test_and_clear, Type_comp_cancel_timer, Type_comp_put_fw,
       Type_comp_finish, Type_comp_put, Type_comp_callback, Type_comp_up,
       Type_cmd_free_index DEF Comp
<1>6. ASSUME Mgr PROVE TypeInv'
    BY <1>6, Type_mgr_next, Type_cleanup_async_ctx, Type_cleanup_wait, Type_drain_down,
       Type_drain_set, Type_flush_down, Type_flush_trylock_fails, Type_mgr_up,
       Type_trigger_sync, Type_trigger_get, Type_trigger_comp, Type_trigger_put,
       Type_trigger_end DEF Mgr
<1>7. CASE UNCHANGED vars
    BY <1>7 DEF vars, entVars, cmdVars, fwVars, thrVars, mgrVars, hisVars,
                TypeInv, TypeOK, EntType, CmdType, FwType, ThrType, MgrType, HisType,
                ThrInv, ThrLocal, SlotLocals, GotLocal, cur
<1> QED
    BY <1>1, <1>2, <1>3, <1>4, <1>5, <1>6, <1>7,
       Type_work_start, Type_fw_complete, Type_eq_take DEF Next

\* Every variable of the command interface keeps its type, whatever the number
\* of commands and slots: the entries cmd.c reads back from cmd->ent_arr, the
\* event queue and its own locals are commands, and the indices it uses slots.
THEOREM TypeCorrect == Spec => []TypeOK
<1>1. TypeInv => TypeOK
    BY DEF TypeInv
<1> QED
    BY <1>1, InitType, StepType, PTL DEF Spec

=============================================================================
