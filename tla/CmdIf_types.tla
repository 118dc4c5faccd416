---------------------------- MODULE CmdIf_types ----------------------------
(***************************************************************************)
(* Type correctness of the command interface, for any set of commands and  *)
(* any size of the command queue: the invariant, the moves of a thread,    *)
(* and the actions of cmd_exec, cmd_work_handler and mlx5_cmd_comp_handler.*)
(* CmdIf_proof has the other actions and the theorem.                      *)
(***************************************************************************)
EXTENDS CmdIf, TLAPS

-----------------------------------------------------------------------------
(* Type correctness.  TypeOK alone is not inductive: a thread uses its     *)
(* locals as commands and slots, so what is in them matters.               *)

\* Where a thread works on an entry, and where that entry has its slot.
Busy == WorkPCs \cup (CompPCs \ {"c_tac"}) \cup {"free_idx"}
Slotted == {"w_arr", "w_arm", "w_get", "w_check", "w_bell", "w_poll", "free_idx"}

ThrLocal(t) ==
    /\ t \in Cmds => cur(t) \in Cmds
    /\ pc[t] \in Busy => cur(t) \in Cmds
    /\ pc[t] \in Slotted => idx[cur(t)] \in Slots

\* What may still be completed has a slot.
SlotLocals ==
    /\ \A c \in pending : idx[c] \in Slots
    /\ \A s \in Slots : fw[s] \in Cmds => idx[fw[s]] \in Slots
    /\ \A i \in 1 .. Len(eq) : idx[eq[i]] \in Slots

GotLocal == got <= NumReg \/ pc[MGR] \in {"d_set", "f_up"}

ThrInv == ThrType /\ \A t \in Threads : ThrLocal(t)
TypeInv == TypeOK /\ ThrInv /\ SlotLocals /\ GotLocal

\* The initial state has the types.
LEMMA InitType == Init => TypeInv
<1> HAVE Init
<1> USE CmdIfAssumption DEF Init, Slots, NoIdx, Threads
<1>1. EntType
    BY DEF EntType, Rets
<1>2. CmdType
  <2>1. queue \in Seq(Cmds) /\ sem \in Int /\ pages_sem \in Int
    OBVIOUS
  <2>2. bitmask \subseteq Slots
    OBVIOUS
  <2>3. ent_arr \in [Slots -> Cmds \cup {None}]
    OBVIOUS
  <2>4. mode \in {"EVENTS", "POLLING"} /\ allowed \in {"ALL", "SPECIAL"}
    OBVIOUS
  <2>5. down \in BOOLEAN
    OBVIOUS
  <2> QED
    BY <2>1, <2>2, <2>3, <2>4, <2>5 DEF CmdType
<1>3. FwType
    BY DEF FwType
<1>4. ThrType
  <2>1. \A t \in Threads : NoFrame(t) \in Frames
    BY DEF NoFrame, Frames, BackPCs, ContPCs, Rets
  <2> QED
    BY <2>1 DEF ThrType, PCs, CallerPCs
<1>5. MgrType
    BY DEF MgrType, Ops
<1>6. HisType
    BY DEF HisType, Rets
<1>7. \A t \in Threads : ThrLocal(t)
    BY DEF ThrLocal, NoFrame, cur, Busy, Slotted, WorkPCs, CompPCs
<1>8. SlotLocals /\ GotLocal
    BY DEF SlotLocals, GotLocal
<1> QED
    BY <1>1, <1>2, <1>3, <1>4, <1>5, <1>6, <1>7, <1>8 DEF TypeInv, TypeOK, ThrInv

-----------------------------------------------------------------------------
(* The moves a thread makes keep its program counter and locals well typed. *)

\* cmd_ent_put's locals.
LEMMA FramePut ==
    ASSUME NEW f \in Frames, NEW c \in Cmds, NEW p \in ContPCs
    PROVE  [f EXCEPT !.ent = c, !.cont = p] \in Frames
BY DEF Frames

\* A new place to continue at.
LEMMA FrameCont ==
    ASSUME NEW f \in Frames, NEW p \in ContPCs
    PROVE  [f EXCEPT !.cont = p] \in Frames /\ [f EXCEPT !.cont = p].ent = f.ent
BY DEF Frames

\* A new entry in work.
LEMMA FrameEnt ==
    ASSUME NEW f \in Frames, NEW c \in Cmds
    PROVE  [f EXCEPT !.ent = c] \in Frames /\ [f EXCEPT !.ent = c].ent = c
BY DEF Frames

\* A new slot, and who took its event.
LEMMA FrameSlot ==
    ASSUME NEW f \in Frames, NEW s \in Slots, NEW v \in {"irq", "recover"}
    PROVE  [f EXCEPT !.slot = s, !.via = v] \in Frames
<1> DEFINE g == [f EXCEPT !.slot = s]
<1>1. g \in Frames
    BY DEF Frames
<1>2. [f EXCEPT !.slot = s, !.via = v] = [g EXCEPT !.via = v]
    BY DEF Frames
<1> HIDE DEF g
<1>3. [g EXCEPT !.via = v] \in Frames
    BY <1>1 DEF Frames
<1> QED
    BY <1>2, <1>3

\* A new result.
LEMMA FrameErr ==
    ASSUME NEW f \in Frames, NEW r \in Rets
    PROVE  [f EXCEPT !.err = r] \in Frames /\ [f EXCEPT !.err = r].ent = f.ent
BY DEF Frames

\* The locals of a thread that starts.
LEMMA FrameNew ==
    ASSUME NEW t \in Threads
    PROVE  NoFrame(t) \in Frames /\ (t \in Cmds => NoFrame(t).ent = t)
BY CmdIfAssumption DEF NoFrame, Frames, BackPCs, ContPCs, Slots, Threads, Rets

\* Any step of one thread, given what it leaves in pc and frame.
Moves(t, p, f) ==
    /\ pc' = [pc EXCEPT ![t] = p] /\ frame' = [frame EXCEPT ![t] = f]
    /\ UNCHANGED idx

\* Such a step keeps every thread well typed, and leaves the others where they are.
LEMMA MovesThr ==
    ASSUME TypeInv, NEW t \in Threads, NEW p \in PCs, NEW f \in Frames,
           Moves(t, p, f), t \in Cmds \/ p \in Busy => f.ent \in Cmds,
           p \in Slotted => idx[f.ent] \in Slots
    PROVE  ThrInv' /\ \A u \in Threads \ {t} : pc'[u] = pc[u]
<1> USE DEF Moves
<1>1. ThrType'
    BY DEF TypeInv, TypeOK, ThrType
<1>2. ASSUME NEW u \in Threads PROVE ThrLocal(u)'
  <2>1. CASE u = t
    BY <2>1 DEF TypeInv, TypeOK, ThrType, ThrLocal, cur
  <2>2. CASE u # t
    BY <2>2 DEF TypeInv, TypeOK, ThrType, ThrInv, ThrLocal, cur
  <2> QED
    BY <2>1, <2>2
<1> QED
    BY <1>1, <1>2 DEF ThrInv, TypeInv, TypeOK, ThrType

\* So does a jump.
LEMMA GotoThr ==
    ASSUME TypeInv, NEW t \in Threads, NEW p \in PCs, Goto(t, p), UNCHANGED <<frame, idx>>,
           p \in Busy => cur(t) \in Cmds, p \in Slotted => idx[cur(t)] \in Slots
    PROVE  ThrInv' /\ \A u \in Threads \ {t} : pc'[u] = pc[u]
<1>1. frame[t] \in Frames /\ frame' = [frame EXCEPT ![t] = frame[t]]
    BY DEF TypeInv, TypeOK, ThrType
<1>2. t \in Cmds => frame[t].ent \in Cmds
    BY DEF TypeInv, ThrInv, ThrLocal, cur
<1>3. Moves(t, p, frame[t])
    BY <1>1 DEF Goto, Moves
<1> QED
    BY <1>1, <1>2, <1>3, MovesThr DEF cur

\* So does the start of a function with fresh locals.
LEMMA EnterThr ==
    ASSUME TypeInv, NEW t \in Threads, NEW p \in PCs \ (WorkPCs \cup {"free_idx"}),
           Enter(t, p), UNCHANGED idx, p \in CompPCs => cur(t) \in Cmds
    PROVE  ThrInv' /\ \A u \in Threads \ {t} : pc'[u] = pc[u]
<1>1. frame[t] \in Frames /\ (t \in Cmds => frame[t].ent \in Cmds)
    BY DEF TypeInv, TypeOK, ThrType, ThrInv, ThrLocal, cur
<1>2. p \notin Slotted /\ (p \in Busy => p \in CompPCs)
    BY DEF Slotted, Busy, WorkPCs, CompPCs
<1>3. CASE p \in CompPCs
  <2> DEFINE f == [frame[t] EXCEPT !.cont = "idle"]
  <2>1. f \in Frames /\ f.ent = frame[t].ent
    BY <1>1, FrameCont DEF ContPCs, BackPCs
  <2>2. Moves(t, p, f)
    BY <1>3 DEF Enter, Goto, Moves
  <2> HIDE DEF f
  <2> QED
    BY <1>1, <1>2, <1>3, <2>1, <2>2, MovesThr DEF cur
<1>4. CASE p \notin CompPCs
  <2>1. Moves(t, p, NoFrame(t))
    BY <1>4 DEF Enter, Goto, Moves
  <2> QED
    BY <1>2, <1>4, <2>1, FrameNew, MovesThr
<1> QED
    BY <1>3, <1>4

\* So does a call of mlx5_cmd_comp_handler.
LEMMA CallThr ==
    ASSUME TypeInv, NEW t \in Threads, NEW s \in Slots, NEW p \in BackPCs,
           NEW y \in {"EVENT", "FORCED", "POLLING"},
           CallComp(t, s, y, p), UNCHANGED idx
    PROVE  ThrInv' /\ \A u \in Threads \ {t} : pc'[u] = pc[u]
<1> DEFINE f == [frame[t] EXCEPT !.slot = s, !.type = y, !.back = p]
<1>1. frame[t] \in Frames /\ (t \in Cmds => frame[t].ent \in Cmds)
    BY DEF TypeInv, TypeOK, ThrType, ThrInv, ThrLocal, cur
<1>2. f \in Frames /\ f.ent = frame[t].ent
    BY <1>1 DEF Frames
<1>3. Moves(t, "c_tac", f)
    BY DEF CallComp, Goto, Moves
<1>4. "c_tac" \in PCs /\ "c_tac" \notin Busy /\ "c_tac" \notin Slotted
    BY DEF PCs, CompPCs, Busy, Slotted, WorkPCs
<1> HIDE DEF f
<1> QED
    BY <1>1, <1>2, <1>3, <1>4, MovesThr

\* So does cmd_ent_put, which may free the entry.
LEMMA PutThr ==
    ASSUME TypeInv, NEW t \in Threads, NEW c \in Cmds, NEW p \in ContPCs,
           cmd_ent_put(t, c, p), UNCHANGED idx, p \in CompPCs => cur(t) \in Cmds
    PROVE  /\ refcnt' \in [Cmds -> Nat]
           /\ ThrInv' /\ \A u \in Threads \ {t} : pc'[u] = pc[u]
<1>1. refcnt' \in [Cmds -> Nat]
    BY DEF TypeInv, TypeOK, EntType, cmd_ent_put, Dec
<1>2. CASE Enter(t, p)
  <2>1. p \in PCs \ (WorkPCs \cup {"free_idx"})
    BY DEF PCs, ContPCs, BackPCs, CallerPCs, CompPCs, MgrPCs, WorkPCs
  <2> QED
    BY <1>1, <1>2, <2>1, EnterThr
<1>3. CASE /\ Goto(t, "free_idx") /\ idx[c] # NoIdx
           /\ frame' = [frame EXCEPT ![t] = [@ EXCEPT !.ent = c, !.cont = p]]
  <2> DEFINE f == [frame[t] EXCEPT !.ent = c, !.cont = p]
  <2>1. f \in Frames
    BY FramePut DEF TypeInv, TypeOK, ThrType
  <2>2. f.ent = c
    BY DEF TypeInv, TypeOK, ThrType, Frames
  <2>3. idx[f.ent] \in Slots
    BY <1>3, <2>2 DEF TypeInv, TypeOK, EntType
  <2>4. Moves(t, "free_idx", f)
    BY <1>3 DEF Goto, Moves
  <2>5. "free_idx" \in PCs
    BY DEF PCs
  <2> HIDE DEF f
  <2> QED
    BY <1>1, <2>1, <2>2, <2>3, <2>4, <2>5, MovesThr
<1> QED
    BY <1>2, <1>3 DEF cmd_ent_put

-----------------------------------------------------------------------------
(* Every action keeps the types.                                         *)

\* Steps that leave alone what SlotLocals and GotLocal are about.
LEMMA QuietLocals ==
    ASSUME TypeInv, UNCHANGED <<idx, pending, fw, eq, got>>, NEW t \in Threads,
           pc[t] \notin {"d_set", "f_up"}, \A u \in Threads \ {t} : pc'[u] = pc[u]
    PROVE  SlotLocals' /\ GotLocal'
<1>1. SlotLocals'
    BY DEF TypeInv, SlotLocals
<1>2. MGR \in Threads
    BY DEF Threads
<1>3. GotLocal'
    BY <1>2 DEF TypeInv, GotLocal
<1> QED
    BY <1>1, <1>3

\* Appending an element to a sequence keeps its type, and adds that element at the end:
\* what cmd_exec does with the work queue and fw_complete with the event queue.
LEMMA AppendType ==
    ASSUME NEW S, NEW q \in Seq(S), NEW x \in S
    PROVE  Append(q, x) \in Seq(S)
    OBVIOUS

\* What a queue holds after an append.
LEMMA AppendElement ==
    ASSUME NEW S, NEW q \in Seq(S), NEW x \in S, NEW i \in 1 .. Len(Append(q, x))
    PROVE  Append(q, x)[i] = x \/ (i \in 1 .. Len(q) /\ Append(q, x)[i] = q[i])
    OBVIOUS

\* cmd_exec keeps the types.
LEMMA Type_cmd_exec ==
    ASSUME TypeInv, NEW c \in Cmds, cmd_exec(c)
    PROVE  TypeInv'
<1> USE CmdIfAssumption DEF cmd_exec
<1>1. ThrInv' /\ \A u \in Threads \ {c} : pc'[u] = pc[u]
    BY GotoThr DEF Threads, TypeInv, ThrInv, ThrLocal, Counted, Goto, Busy, Slotted, PCs, CallerPCs, WorkPCs, CompPCs, MgrPCs, entVars, cmdVars, fwVars, thrVars, mgrVars, hisVars
<1>2. EntType' /\ CmdType' /\ FwType' /\ MgrType' /\ HisType'
  <2>1. EntType'
    BY <1>1 DEF TypeInv, TypeOK, EntType, entVars, cmdVars, fwVars, thrVars, mgrVars, hisVars, Rets
  <2>2. CmdType'
    <3>1. UNCHANGED <<sem, pages_sem, bitmask, ent_arr, mode, allowed, down>> /\ (queue' = queue \/ queue' = Append(queue, c))
      BY DEF cmd_exec
    <3> HIDE CmdIfAssumption DEF cmd_exec
    <3>2. queue' \in Seq(Cmds)
      <4>1. queue \in Seq(Cmds)
        BY DEF TypeInv, TypeOK, CmdType
      <4>2. Append(queue, c) \in Seq(Cmds)
        BY <4>1, AppendType
      <4> QED
        BY <3>1, <4>1, <4>2
    <3> QED
      BY <3>1, <3>2 DEF TypeInv, TypeOK, CmdType
  <2>3. FwType'
    BY <1>1 DEF TypeInv, TypeOK, FwType, entVars, cmdVars, fwVars, thrVars, mgrVars, hisVars
  <2>4. MgrType'
    <3>1. UNCHANGED mgrVars /\ num_inflight' = num_inflight + Counted(c)
      BY DEF cmd_exec
    <3> HIDE CmdIfAssumption DEF cmd_exec
    <3>2. Counted(c) \in Int
      BY DEF Counted
    <3>3. num_inflight' \in Int
      BY <3>1, <3>2 DEF TypeInv, TypeOK, MgrType
    <3> QED
      BY <3>1, <3>3 DEF TypeInv, TypeOK, MgrType, mgrVars
  <2>5. HisType'
    BY <1>1 DEF TypeInv, TypeOK, HisType, entVars, cmdVars, fwVars, thrVars, mgrVars, hisVars, Rets
  <2> QED
    BY <2>1, <2>2, <2>3, <2>4, <2>5
<1>3. SlotLocals' /\ GotLocal'
    BY <1>1, QuietLocals DEF Threads, entVars, cmdVars, fwVars, thrVars, mgrVars, hisVars
<1> QED
    BY <1>1, <1>2, <1>3 DEF TypeInv, TypeOK, ThrInv

\* cmd_exec_rejected keeps the types.
LEMMA Type_cmd_exec_rejected ==
    ASSUME TypeInv, NEW c \in Cmds, cmd_exec_rejected(c)
    PROVE  TypeInv'
<1> USE CmdIfAssumption DEF cmd_exec_rejected
<1>1. ThrInv' /\ \A u \in Threads \ {c} : pc'[u] = pc[u]
    BY GotoThr DEF Threads, Goto, Busy, Slotted, PCs, CallerPCs, WorkPCs, CompPCs, MgrPCs, entVars, cmdVars, fwVars, thrVars, mgrVars, hisVars
<1>2. EntType' /\ CmdType' /\ FwType' /\ MgrType' /\ HisType'
    BY <1>1 DEF TypeInv, TypeOK, EntType, CmdType, FwType, MgrType, HisType, Rets, entVars, cmdVars, fwVars, thrVars, mgrVars, hisVars
<1>3. SlotLocals' /\ GotLocal'
    BY <1>1, QuietLocals DEF Threads, entVars, cmdVars, fwVars, thrVars, mgrVars, hisVars
<1> QED
    BY <1>1, <1>2, <1>3 DEF TypeInv, TypeOK, ThrInv

\* cmd_exec_nomem keeps the types.
LEMMA Type_cmd_exec_nomem ==
    ASSUME TypeInv, NEW c \in Cmds, cmd_exec_nomem(c)
    PROVE  TypeInv'
<1> USE CmdIfAssumption DEF cmd_exec_nomem
<1>1. ThrInv' /\ \A u \in Threads \ {c} : pc'[u] = pc[u]
    BY GotoThr DEF Threads, Goto, Busy, Slotted, PCs, CallerPCs, WorkPCs, CompPCs, MgrPCs, entVars, cmdVars, fwVars, thrVars, mgrVars, hisVars
<1>2. EntType' /\ CmdType' /\ FwType' /\ MgrType' /\ HisType'
    BY <1>1 DEF TypeInv, TypeOK, EntType, CmdType, FwType, MgrType, HisType, Rets, entVars, cmdVars, fwVars, thrVars, mgrVars, hisVars
<1>3. SlotLocals' /\ GotLocal'
    BY <1>1, QuietLocals DEF Threads, entVars, cmdVars, fwVars, thrVars, mgrVars, hisVars
<1> QED
    BY <1>1, <1>2, <1>3 DEF TypeInv, TypeOK, ThrInv

\* cmd_free_index keeps the types.
LEMMA Type_cmd_free_index ==
    ASSUME TypeInv, NEW t \in Threads, cmd_free_index(t)
    PROVE  TypeInv'
<1> USE CmdIfAssumption DEF cmd_free_index
<1>0. cur(t) \in Cmds /\ idx[cur(t)] \in Slots
    BY DEF TypeInv, ThrInv, ThrLocal, Busy, Slotted, WorkPCs
<1>1. ThrInv' /\ \A u \in Threads \ {t} : pc'[u] = pc[u]
  <2>1. Enter(t, frame[t].cont) /\ UNCHANGED idx
    BY DEF entVars
  <2> HIDE CmdIfAssumption DEF cmd_free_index
  <2>2. frame[t].cont \in ContPCs
    BY DEF TypeInv, TypeOK, ThrType, Frames
  <2>3. ContPCs \subseteq PCs \ (WorkPCs \cup {"free_idx"})
    BY DEF ContPCs, BackPCs, PCs, CallerPCs, WorkPCs, CompPCs, MgrPCs
  <2> QED
    BY <1>0, <2>1, <2>2, <2>3, EnterThr
<1>2. EntType' /\ CmdType' /\ FwType' /\ MgrType' /\ HisType'
    BY <1>0, <1>1 DEF TypeInv, TypeOK, EntType, CmdType, FwType, MgrType, HisType, Rets, entVars, cmdVars, fwVars, thrVars, mgrVars, hisVars
<1>3. SlotLocals' /\ GotLocal'
    BY <1>1, QuietLocals DEF Threads, entVars, cmdVars, fwVars, thrVars, mgrVars, hisVars
<1> QED
    BY <1>1, <1>2, <1>3 DEF TypeInv, TypeOK, ThrInv

\* work_start keeps the types.
LEMMA Type_work_start ==
    ASSUME TypeInv, work_start
    PROVE  TypeInv'
<1> USE CmdIfAssumption DEF work_start
<1>0. Head(queue) \in Cmds /\ Tail(queue) \in Seq(Cmds)
    BY DEF TypeInv, TypeOK, CmdType
<1> DEFINE f == [frame[WQ] EXCEPT !.ent = Head(queue)]
<1>f. WQ \in Threads /\ WQ \notin Cmds /\ frame[WQ] \in Frames
    BY DEF TypeInv, TypeOK, ThrType, Threads
<1>g. f \in Frames /\ f.ent = Head(queue)
    BY <1>0, <1>f, FrameEnt
<1>h. Moves(WQ, "w_down", f)
    BY DEF Goto, Moves
<1>i. "w_down" \in PCs /\ "w_down" \notin Slotted
    BY DEF PCs, WorkPCs, Slotted
<1> HIDE DEF f
<1>1. ThrInv' /\ \A u \in Threads \ {WQ} : pc'[u] = pc[u]
    BY <1>0, MovesThr, <1>f, <1>g, <1>h, <1>i DEF Threads, entVars, cmdVars, fwVars, thrVars, mgrVars, hisVars
<1>2. EntType' /\ CmdType' /\ FwType' /\ MgrType' /\ HisType'
  <2>1. EntType'
    BY <1>0, <1>1 DEF TypeInv, TypeOK, EntType, entVars, cmdVars, fwVars, thrVars, mgrVars, hisVars, Rets
  <2>2. CmdType'
    BY <1>0, <1>1 DEF TypeInv, TypeOK, CmdType, entVars, cmdVars, fwVars, thrVars, mgrVars, hisVars
  <2>3. FwType'
    BY <1>0, <1>1 DEF TypeInv, TypeOK, FwType, entVars, cmdVars, fwVars, thrVars, mgrVars, hisVars
  <2>4. MgrType'
    BY <1>0, <1>1 DEF TypeInv, TypeOK, MgrType, entVars, cmdVars, fwVars, thrVars, mgrVars, hisVars
  <2>5. HisType'
    BY <1>0, <1>1 DEF TypeInv, TypeOK, HisType, entVars, cmdVars, fwVars, thrVars, mgrVars, hisVars, Rets
  <2> QED
    BY <2>1, <2>2, <2>3, <2>4, <2>5
<1>3. SlotLocals' /\ GotLocal'
    BY <1>1, QuietLocals DEF Threads, entVars, cmdVars, fwVars, thrVars, mgrVars, hisVars
<1> QED
    BY <1>1, <1>2, <1>3 DEF TypeInv, TypeOK, ThrInv

\* work_down keeps the types.
LEMMA Type_work_down ==
    ASSUME TypeInv, NEW t \in Threads, work_down(t)
    PROVE  TypeInv'
<1> USE CmdIfAssumption DEF work_down
<1>0. cur(t) \in Cmds
    BY DEF TypeInv, ThrInv, ThrLocal, Busy, WorkPCs
<1>1. ThrInv' /\ \A u \in Threads \ {t} : pc'[u] = pc[u]
    BY <1>0, GotoThr DEF Threads, Goto, Busy, Slotted, PCs, CallerPCs, WorkPCs, CompPCs, MgrPCs, entVars, cmdVars, fwVars, thrVars, mgrVars, hisVars
<1>2. EntType' /\ CmdType' /\ FwType' /\ MgrType' /\ HisType'
  <2>1. EntType'
    BY DEF TypeInv, TypeOK, EntType, entVars, cmdVars, fwVars, thrVars, mgrVars, hisVars, Rets
  <2>2. CmdType'
    <3>1. UNCHANGED <<queue, bitmask, ent_arr, mode, allowed, down>>
      BY DEF work_down
    <3>2. sem' \in {sem, sem - 1} /\ pages_sem' \in {pages_sem, pages_sem - 1}
      BY DEF work_down
    <3> HIDE CmdIfAssumption DEF work_down
    <3>3. sem \in Int /\ pages_sem \in Int
      BY DEF TypeInv, TypeOK, CmdType
    <3>4. sem' \in Int /\ pages_sem' \in Int
      BY <3>2, <3>3
    <3> QED
      BY <3>1, <3>2, <3>3, <3>4 DEF TypeInv, TypeOK, CmdType
  <2>3. FwType'
    BY DEF TypeInv, TypeOK, FwType, entVars, cmdVars, fwVars, thrVars, mgrVars, hisVars
  <2>4. MgrType'
    BY DEF TypeInv, TypeOK, MgrType, entVars, cmdVars, fwVars, thrVars, mgrVars, hisVars
  <2>5. HisType'
    BY DEF TypeInv, TypeOK, HisType, entVars, cmdVars, fwVars, thrVars, mgrVars, hisVars, Rets
  <2> QED
    BY <2>1, <2>2, <2>3, <2>4, <2>5
<1>3. SlotLocals' /\ GotLocal'
    BY <1>1, QuietLocals DEF Threads, entVars, cmdVars, fwVars, thrVars, mgrVars, hisVars
<1> QED
    BY <1>1, <1>2, <1>3 DEF TypeInv, TypeOK, ThrInv

\* The one step that gives an entry its slot.
LEMMA AllocThr ==
    ASSUME TypeInv, NEW t \in Threads, cur(t) \in Cmds, NEW s \in Slots,
           idx' = [idx EXCEPT ![cur(t)] = s], Goto(t, "w_arr"), UNCHANGED frame
    PROVE  ThrInv' /\ \A u \in Threads \ {t} : pc'[u] = pc[u]
<1>1. ThrType' /\ \A u \in Threads \ {t} : pc'[u] = pc[u]
    BY DEF TypeInv, TypeOK, ThrType, Goto, PCs, WorkPCs
<1>2. ASSUME NEW u \in Threads PROVE ThrLocal(u)'
  <2>1. \A c \in Cmds : idx[c] \in Slots => idx'[c] \in Slots
    BY DEF TypeInv, TypeOK, EntType
  <2>2. CASE u = t
    BY <2>2 DEF TypeInv, TypeOK, ThrInv, ThrType, EntType, ThrLocal, cur, Goto
  <2>3. CASE u # t
    <3>1. ThrLocal(u) /\ pc'[u] = pc[u] /\ (pc[u] \in Slotted => pc[u] \in Busy)
      BY <1>1, <2>3 DEF TypeInv, ThrInv, Slotted, Busy, WorkPCs
    <3> QED
      BY <2>1, <3>1 DEF ThrLocal, cur
  <2> QED
    BY <2>2, <2>3
<1> QED
    BY <1>1, <1>2 DEF ThrInv

\* cmd_alloc_index keeps the types.
LEMMA Type_cmd_alloc_index ==
    ASSUME TypeInv, NEW t \in Threads, cmd_alloc_index(t)
    PROVE  TypeInv'
<1> USE CmdIfAssumption DEF cmd_alloc_index
<1>0. cur(t) \in Cmds
    BY DEF TypeInv, ThrInv, ThrLocal, Busy, WorkPCs
<1>1. ThrInv' /\ \A u \in Threads \ {t} : pc'[u] = pc[u]
    BY <1>0, AllocThr DEF Threads, entVars, cmdVars, fwVars, thrVars, mgrVars, hisVars
<1>2. EntType' /\ CmdType' /\ FwType' /\ MgrType' /\ HisType'
  <2>1. EntType'
    <3>1. UNCHANGED <<refcnt, pending, done, handling, timer, ret>>
      BY DEF cmd_alloc_index
    <3>2. \E s \in Slots : idx' = [idx EXCEPT ![cur(t)] = s]
      BY DEF cmd_alloc_index
    <3> HIDE CmdIfAssumption DEF cmd_alloc_index
    <3>3. idx' \in [Cmds -> Slots \cup {NoIdx}]
      BY <1>0, <3>2 DEF TypeInv, TypeOK, EntType
    <3> QED
      BY <3>1, <3>2, <3>3 DEF TypeInv, TypeOK, EntType
  <2>2. CmdType'
    BY <1>0, <1>1 DEF TypeInv, TypeOK, CmdType, entVars, cmdVars, fwVars, thrVars, mgrVars, hisVars
  <2>3. FwType'
    BY <1>0, <1>1 DEF TypeInv, TypeOK, FwType, entVars, cmdVars, fwVars, thrVars, mgrVars, hisVars
  <2>4. MgrType'
    BY <1>0, <1>1 DEF TypeInv, TypeOK, MgrType, entVars, cmdVars, fwVars, thrVars, mgrVars, hisVars
  <2>5. HisType'
    BY <1>0, <1>1 DEF TypeInv, TypeOK, HisType, entVars, cmdVars, fwVars, thrVars, mgrVars, hisVars, Rets
  <2> QED
    BY <2>1, <2>2, <2>3, <2>4, <2>5
<1>3. SlotLocals' /\ GotLocal'
  <2>1. \A c \in Cmds : idx[c] \in Slots => idx'[c] \in Slots
    BY <1>0 DEF TypeInv, TypeOK, EntType
  <2>2. SlotLocals'
    <3>1. UNCHANGED <<pending, fw, eq>>
      BY DEF cmdVars, fwVars
    <3> HIDE CmdIfAssumption DEF cmd_alloc_index
    <3>2. /\ pending \subseteq Cmds /\ \A c \in pending : idx[c] \in Slots
          /\ \A r \in Slots : fw[r] \in Cmds => idx[fw[r]] \in Slots
          /\ \A i \in 1 .. Len(eq) : eq[i] \in Cmds /\ idx[eq[i]] \in Slots
      BY DEF TypeInv, TypeOK, EntType, FwType, SlotLocals
    <3> QED
      BY <2>1, <3>1, <3>2 DEF SlotLocals
  <2>3. GotLocal'
    BY <1>1 DEF TypeInv, GotLocal, Threads, mgrVars
  <2> QED
    BY <2>2, <2>3
<1> QED
    BY <1>1, <1>2, <1>3 DEF TypeInv, TypeOK, ThrInv

\* alloc_index_failed keeps the types.
LEMMA Type_alloc_index_failed ==
    ASSUME TypeInv, NEW t \in Threads, alloc_index_failed(t)
    PROVE  TypeInv'
<1> USE CmdIfAssumption DEF alloc_index_failed
<1>0. cur(t) \in Cmds
    BY DEF TypeInv, ThrInv, ThrLocal, Busy, WorkPCs
<1>1. ThrInv' /\ \A u \in Threads \ {t} : pc'[u] = pc[u]
    BY <1>0, GotoThr DEF Threads, Goto, Busy, Slotted, PCs, CallerPCs, WorkPCs, CompPCs, MgrPCs, entVars, cmdVars, fwVars, thrVars, mgrVars, hisVars
<1>2. EntType' /\ CmdType' /\ FwType' /\ MgrType' /\ HisType'
  <2>1. EntType'
    <3>1. CASE cur(t) \in Async
      <4>1. /\ refcnt' = [refcnt EXCEPT ![cur(t)] = Dec(refcnt[cur(t)])]
            /\ UNCHANGED <<idx, pending, done, handling, timer, ret>>
        BY <3>1
      <4> HIDE CmdIfAssumption DEF alloc_index_failed
      <4>2. refcnt \in [Cmds -> Nat] /\ refcnt[cur(t)] \in Nat
        BY <1>0 DEF TypeInv, TypeOK, EntType
      <4>3. Dec(refcnt[cur(t)]) \in Nat
        BY <4>2 DEF Dec
      <4>4. refcnt' \in [Cmds -> Nat]
        BY <1>0, <4>1, <4>2, <4>3
      <4> QED
        BY <4>1, <4>4 DEF TypeInv, TypeOK, EntType
    <3>2. CASE cur(t) \notin Async
      BY <1>0, <3>2 DEF TypeInv, TypeOK, EntType, Rets
    <3> QED
      BY <3>1, <3>2
  <2>2. CmdType'
    BY <1>0, <1>1 DEF TypeInv, TypeOK, CmdType, entVars, cmdVars, fwVars, thrVars, mgrVars, hisVars
  <2>3. FwType'
    BY <1>0, <1>1 DEF TypeInv, TypeOK, FwType, entVars, cmdVars, fwVars, thrVars, mgrVars, hisVars
  <2>4. MgrType'
    <3>1. UNCHANGED <<script, got, vec, held>>
      BY DEF alloc_index_failed, mgrVars
    <3>2. num_inflight' \in {num_inflight, num_inflight - 1}
      BY DEF alloc_index_failed
    <3> HIDE CmdIfAssumption DEF alloc_index_failed
    <3>3. num_inflight \in Int
      BY DEF TypeInv, TypeOK, MgrType
    <3>4. num_inflight' \in Int
      BY <3>2, <3>3
    <3> QED
      BY <3>1, <3>2, <3>3, <3>4 DEF TypeInv, TypeOK, MgrType
  <2>5. HisType'
    <3>1. CASE cur(t) \in Async
      <4>1. /\ res' = [res EXCEPT ![cur(t)] = "again"] /\ executed' = executed
            /\ cbs' = [cbs EXCEPT ![cur(t)] = @ + 1]
        BY <3>1
      <4> HIDE DEF alloc_index_failed
      <4>2. res' \in [Cmds -> Rets \cup {"none", "nomem"}]
        BY <1>0, <4>1 DEF TypeInv, TypeOK, HisType, Rets
      <4>3. cbs' \in [Cmds -> Nat]
        BY <1>0, <4>1 DEF TypeInv, TypeOK, HisType
      <4> QED
        BY <4>1, <4>2, <4>3 DEF TypeInv, TypeOK, HisType
    <3>2. CASE cur(t) \notin Async
      BY <1>0, <3>2 DEF TypeInv, TypeOK, HisType
    <3> QED
      BY <3>1, <3>2
  <2> QED
    BY <2>1, <2>2, <2>3, <2>4, <2>5
<1>3. SlotLocals' /\ GotLocal'
    BY <1>1, QuietLocals DEF Threads, entVars, cmdVars, fwVars, thrVars, mgrVars, hisVars
<1> QED
    BY <1>1, <1>2, <1>3 DEF TypeInv, TypeOK, ThrInv

\* work_noidx_up keeps the types.
LEMMA Type_work_noidx_up ==
    ASSUME TypeInv, NEW t \in Threads, work_noidx_up(t)
    PROVE  TypeInv'
<1> USE CmdIfAssumption DEF work_noidx_up
<1>1. ThrInv' /\ \A u \in Threads \ {t} : pc'[u] = pc[u]
    BY EnterThr DEF Threads, AfterWork, PCs, CallerPCs, WorkPCs, CompPCs, MgrPCs, entVars, cmdVars, fwVars, thrVars, mgrVars, hisVars
<1>2. EntType' /\ CmdType' /\ FwType' /\ MgrType' /\ HisType'
  <2>1. EntType'
    BY DEF TypeInv, TypeOK, EntType, entVars, cmdVars, fwVars, thrVars, mgrVars, hisVars, Rets
  <2>2. CmdType'
    <3>1. UNCHANGED <<queue, bitmask, ent_arr, mode, allowed, down>>
      BY DEF work_noidx_up
    <3>2. sem' \in {sem, sem + 1} /\ pages_sem' \in {pages_sem, pages_sem + 1}
      BY DEF work_noidx_up, AgainUp
    <3> HIDE CmdIfAssumption DEF work_noidx_up
    <3>3. sem \in Int /\ pages_sem \in Int
      BY DEF TypeInv, TypeOK, CmdType
    <3>4. sem' \in Int /\ pages_sem' \in Int
      BY <3>2, <3>3
    <3> QED
      BY <3>1, <3>2, <3>3, <3>4 DEF TypeInv, TypeOK, CmdType
  <2>3. FwType'
    BY DEF TypeInv, TypeOK, FwType, entVars, cmdVars, fwVars, thrVars, mgrVars, hisVars
  <2>4. MgrType'
    BY DEF TypeInv, TypeOK, MgrType, entVars, cmdVars, fwVars, thrVars, mgrVars, hisVars
  <2>5. HisType'
    BY DEF TypeInv, TypeOK, HisType, entVars, cmdVars, fwVars, thrVars, mgrVars, hisVars, Rets
  <2> QED
    BY <2>1, <2>2, <2>3, <2>4, <2>5
<1>3. SlotLocals' /\ GotLocal'
    BY <1>1, QuietLocals DEF Threads, entVars, cmdVars, fwVars, thrVars, mgrVars, hisVars
<1> QED
    BY <1>1, <1>2, <1>3 DEF TypeInv, TypeOK, ThrInv

\* work_arr keeps the types.
LEMMA Type_work_arr ==
    ASSUME TypeInv, NEW t \in Threads, work_arr(t)
    PROVE  TypeInv'
<1> USE CmdIfAssumption DEF work_arr
<1>0. cur(t) \in Cmds /\ idx[cur(t)] \in Slots
    BY DEF TypeInv, ThrInv, ThrLocal, Busy, Slotted, WorkPCs
<1>1. ThrInv' /\ \A u \in Threads \ {t} : pc'[u] = pc[u]
    BY <1>0, GotoThr DEF Threads, Goto, Busy, Slotted, PCs, CallerPCs, WorkPCs, CompPCs, MgrPCs, entVars, cmdVars, fwVars, thrVars, mgrVars, hisVars
<1>2. EntType' /\ CmdType' /\ FwType' /\ MgrType' /\ HisType'
  <2>1. EntType'
    BY <1>0, <1>1 DEF TypeInv, TypeOK, EntType, entVars, cmdVars, fwVars, thrVars, mgrVars, hisVars, Rets
  <2>2. CmdType'
    BY <1>0, <1>1 DEF TypeInv, TypeOK, CmdType, entVars, cmdVars, fwVars, thrVars, mgrVars, hisVars
  <2>3. FwType'
    BY <1>0, <1>1 DEF TypeInv, TypeOK, FwType, entVars, cmdVars, fwVars, thrVars, mgrVars, hisVars
  <2>4. MgrType'
    BY <1>0, <1>1 DEF TypeInv, TypeOK, MgrType, entVars, cmdVars, fwVars, thrVars, mgrVars, hisVars
  <2>5. HisType'
    BY <1>0, <1>1 DEF TypeInv, TypeOK, HisType, entVars, cmdVars, fwVars, thrVars, mgrVars, hisVars, Rets
  <2> QED
    BY <2>1, <2>2, <2>3, <2>4, <2>5
<1>3. SlotLocals' /\ GotLocal'
    BY <1>1, QuietLocals DEF Threads, entVars, cmdVars, fwVars, thrVars, mgrVars, hisVars
<1> QED
    BY <1>1, <1>2, <1>3 DEF TypeInv, TypeOK, ThrInv

\* work_arm keeps the types.
LEMMA Type_work_arm ==
    ASSUME TypeInv, NEW t \in Threads, work_arm(t)
    PROVE  TypeInv'
<1> USE CmdIfAssumption DEF work_arm
<1>0. cur(t) \in Cmds /\ idx[cur(t)] \in Slots
    BY DEF TypeInv, ThrInv, ThrLocal, Busy, Slotted, WorkPCs
<1> DEFINE y == IF mode = "POLLING" \/ cur(t) \in Polled THEN "POLLING" ELSE "EVENT"
           f == [frame[t] EXCEPT !.type = y]
<1>f. frame[t] \in Frames
    BY DEF TypeInv, TypeOK, ThrType
<1>g. f \in Frames /\ f.ent = cur(t)
    BY <1>f DEF Frames, cur
<1>h. Moves(t, "w_get", f) /\ "w_get" \in PCs
    BY DEF Goto, Moves, PCs, WorkPCs
<1> HIDE DEF f, work_arm
<1>1. ThrInv' /\ \A u \in Threads \ {t} : pc'[u] = pc[u]
    BY <1>0, MovesThr, <1>f, <1>g, <1>h DEF Threads, entVars, cmdVars, fwVars, thrVars, mgrVars, hisVars
<1>2. EntType' /\ CmdType' /\ FwType' /\ MgrType' /\ HisType'
  <2> USE DEF work_arm
  <2>1. EntType'
    BY <1>0, <1>1 DEF TypeInv, TypeOK, EntType, entVars, cmdVars, fwVars, thrVars, mgrVars, hisVars, Rets, Inc
  <2>2. CmdType'
    BY <1>0, <1>1 DEF TypeInv, TypeOK, CmdType, entVars, cmdVars, fwVars, thrVars, mgrVars, hisVars
  <2>3. FwType'
    BY <1>0, <1>1 DEF TypeInv, TypeOK, FwType, entVars, cmdVars, fwVars, thrVars, mgrVars, hisVars
  <2>4. MgrType'
    BY <1>0, <1>1 DEF TypeInv, TypeOK, MgrType, entVars, cmdVars, fwVars, thrVars, mgrVars, hisVars
  <2>5. HisType'
    BY <1>0, <1>1 DEF TypeInv, TypeOK, HisType, entVars, cmdVars, fwVars, thrVars, mgrVars, hisVars, Rets
  <2> QED
    BY <2>1, <2>2, <2>3, <2>4, <2>5
<1>3. SlotLocals' /\ GotLocal'
  <2>1. SlotLocals'
    BY <1>0 DEF work_arm, TypeInv, SlotLocals, fwVars
  <2>2. GotLocal'
    BY <1>1 DEF work_arm, TypeInv, GotLocal, Threads, mgrVars
  <2> QED
    BY <2>1, <2>2
<1> QED
    BY <1>1, <1>2, <1>3 DEF TypeInv, TypeOK, ThrInv

\* work_get keeps the types.
LEMMA Type_work_get ==
    ASSUME TypeInv, NEW t \in Threads, work_get(t)
    PROVE  TypeInv'
<1> USE CmdIfAssumption DEF work_get
<1>0. cur(t) \in Cmds /\ idx[cur(t)] \in Slots
    BY DEF TypeInv, ThrInv, ThrLocal, Busy, Slotted, WorkPCs
<1>h. "w_check" \in PCs /\ Goto(t, "w_check") /\ UNCHANGED <<frame, idx>>
    BY DEF PCs, WorkPCs
<1>1. ThrInv' /\ \A u \in Threads \ {t} : pc'[u] = pc[u]
  <2> HIDE DEF work_get
  <2> QED
    BY <1>0, <1>h, GotoThr
<1>2. EntType' /\ CmdType' /\ FwType' /\ MgrType' /\ HisType'
  <2>1. EntType'
    <3>1. /\ refcnt' = [refcnt EXCEPT ![cur(t)] = Inc(@)] /\ EntType
          /\ UNCHANGED <<idx, pending, done, handling, timer, ret>>
      BY Zenon DEF TypeInv, TypeOK
    <3>2. refcnt' \in [Cmds -> Nat]
      <4> HIDE DEF work_get
      <4> QED BY <1>0, <3>1 DEF EntType, Inc
    <3> HIDE DEF work_get
    <3> QED BY Zenon, <3>1, <3>2 DEF EntType
  <2>2. CmdType'
    BY <1>0, <1>1 DEF TypeInv, TypeOK, CmdType, entVars, cmdVars, fwVars, thrVars, mgrVars, hisVars
  <2>3. FwType'
    BY <1>0, <1>1 DEF TypeInv, TypeOK, FwType, entVars, cmdVars, fwVars, thrVars, mgrVars, hisVars
  <2>4. MgrType'
    BY <1>0, <1>1 DEF TypeInv, TypeOK, MgrType, entVars, cmdVars, fwVars, thrVars, mgrVars, hisVars
  <2>5. HisType'
    BY <1>0, <1>1 DEF TypeInv, TypeOK, HisType, entVars, cmdVars, fwVars, thrVars, mgrVars, hisVars, Rets
  <2> QED
    BY <2>1, <2>2, <2>3, <2>4, <2>5
<1>3. SlotLocals' /\ GotLocal'
    BY <1>1, QuietLocals DEF Threads, entVars, cmdVars, fwVars, thrVars, mgrVars, hisVars
<1> QED
    BY <1>1, <1>2, <1>3 DEF TypeInv, TypeOK, ThrInv

\* work_check keeps the types.
LEMMA Type_work_check ==
    ASSUME TypeInv, NEW t \in Threads, work_check(t)
    PROVE  TypeInv'
<1> USE CmdIfAssumption DEF work_check
<1>0. cur(t) \in Cmds /\ idx[cur(t)] \in Slots
    BY DEF TypeInv, ThrInv, ThrLocal, Busy, Slotted, WorkPCs
<1>1. ThrInv' /\ \A u \in Threads \ {t} : pc'[u] = pc[u]
    BY <1>0, GotoThr, CallThr DEF Threads, AfterWork, BackPCs, Goto, Busy, Slotted, PCs, CallerPCs, WorkPCs, CompPCs, MgrPCs, entVars, cmdVars, fwVars, thrVars, mgrVars, hisVars
<1>2. EntType' /\ CmdType' /\ FwType' /\ MgrType' /\ HisType'
    BY <1>0, <1>1 DEF TypeInv, TypeOK, EntType, CmdType, FwType, MgrType, HisType, Rets, entVars, cmdVars, fwVars, thrVars, mgrVars, hisVars
<1>3. SlotLocals' /\ GotLocal'
    BY <1>1, QuietLocals DEF Threads, entVars, cmdVars, fwVars, thrVars, mgrVars, hisVars
<1> QED
    BY <1>1, <1>2, <1>3 DEF TypeInv, TypeOK, ThrInv

\* work_doorbell keeps the types.
LEMMA Type_work_doorbell ==
    ASSUME TypeInv, NEW t \in Threads, work_doorbell(t)
    PROVE  TypeInv'
<1> USE CmdIfAssumption DEF work_doorbell
<1>0. cur(t) \in Cmds /\ idx[cur(t)] \in Slots
    BY DEF TypeInv, ThrInv, ThrLocal, Busy, Slotted, WorkPCs
<1>1. ThrInv' /\ \A u \in Threads \ {t} : pc'[u] = pc[u]
    BY <1>0, GotoThr, EnterThr DEF Threads, AfterWork, Goto, Busy, Slotted, PCs, CallerPCs, WorkPCs, CompPCs, MgrPCs, entVars, cmdVars, fwVars, thrVars, mgrVars, hisVars
<1>2. EntType' /\ CmdType' /\ FwType' /\ MgrType' /\ HisType'
    BY <1>0, <1>1 DEF TypeInv, TypeOK, EntType, CmdType, FwType, MgrType, HisType, Rets, entVars, cmdVars, fwVars, thrVars, mgrVars, hisVars
<1>3. SlotLocals' /\ GotLocal'
  <2>1. SlotLocals'
    BY <1>0 DEF TypeInv, TypeOK, FwType, SlotLocals, entVars
  <2>2. GotLocal'
    BY <1>1 DEF TypeInv, GotLocal, Threads, mgrVars
  <2> QED
    BY <2>1, <2>2
<1> QED
    BY <1>1, <1>2, <1>3 DEF TypeInv, TypeOK, ThrInv

\* work_polled keeps the types.
LEMMA Type_work_polled ==
    ASSUME TypeInv, NEW t \in Threads, work_polled(t)
    PROVE  TypeInv'
<1> USE CmdIfAssumption DEF work_polled
<1>0. cur(t) \in Cmds /\ idx[cur(t)] \in Slots
    BY DEF TypeInv, ThrInv, ThrLocal, Busy, Slotted, WorkPCs
<1>1. ThrInv' /\ \A u \in Threads \ {t} : pc'[u] = pc[u]
    BY <1>0, CallThr DEF Threads, AfterWork, BackPCs, Goto, Busy, Slotted, PCs, CallerPCs, WorkPCs, CompPCs, MgrPCs, entVars, cmdVars, fwVars, thrVars, mgrVars, hisVars
<1>2. EntType' /\ CmdType' /\ FwType' /\ MgrType' /\ HisType'
    BY <1>0, <1>1 DEF TypeInv, TypeOK, EntType, CmdType, FwType, MgrType, HisType, Rets, entVars, cmdVars, fwVars, thrVars, mgrVars, hisVars
<1>3. SlotLocals' /\ GotLocal'
    BY <1>1, QuietLocals DEF Threads, entVars, cmdVars, fwVars, thrVars, mgrVars, hisVars
<1> QED
    BY <1>1, <1>2, <1>3 DEF TypeInv, TypeOK, ThrInv

\* work_poll_timeout keeps the types.
LEMMA Type_work_poll_timeout ==
    ASSUME TypeInv, NEW t \in Threads, work_poll_timeout(t)
    PROVE  TypeInv'
<1> USE CmdIfAssumption DEF work_poll_timeout
<1>0. cur(t) \in Cmds /\ idx[cur(t)] \in Slots
    BY DEF TypeInv, ThrInv, ThrLocal, Busy, Slotted, WorkPCs
<1>1. ThrInv' /\ \A u \in Threads \ {t} : pc'[u] = pc[u]
    BY <1>0, CallThr DEF Threads, AfterWork, BackPCs, Goto, Busy, Slotted, PCs, CallerPCs, WorkPCs, CompPCs, MgrPCs, entVars, cmdVars, fwVars, thrVars, mgrVars, hisVars
<1>2. EntType' /\ CmdType' /\ FwType' /\ MgrType' /\ HisType'
    BY <1>0, <1>1 DEF TypeInv, TypeOK, EntType, CmdType, FwType, MgrType, HisType, Rets, entVars, cmdVars, fwVars, thrVars, mgrVars, hisVars
<1>3. SlotLocals' /\ GotLocal'
    BY <1>1, QuietLocals DEF Threads, entVars, cmdVars, fwVars, thrVars, mgrVars, hisVars
<1> QED
    BY <1>1, <1>2, <1>3 DEF TypeInv, TypeOK, ThrInv

\* comp_cancel_timer keeps the types.
LEMMA Type_comp_cancel_timer ==
    ASSUME TypeInv, NEW t \in Threads, comp_cancel_timer(t)
    PROVE  TypeInv'
<1> USE CmdIfAssumption DEF comp_cancel_timer
<1>0. cur(t) \in Cmds
    BY DEF TypeInv, ThrInv, ThrLocal, Busy, CompPCs
<1>1. ThrInv' /\ \A u \in Threads \ {t} : pc'[u] = pc[u]
    BY <1>0, GotoThr, PutThr DEF Threads, ContPCs, Goto, Busy, Slotted, PCs, CallerPCs, WorkPCs, CompPCs, MgrPCs, entVars, cmdVars, fwVars, thrVars, mgrVars, hisVars
<1>2. EntType' /\ CmdType' /\ FwType' /\ MgrType' /\ HisType'
  <2>1. EntType'
    BY <1>0, PutThr DEF TypeInv, TypeOK, EntType, CompPCs, ContPCs
  <2>2. CmdType'
    BY <1>0, <1>1 DEF TypeInv, TypeOK, CmdType, entVars, cmdVars, fwVars, thrVars, mgrVars, hisVars
  <2>3. FwType'
    BY <1>0, <1>1 DEF TypeInv, TypeOK, FwType, entVars, cmdVars, fwVars, thrVars, mgrVars, hisVars
  <2>4. MgrType'
    BY <1>0, <1>1 DEF TypeInv, TypeOK, MgrType, entVars, cmdVars, fwVars, thrVars, mgrVars, hisVars
  <2>5. HisType'
    BY <1>0, <1>1 DEF TypeInv, TypeOK, HisType, entVars, cmdVars, fwVars, thrVars, mgrVars, hisVars, Rets
  <2> QED
    BY <2>1, <2>2, <2>3, <2>4, <2>5
<1>3. SlotLocals' /\ GotLocal'
    BY <1>1, QuietLocals DEF Threads, entVars, cmdVars, fwVars, thrVars, mgrVars, hisVars
<1> QED
    BY <1>1, <1>2, <1>3 DEF TypeInv, TypeOK, ThrInv

\* comp_put_fw keeps the types.
LEMMA Type_comp_put_fw ==
    ASSUME TypeInv, NEW t \in Threads, comp_put_fw(t)
    PROVE  TypeInv'
<1> USE CmdIfAssumption DEF comp_put_fw
<1>0. cur(t) \in Cmds
    BY DEF TypeInv, ThrInv, ThrLocal, Busy, CompPCs
<1>1. ThrInv' /\ \A u \in Threads \ {t} : pc'[u] = pc[u]
    BY <1>0, GotoThr, PutThr DEF Threads, ContPCs, Goto, Busy, Slotted, PCs, CallerPCs, WorkPCs, CompPCs, MgrPCs, entVars, cmdVars, fwVars, thrVars, mgrVars, hisVars
<1>2. EntType' /\ CmdType' /\ FwType' /\ MgrType' /\ HisType'
  <2>1. EntType'
    BY <1>0, PutThr DEF TypeInv, TypeOK, EntType, CompPCs, ContPCs
  <2>2. CmdType'
    BY <1>0, <1>1 DEF TypeInv, TypeOK, CmdType, entVars, cmdVars, fwVars, thrVars, mgrVars, hisVars
  <2>3. FwType'
    BY <1>0, <1>1 DEF TypeInv, TypeOK, FwType, entVars, cmdVars, fwVars, thrVars, mgrVars, hisVars
  <2>4. MgrType'
    BY <1>0, <1>1 DEF TypeInv, TypeOK, MgrType, entVars, cmdVars, fwVars, thrVars, mgrVars, hisVars
  <2>5. HisType'
    BY <1>0, <1>1 DEF TypeInv, TypeOK, HisType, entVars, cmdVars, fwVars, thrVars, mgrVars, hisVars, Rets
  <2> QED
    BY <2>1, <2>2, <2>3, <2>4, <2>5
<1>3. SlotLocals' /\ GotLocal'
    BY <1>1, QuietLocals DEF Threads, entVars, cmdVars, fwVars, thrVars, mgrVars, hisVars
<1> QED
    BY <1>1, <1>2, <1>3 DEF TypeInv, TypeOK, ThrInv

\* comp_finish keeps the types.
LEMMA Type_comp_finish ==
    ASSUME TypeInv, NEW t \in Threads, comp_finish(t)
    PROVE  TypeInv'
<1> USE CmdIfAssumption DEF comp_finish
<1>0. /\ cur(t) \in Cmds /\ ret[cur(t)] \in Rets
      /\ "c_put" \in PCs \ Slotted /\ "c_up" \in PCs \ Slotted
    BY DEF TypeInv, TypeOK, EntType, ThrInv, ThrLocal, Busy, Slotted, CompPCs, PCs
<1> DEFINE r == IF ret[cur(t)] = "ok" /\ t = MGR THEN "aborted" ELSE ret[cur(t)]
           f == [frame[t] EXCEPT !.err = r]
<1>r. r \in Rets
    BY <1>0 DEF Rets
<1>f. frame[t] \in Frames
    BY DEF TypeInv, TypeOK, ThrType
<1>g. f \in Frames /\ f.ent = cur(t)
    BY <1>r, <1>f, FrameErr DEF cur
<1>h. \/ Moves(t, "c_put", f)
      \/ Goto(t, "c_up") /\ UNCHANGED <<frame, idx>>
    BY DEF Goto, Moves
<1>k. ret' = [ret EXCEPT ![cur(t)] = r]
    OBVIOUS
<1> HIDE DEF f, r
<1>1. ThrInv' /\ \A u \in Threads \ {t} : pc'[u] = pc[u]
  <2> HIDE DEF comp_finish
  <2>1. CASE Moves(t, "c_put", f)
    BY <1>0, <1>g, <2>1, MovesThr
  <2>2. CASE Goto(t, "c_up") /\ UNCHANGED <<frame, idx>>
    BY <1>0, <2>2, GotoThr
  <2> QED
    BY <1>h, <2>1, <2>2
<1>2. EntType' /\ CmdType' /\ FwType' /\ MgrType' /\ HisType'
  <2>1. EntType'
    <3>1. done' \subseteq Cmds /\ UNCHANGED <<refcnt, idx, pending, handling, timer>>
      BY <1>0 DEF TypeInv, TypeOK, EntType
    <3> HIDE DEF comp_finish
    <3> QED
      BY <1>0, <1>r, <1>k, <3>1 DEF TypeInv, TypeOK, EntType
  <2>2. CmdType'
    BY <1>0, <1>1 DEF TypeInv, TypeOK, CmdType, entVars, cmdVars, fwVars, thrVars, mgrVars, hisVars
  <2>3. FwType'
    BY <1>0, <1>1 DEF TypeInv, TypeOK, FwType, entVars, cmdVars, fwVars, thrVars, mgrVars, hisVars
  <2>4. MgrType'
    BY <1>0, <1>1 DEF TypeInv, TypeOK, MgrType, entVars, cmdVars, fwVars, thrVars, mgrVars, hisVars
  <2>5. HisType'
    BY <1>0, <1>1 DEF TypeInv, TypeOK, HisType, entVars, cmdVars, fwVars, thrVars, mgrVars, hisVars, Rets
  <2> QED
    BY <2>1, <2>2, <2>3, <2>4, <2>5
<1>3. SlotLocals' /\ GotLocal'
    BY <1>1, QuietLocals DEF Threads, entVars, cmdVars, fwVars, thrVars, mgrVars, hisVars
<1> QED
    BY <1>1, <1>2, <1>3 DEF TypeInv, TypeOK, ThrInv

\* comp_put keeps the types.
LEMMA Type_comp_put ==
    ASSUME TypeInv, NEW t \in Threads, comp_put(t)
    PROVE  TypeInv'
<1> USE CmdIfAssumption DEF comp_put
<1>0. cur(t) \in Cmds
    BY DEF TypeInv, ThrInv, ThrLocal, Busy, CompPCs
<1>1. ThrInv' /\ \A u \in Threads \ {t} : pc'[u] = pc[u]
    BY <1>0, PutThr DEF Threads, ContPCs, CompPCs, entVars, cmdVars, fwVars, thrVars, mgrVars, hisVars
<1>2. EntType' /\ CmdType' /\ FwType' /\ MgrType' /\ HisType'
  <2>1. EntType'
    BY <1>0, PutThr DEF TypeInv, TypeOK, EntType, CompPCs, ContPCs
  <2>2. CmdType'
    BY <1>0, <1>1 DEF TypeInv, TypeOK, CmdType, entVars, cmdVars, fwVars, thrVars, mgrVars, hisVars
  <2>3. FwType'
    BY <1>0, <1>1 DEF TypeInv, TypeOK, FwType, entVars, cmdVars, fwVars, thrVars, mgrVars, hisVars
  <2>4. MgrType'
    BY <1>0, <1>1 DEF TypeInv, TypeOK, MgrType, entVars, cmdVars, fwVars, thrVars, mgrVars, hisVars
  <2>5. HisType'
    BY <1>0, <1>1 DEF TypeInv, TypeOK, HisType, entVars, cmdVars, fwVars, thrVars, mgrVars, hisVars, Rets
  <2> QED
    BY <2>1, <2>2, <2>3, <2>4, <2>5
<1>3. SlotLocals' /\ GotLocal'
    BY <1>1, QuietLocals DEF Threads, entVars, cmdVars, fwVars, thrVars, mgrVars, hisVars
<1> QED
    BY <1>1, <1>2, <1>3 DEF TypeInv, TypeOK, ThrInv

\* comp_callback keeps the types.
LEMMA Type_comp_callback ==
    ASSUME TypeInv, NEW t \in Threads, comp_callback(t)
    PROVE  TypeInv'
<1> USE CmdIfAssumption DEF comp_callback
<1>0. cur(t) \in Cmds /\ frame[t].err \in Rets
    BY DEF TypeInv, TypeOK, ThrType, Frames, ThrInv, ThrLocal, Busy, CompPCs
<1>1. ThrInv' /\ \A u \in Threads \ {t} : pc'[u] = pc[u]
    BY <1>0, GotoThr DEF Threads, Goto, Busy, Slotted, PCs, CallerPCs, WorkPCs, CompPCs, MgrPCs, entVars, cmdVars, fwVars, thrVars, mgrVars, hisVars
<1>2. EntType' /\ CmdType' /\ FwType' /\ MgrType' /\ HisType'
  <2>1. EntType'
    BY <1>0, <1>1 DEF TypeInv, TypeOK, EntType, entVars, cmdVars, fwVars, thrVars, mgrVars, hisVars, Rets
  <2>2. CmdType'
    BY <1>0, <1>1 DEF TypeInv, TypeOK, CmdType, entVars, cmdVars, fwVars, thrVars, mgrVars, hisVars
  <2>3. FwType'
    BY <1>0, <1>1 DEF TypeInv, TypeOK, FwType, entVars, cmdVars, fwVars, thrVars, mgrVars, hisVars
  <2>4. MgrType'
    <3>1. UNCHANGED <<script, got, vec, held>> /\ num_inflight' = num_inflight - 1
      BY DEF comp_callback, mgrVars
    <3> HIDE CmdIfAssumption DEF comp_callback
    <3>2. num_inflight' \in Int
      BY <3>1 DEF TypeInv, TypeOK, MgrType
    <3> QED
      BY <3>1, <3>2 DEF TypeInv, TypeOK, MgrType
  <2>5. HisType'
    <3>1. /\ cbs' = [cbs EXCEPT ![cur(t)] = @ + 1] /\ executed' = executed
          /\ res' = [res EXCEPT ![cur(t)] = frame[t].err]
      BY DEF comp_callback
    <3> HIDE CmdIfAssumption DEF comp_callback
    <3>2. cbs' \in [Cmds -> Nat]
      <4>1. cbs \in [Cmds -> Nat] /\ cbs[cur(t)] \in Nat
        BY <1>0 DEF TypeInv, TypeOK, HisType
      <4>2. cbs[cur(t)] + 1 \in Nat
        BY <4>1
      <4> QED
        BY <1>0, <3>1, <4>1, <4>2
    <3>3. res' \in [Cmds -> Rets \cup {"none", "nomem"}]
      BY <1>0, <3>1 DEF TypeInv, TypeOK, HisType
    <3> QED
      BY <3>1, <3>2, <3>3 DEF TypeInv, TypeOK, HisType
  <2> QED
    BY <2>1, <2>2, <2>3, <2>4, <2>5
<1>3. SlotLocals' /\ GotLocal'
    BY <1>1, QuietLocals DEF Threads, entVars, cmdVars, fwVars, thrVars, mgrVars, hisVars
<1> QED
    BY <1>1, <1>2, <1>3 DEF TypeInv, TypeOK, ThrInv

\* comp_up keeps the types.
LEMMA Type_comp_up ==
    ASSUME TypeInv, NEW t \in Threads, comp_up(t)
    PROVE  TypeInv'
<1> USE CmdIfAssumption DEF comp_up
<1>0. frame[t].back \in BackPCs
    BY DEF TypeInv, TypeOK, ThrType, Frames
<1>1. ThrInv' /\ \A u \in Threads \ {t} : pc'[u] = pc[u]
    BY <1>0, EnterThr DEF Threads, BackPCs, PCs, CallerPCs, WorkPCs, CompPCs, MgrPCs, entVars, cmdVars, fwVars, thrVars, mgrVars, hisVars
<1>2. EntType' /\ CmdType' /\ FwType' /\ MgrType' /\ HisType'
  <2>1. EntType'
    BY DEF TypeInv, TypeOK, EntType, entVars, cmdVars, fwVars, thrVars, mgrVars, hisVars, Rets
  <2>2. CmdType'
    <3>1. UNCHANGED <<queue, bitmask, ent_arr, mode, allowed, down>>
      BY DEF comp_up
    <3>2. sem' \in {sem, sem + 1} /\ pages_sem' \in {pages_sem, pages_sem + 1}
      BY DEF comp_up
    <3> HIDE CmdIfAssumption DEF comp_up
    <3>3. sem \in Int /\ pages_sem \in Int
      BY DEF TypeInv, TypeOK, CmdType
    <3>4. sem' \in Int /\ pages_sem' \in Int
      BY <3>2, <3>3
    <3> QED
      BY <3>1, <3>2, <3>3, <3>4 DEF TypeInv, TypeOK, CmdType
  <2>3. FwType'
    BY DEF TypeInv, TypeOK, FwType, entVars, cmdVars, fwVars, thrVars, mgrVars, hisVars
  <2>4. MgrType'
    BY DEF TypeInv, TypeOK, MgrType, entVars, cmdVars, fwVars, thrVars, mgrVars, hisVars
  <2>5. HisType'
    BY DEF TypeInv, TypeOK, HisType, entVars, cmdVars, fwVars, thrVars, mgrVars, hisVars, Rets
  <2> QED
    BY <2>1, <2>2, <2>3, <2>4, <2>5
<1>3. SlotLocals' /\ GotLocal'
    BY <1>1, QuietLocals DEF Threads, entVars, cmdVars, fwVars, thrVars, mgrVars, hisVars
<1> QED
    BY <1>1, <1>2, <1>3 DEF TypeInv, TypeOK, ThrInv

=============================================================================
