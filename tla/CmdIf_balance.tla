--------------------------- MODULE CmdIf_balance ---------------------------
(***************************************************************************)
(* The semaphores of the command interface neither leak nor gain a count   *)
(* (SemaphoreBalance), so that a drain of the interface meets no command   *)
(* (DrainIsQuiet): for any finite set of commands and any size of the      *)
(* command queue, while the interface is in event mode.                    *)
(***************************************************************************)
EXTENDS CmdIf_once, FiniteSetTheorems

-----------------------------------------------------------------------------
(* Who has a command whose semaphore is taken: the PENDING_COMP bit or     *)
(* one thread.                                                             *)

HandPCs == {"w_idx", "w_noidx", "w_arr", "w_arm"} \cup (CompPCs \ {"c_tac"})
HasHand(t) == pc[t] \in HandPCs \/ (pc[t] = "free_idx" /\ frame[t].cont \in CompPCs)
InHand(t) == IF HasHand(t) THEN cur(t) ELSE None

\* InFlight, by thread.
LEMMA FlightHands ==
    ASSUME NEW c \in Cmds
    PROVE  /\ InFlight(c) <=> c \in pending \/ \E t \in Threads : InHand(t) = c
           /\ InFlight(c)' <=> c \in pending' \/ \E t \in Threads : InHand(t)' = c
<1>0. c # None
    BY CmdIfAssumption
<1>1. InFlight(c) <=> c \in pending \/ \E t \in Threads : HasHand(t) /\ cur(t) = c
    BY Zenon DEF InFlight, Completing, HasHand, HandPCs
<1>2. InFlight(c)' <=> c \in pending' \/ \E t \in Threads : HasHand(t)' /\ cur(t)' = c
    BY Zenon DEF InFlight, Completing, HasHand, HandPCs, cur
<1>3. \A t \in Threads : InHand(t) = c <=> HasHand(t) /\ cur(t) = c
    BY Zenon, <1>0 DEF InHand
<1>4. \A t \in Threads : InHand(t)' = c <=> HasHand(t)' /\ cur(t)' = c
    BY Zenon, <1>0 DEF InHand
<1> QED
    BY Zenon, <1>1, <1>2, <1>3, <1>4

\* A command in the hands of a thread is in nobody else's.
LEMMA OneHand ==
    ASSUME Inv, NEW t \in Threads, NEW c \in Cmds, Holds(t, c)
    PROVE  c \notin pending /\ \A u \in Threads \ {t} : InHand(u) # c
<1>1. OnceOf(c) /\ \A u \in Threads : frame[u] \in Frames
    BY Zenon DEF Inv, OnceInv, TypeInv, TypeOK, ThrType
<1>2. ASSUME NEW u \in Threads, InHand(u) = c PROVE Holds(u, c)
  <2>1. HasHand(u) /\ cur(u) = c
    BY Zenon, <1>2, CmdIfAssumption DEF InHand
  <2>2. frame[u].cont \in CompPCs => frame[u].cont \in ClaimPCs
    BY <1>1 DEF Frames, ContPCs, BackPCs, CompPCs, ClaimPCs
  <2>3. pc[u] \in HandPCs => pc[u] \in PrepPCs \cup ClaimPCs \cup {"c_up", "w_noidx"}
    BY DEF HandPCs, CompPCs, PrepPCs, ClaimPCs
  <2>4. Stage(u) # "none"
    BY <2>1, <2>2, <2>3 DEF HasHand, Stage
  <2> QED
    BY Zenon, <2>1, <2>4 DEF Holds
<1> QED
    BY Zenon, <1>1, <1>2 DEF OnceOf

\* The other threads keep what they have.
LEMMA OtherHands ==
    ASSUME NEW t \in Threads, StepOf(t)
    PROVE  \A u \in Threads \ {t} : InHand(u)' = InHand(u)
BY Zenon DEF StepOf, InHand, HasHand, cur

-----------------------------------------------------------------------------
(* The balance.                                                            *)

\* Only a regular command fails to get a slot.
NoIdxLocal(t) == pc[t] = "w_noidx" => cur(t) \notin Paged

\* What MGR has taken is all there is once it has the last semaphore.
BalInv ==
    /\ SemaphoreBalance
    /\ sem >= 0 /\ pages_sem >= 0
    /\ pc[MGR] \in {"d_set", "f_up"} => got = NumReg + 1
    /\ \A t \in Threads : NoIdxLocal(t)

Reg == {c \in Cmds \ Paged : InFlight(c)}
Pgs == {c \in Paged : InFlight(c)}
GotReg == IF got > NumReg THEN NumReg ELSE got
GotPgs == IF got > NumReg THEN 1 ELSE 0

\* The commands in flight can be counted.
LEMMA SetsFinite ==
    ASSUME IsFiniteSet(Cmds)
    PROVE  /\ IsFiniteSet(Reg) /\ IsFiniteSet(Pgs) /\ IsFiniteSet(Reg') /\ IsFiniteSet(Pgs')
           /\ Cardinality(Reg) \in Nat /\ Cardinality(Pgs) \in Nat
           /\ Cardinality(Reg') \in Nat /\ Cardinality(Pgs') \in Nat
<1>1. Reg \subseteq Cmds /\ Pgs \subseteq Cmds /\ Reg' \subseteq Cmds /\ Pgs' \subseteq Cmds
    BY CmdIfAssumption DEF Reg, Pgs
<1>2. IsFiniteSet(Reg) /\ IsFiniteSet(Pgs) /\ IsFiniteSet(Reg') /\ IsFiniteSet(Pgs')
    BY Zenon, <1>1, FS_Subset
<1> QED
    BY Zenon, <1>2, FS_CardinalityType

\* Nothing that is counted changes.
LEMMA SameBal ==
    ASSUME BalInv, \A c \in Cmds : InFlight(c)' <=> InFlight(c),
           UNCHANGED <<sem, pages_sem, got>>,
           pc'[MGR] \in {"d_set", "f_up"} => pc[MGR] \in {"d_set", "f_up"},
           \A t \in Threads : NoIdxLocal(t)'
    PROVE  BalInv'
<1>1. Reg' = Reg /\ Pgs' = Pgs
    BY CmdIfAssumption DEF Reg, Pgs
<1>2. SemaphoreBalance'
    BY Zenon, <1>1 DEF BalInv, SemaphoreBalance, Reg, Pgs
<1> QED
    BY Zenon, <1>2 DEF BalInv

\* A command takes its semaphore.
LEMMA TakeBal ==
    ASSUME TypeInv, IsFiniteSet(Cmds), BalInv, NEW c \in Cmds, ~InFlight(c), InFlight(c)',
           \A d \in Cmds \ {c} : InFlight(d)' <=> InFlight(d),
           IF c \in Paged THEN pages_sem > 0 /\ pages_sem' = pages_sem - 1 /\ UNCHANGED sem
                          ELSE sem > 0 /\ sem' = sem - 1 /\ UNCHANGED pages_sem,
           UNCHANGED got, pc'[MGR] \in {"d_set", "f_up"} => pc[MGR] \in {"d_set", "f_up"},
           \A t \in Threads : NoIdxLocal(t)'
    PROVE  BalInv'
<1>0. /\ IsFiniteSet(Reg) /\ IsFiniteSet(Pgs) /\ Cardinality(Reg) \in Nat /\ Cardinality(Pgs) \in Nat
    BY Zenon, SetsFinite
<1>1. sem \in Int /\ pages_sem \in Int /\ got \in Int /\ NumReg \in Nat
    BY CmdIfAssumption DEF TypeInv, TypeOK, CmdType, MgrType
<1>2. /\ sem + GotReg + Cardinality(Reg) = NumReg
      /\ pages_sem + GotPgs + Cardinality(Pgs) = 1
    BY Zenon DEF BalInv, SemaphoreBalance, Reg, Pgs, GotReg, GotPgs
<1>3. GotReg' = GotReg /\ GotPgs' = GotPgs /\ GotReg \in Int /\ GotPgs \in Int
    BY <1>1 DEF GotReg, GotPgs
<1>4. CASE c \in Paged
  <2>1. Reg' = Reg /\ Pgs' = Pgs \cup {c} /\ c \notin Pgs
    BY <1>4, CmdIfAssumption DEF Reg, Pgs
  <2>2. Cardinality(Pgs') = Cardinality(Pgs) + 1
    BY Zenon, <1>0, <2>1, FS_AddElement
  <2>3. /\ sem' + GotReg' + Cardinality(Reg') = NumReg
        /\ pages_sem' + GotPgs' + Cardinality(Pgs') = 1
        /\ sem' >= 0 /\ pages_sem' >= 0
    BY <1>0, <1>1, <1>2, <1>3, <1>4, <2>1, <2>2 DEF BalInv
  <2> QED
    BY Zenon, <2>3 DEF BalInv, SemaphoreBalance, Reg, Pgs, GotReg, GotPgs
<1>5. CASE c \notin Paged
  <2>1. Pgs' = Pgs /\ Reg' = Reg \cup {c} /\ c \notin Reg
    BY <1>5, CmdIfAssumption DEF Reg, Pgs
  <2>2. Cardinality(Reg') = Cardinality(Reg) + 1
    BY Zenon, <1>0, <2>1, FS_AddElement
  <2>3. /\ sem' + GotReg' + Cardinality(Reg') = NumReg
        /\ pages_sem' + GotPgs' + Cardinality(Pgs') = 1
        /\ sem' >= 0 /\ pages_sem' >= 0
    BY <1>0, <1>1, <1>2, <1>3, <1>5, <2>1, <2>2 DEF BalInv
  <2> QED
    BY Zenon, <2>3 DEF BalInv, SemaphoreBalance, Reg, Pgs, GotReg, GotPgs
<1> QED
    BY Zenon, <1>4, <1>5

\* A command gives its semaphore back.
LEMMA GiveBal ==
    ASSUME TypeInv, IsFiniteSet(Cmds), BalInv, NEW c \in Cmds, InFlight(c), ~InFlight(c)',
           \A d \in Cmds \ {c} : InFlight(d)' <=> InFlight(d),
           IF c \in Paged THEN pages_sem' = pages_sem + 1 /\ UNCHANGED sem
                          ELSE sem' = sem + 1 /\ UNCHANGED pages_sem,
           UNCHANGED got, pc'[MGR] \in {"d_set", "f_up"} => pc[MGR] \in {"d_set", "f_up"},
           \A t \in Threads : NoIdxLocal(t)'
    PROVE  BalInv'
<1>0. /\ IsFiniteSet(Reg) /\ IsFiniteSet(Pgs) /\ Cardinality(Reg) \in Nat /\ Cardinality(Pgs) \in Nat
    BY Zenon, SetsFinite
<1>1. sem \in Int /\ pages_sem \in Int /\ got \in Int /\ NumReg \in Nat
    BY CmdIfAssumption DEF TypeInv, TypeOK, CmdType, MgrType
<1>2. /\ sem + GotReg + Cardinality(Reg) = NumReg
      /\ pages_sem + GotPgs + Cardinality(Pgs) = 1
    BY Zenon DEF BalInv, SemaphoreBalance, Reg, Pgs, GotReg, GotPgs
<1>3. GotReg' = GotReg /\ GotPgs' = GotPgs /\ GotReg \in Int /\ GotPgs \in Int
    BY <1>1 DEF GotReg, GotPgs
<1>4. CASE c \in Paged
  <2>1. Reg' = Reg /\ Pgs' = Pgs \ {c} /\ c \in Pgs
    BY <1>4, CmdIfAssumption DEF Reg, Pgs
  <2>2. Cardinality(Pgs') = Cardinality(Pgs) - 1
    BY Zenon, <1>0, <2>1, FS_RemoveElement
  <2>3. /\ sem' + GotReg' + Cardinality(Reg') = NumReg
        /\ pages_sem' + GotPgs' + Cardinality(Pgs') = 1
        /\ sem' >= 0 /\ pages_sem' >= 0
    BY <1>0, <1>1, <1>2, <1>3, <1>4, <2>1, <2>2 DEF BalInv
  <2> QED
    BY Zenon, <2>3 DEF BalInv, SemaphoreBalance, Reg, Pgs, GotReg, GotPgs
<1>5. CASE c \notin Paged
  <2>1. Pgs' = Pgs /\ Reg' = Reg \ {c} /\ c \in Reg
    BY <1>5, CmdIfAssumption DEF Reg, Pgs
  <2>2. Cardinality(Reg') = Cardinality(Reg) - 1
    BY Zenon, <1>0, <2>1, FS_RemoveElement
  <2>3. /\ sem' + GotReg' + Cardinality(Reg') = NumReg
        /\ pages_sem' + GotPgs' + Cardinality(Pgs') = 1
        /\ sem' >= 0 /\ pages_sem' >= 0
    BY <1>0, <1>1, <1>2, <1>3, <1>5, <2>1, <2>2 DEF BalInv
  <2> QED
    BY Zenon, <2>3 DEF BalInv, SemaphoreBalance, Reg, Pgs, GotReg, GotPgs
<1> QED
    BY Zenon, <1>4, <1>5

-----------------------------------------------------------------------------
(* Steps that neither take a semaphore nor give one back.                  *)

\* t goes on, with the same command in hand or with none as before.
SameHand(t) ==
    /\ StepOf(t) /\ InHand(t)' = InHand(t) /\ NoIdxLocal(t)'
    /\ pc'[t] \in {"d_set", "f_up"} => pc[t] \in {"d_set", "f_up"}

\* What such a step, and any other step of t, means for MGR and the others.
LEMMA OtherBal ==
    ASSUME BalInv, NEW t \in Threads, StepOf(t), NoIdxLocal(t)',
           pc'[t] \in {"d_set", "f_up"} => pc[t] \in {"d_set", "f_up"}
    PROVE  /\ pc'[MGR] \in {"d_set", "f_up"} => pc[MGR] \in {"d_set", "f_up"}
           /\ \A u \in Threads : NoIdxLocal(u)'
<1>1. ASSUME NEW u \in Threads \ {t} PROVE NoIdxLocal(u)' /\ pc'[u] = pc[u]
  <2>1. pc'[u] = pc[u] /\ frame'[u] = frame[u] /\ NoIdxLocal(u)
    BY Zenon DEF StepOf, BalInv
  <2> QED
    BY Zenon, <2>1 DEF NoIdxLocal, cur
<1>2. MGR \in Threads
    BY Zenon DEF Threads
<1> QED
    BY Zenon, <1>1, <1>2

\* Nothing is taken or given back.
LEMMA HandBal ==
    ASSUME BalInv, NEW t \in Threads, SameHand(t), UNCHANGED <<pending, sem, pages_sem, got>>
    PROVE  BalInv'
<1>1. \A u \in Threads : InHand(u)' = InHand(u)
    BY Zenon, OtherHands DEF SameHand
<1>2. \A c \in Cmds : InFlight(c)' <=> InFlight(c)
    BY Zenon, <1>1, FlightHands
<1>3. /\ pc'[MGR] \in {"d_set", "f_up"} => pc[MGR] \in {"d_set", "f_up"}
      /\ \A u \in Threads : NoIdxLocal(u)'
    BY Zenon, OtherBal DEF SameHand
<1> QED
    BY Zenon, <1>2, <1>3, SameBal

\* Places where a thread has no such command in hand.
Empty(p) == p \notin HandPCs \cup {"free_idx", "d_set", "f_up"}

\* Places where a thread has no command in hand.
LEMMA EmptyPlaces ==
    /\ \A p \in CallerPCs \cup BackPCs \cup {"w_down", "w_get", "w_check", "w_bell", "w_poll", "c_tac", "end"} :
          Empty(p)
    /\ \A p \in MgrPCs \ {"d_set", "f_up"} : Empty(p)
BY DEF Empty, HandPCs, CallerPCs, BackPCs, CompPCs, MgrPCs

\* A jump between such places.
LEMMA GotoHand ==
    ASSUME TypeInv, NEW t \in Threads, NEW p, Goto(t, p), Empty(p),
           pc[t] \notin HandPCs \cup {"free_idx"},
           \A u \in Threads \ {t} : frame'[u] = frame[u]
    PROVE  SameHand(t)
<1>1. StepOf(t) /\ pc'[t] = p
    BY DEF Goto, StepOf, TypeInv, TypeOK, ThrType
<1>2. "w_noidx" \in HandPCs
    BY DEF HandPCs
<1> QED
    BY Zenon, <1>1, <1>2 DEF SameHand, InHand, HasHand, NoIdxLocal, Empty

\* The start of a function.
LEMMA EnterHand ==
    ASSUME TypeInv, NEW t \in Threads, NEW p, Enter(t, p), Empty(p),
           pc[t] \notin HandPCs \cup {"free_idx"}
    PROVE  SameHand(t)
<1>1. Goto(t, p) /\ \A u \in Threads \ {t} : frame'[u] = frame[u]
    BY DEF Enter, TypeInv, TypeOK, ThrType
<1> QED
    BY Zenon, <1>1, GotoHand

\* A call of mlx5_cmd_comp_handler.
LEMMA CallHand ==
    ASSUME TypeInv, NEW t \in Threads, NEW s, NEW y, NEW p, CallComp(t, s, y, p),
           pc[t] \notin HandPCs \cup {"free_idx"}
    PROVE  SameHand(t)
<1>1. Goto(t, "c_tac") /\ \A u \in Threads \ {t} : frame'[u] = frame[u]
    BY DEF CallComp, TypeInv, TypeOK, ThrType
<1> QED
    BY Zenon, <1>1, GotoHand, EmptyPlaces

\* A jump with the same command in hand.
LEMMA InsideHand ==
    ASSUME TypeInv, NEW t \in Threads, NEW p, Goto(t, p), pc[t] \in HandPCs, p \in HandPCs,
           p # "w_noidx", frame'[t].ent = frame[t].ent,
           \A u \in Threads \ {t} : frame'[u] = frame[u]
    PROVE  SameHand(t)
<1>1. StepOf(t) /\ pc'[t] = p
    BY DEF Goto, StepOf, TypeInv, TypeOK, ThrType
<1>2. "d_set" \notin HandPCs /\ "f_up" \notin HandPCs
    BY DEF HandPCs, CompPCs
<1> QED
    BY Zenon, <1>1, <1>2 DEF SameHand, InHand, HasHand, NoIdxLocal, cur

\* cmd_ent_put, on the command in hand or with none in hand.
LEMMA PutHand ==
    ASSUME TypeInv, NEW t \in Threads, NEW c, NEW p, cmd_ent_put(t, c, p),
           \/ pc[t] \notin HandPCs \cup {"free_idx"} /\ Empty(p) /\ p # "c_tac"
           \/ pc[t] \in HandPCs /\ c = cur(t) /\ p \in CompPCs \ {"c_tac"}
    PROVE  SameHand(t)
<1>0. frame[t] \in Frames
    BY Zenon DEF TypeInv, TypeOK, ThrType
<1>1. CASE Enter(t, p) /\ pc[t] \notin HandPCs \cup {"free_idx"} /\ Empty(p)
    BY Zenon, <1>1, EnterHand
<1>2. CASE Enter(t, p) /\ pc[t] \in HandPCs /\ c = cur(t) /\ p \in CompPCs \ {"c_tac"}
  <2>1. /\ Goto(t, p) /\ frame'[t].ent = frame[t].ent
        /\ \A u \in Threads \ {t} : frame'[u] = frame[u]
    BY <1>0, <1>2 DEF Enter, TypeInv, TypeOK, ThrType, Frames
  <2>2. p \in HandPCs /\ p # "w_noidx"
    BY <1>2 DEF HandPCs, CompPCs
  <2> QED
    BY Zenon, <1>2, <2>1, <2>2, InsideHand
<1>3. CASE /\ Goto(t, "free_idx")
           /\ frame' = [frame EXCEPT ![t] = [@ EXCEPT !.ent = c, !.cont = p]]
  <2>1. StepOf(t) /\ pc'[t] = "free_idx" /\ frame'[t].ent = c /\ frame'[t].cont = p
    BY <1>0, <1>3 DEF Goto, StepOf, TypeInv, TypeOK, ThrType, Frames
  <2>2. "free_idx" \notin HandPCs /\ "free_idx" # "w_noidx" /\ "free_idx" # "d_set" /\ "free_idx" # "f_up"
    BY DEF HandPCs, CompPCs
  <2>3. Empty(p) /\ p # "c_tac" => p \notin CompPCs
    BY Zenon DEF Empty, HandPCs
  <2>4. InHand(t)' = InHand(t)
    BY Zenon, <2>1, <2>2, <2>3 DEF InHand, HasHand, cur
  <2> QED
    BY Zenon, <2>1, <2>2, <2>4 DEF SameHand, NoIdxLocal
<1> QED
    BY Zenon, <1>1, <1>2, <1>3 DEF cmd_ent_put

\* cmd_free_index, during a completion and after one.
LEMMA FreeHand ==
    ASSUME TypeInv, NEW t \in Threads, cmd_free_index(t)
    PROVE  SameHand(t)
<1> DEFINE p == frame[t].cont
<1>0. frame[t] \in Frames /\ pc[t] = "free_idx" /\ Enter(t, p) /\ p \in ContPCs
    BY Zenon DEF TypeInv, TypeOK, ThrType, cmd_free_index, Frames
<1>1. /\ StepOf(t) /\ pc'[t] = p /\ (p \in CompPCs => frame'[t].ent = frame[t].ent)
    BY <1>0 DEF Enter, Goto, StepOf, TypeInv, TypeOK, ThrType, Frames
<1>2. /\ p \in HandPCs <=> p \in CompPCs
      /\ p # "free_idx" /\ p # "w_noidx" /\ p # "d_set" /\ p # "f_up" /\ "free_idx" \notin HandPCs
    BY <1>0 DEF ContPCs, BackPCs, HandPCs, CompPCs
<1>3. InHand(t)' = InHand(t)
    BY Zenon, <1>0, <1>1, <1>2 DEF InHand, HasHand, cur
<1> QED
    BY Zenon, <1>1, <1>2, <1>3 DEF SameHand, NoIdxLocal

\* The caller of a command, and the timeout work of an asynchronous one.
LEMMA BalCaller ==
    ASSUME TypeInv, BalInv, NEW c \in Cmds,
           \/ cmd_exec(c) \/ cmd_exec_rejected(c) \/ cmd_exec_nomem(c)
           \/ Serve(c) \/ Expire(c)
    PROVE  BalInv'
<1>t. c \in Threads
    BY Zenon DEF Threads
<1> DEFINE Still == UNCHANGED <<pending, sem, pages_sem, got>>
           Outside == pc[c] \notin HandPCs \cup {"free_idx"}
           Jumps == (\E p : Empty(p) /\ Goto(c, p)) /\ UNCHANGED frame /\ Outside
<1> USE DEF entVars, cmdVars, mgrVars
<1>f. \A p \in CallerPCs \cup {"w_down"} : Empty(p)
    BY Zenon, EmptyPlaces
<1>o. pc[c] \in CallerPCs => Outside
    BY DEF CallerPCs, HandPCs, CompPCs
<1> HIDE DEF Outside
<1>1. ASSUME cmd_exec(c) \/ cmd_exec_rejected(c) \/ cmd_exec_nomem(c) PROVE Jumps /\ Still
    BY <1>1, <1>f, <1>o DEF cmd_exec, cmd_exec_rejected, cmd_exec_nomem, CallerPCs
<1>2. ASSUME wait_handled(c) \/ wait_done(c) \/ wait_recovered(c) PROVE Jumps /\ Still
    BY <1>2, <1>f, <1>o DEF wait_handled, wait_done, wait_recovered, CallerPCs
<1>3. ASSUME timer_recovered(c) \/ timer_test(c) PROVE Jumps /\ Still
    BY <1>3, <1>f, <1>o DEF timer_recovered, timer_test, CallerPCs
<1>4. ASSUME wait_timeout(c) \/ wait_exec_timeout(c) PROVE Jumps /\ Still
    BY <1>4, <1>f, <1>o DEF wait_timeout, wait_exec_timeout, CallerPCs
<1>5. ASSUME timer_fires(c) \/ wait_canceled(c) PROVE Jumps /\ Still
    BY <1>5, <1>f, <1>o DEF timer_fires, wait_canceled, CallerPCs
<1>j. ASSUME Jumps PROVE SameHand(c)
    BY Zenon, <1>j, <1>t, GotoHand DEF Outside
<1>6. ASSUME wait_force(c) \/ timer_force(c) PROVE SameHand(c) /\ Still
  <2>1. PICK p \in {"ret", "t_put"} : ForceComp(c, p) /\ Still /\ pc[c] \in CallerPCs
    BY <1>6 DEF wait_force, timer_force, CallerPCs
  <2>2. CASE Goto(c, p) /\ UNCHANGED frame
    <3>1. Empty(p)
      BY <1>f DEF CallerPCs
    <3> QED
      BY Zenon, <1>j, <1>o, <2>1, <2>2, <3>1
  <2>3. CASE CallComp(c, idx[c], "FORCED", p)
    BY Zenon, <1>t, <1>o, <2>1, <2>3, CallHand DEF Outside
  <2> QED
    BY Zenon, <2>1, <2>2, <2>3 DEF ForceComp
<1>7. ASSUME invoke_return(c) \/ timer_put(c) PROVE SameHand(c) /\ Still
  <2>1. cmd_ent_put(c, c, "end") /\ pc[c] \in CallerPCs /\ Still
    BY <1>7 DEF invoke_return, timer_put, CallerPCs
  <2>2. Empty("end") /\ "end" # "c_tac"
    BY <1>f DEF CallerPCs
  <2> QED
    BY Zenon, <1>t, <1>o, <2>1, <2>2, PutHand DEF Outside
<1>8. SameHand(c) /\ Still
    BY Zenon, <1>1, <1>2, <1>3, <1>4, <1>5, <1>6, <1>7, <1>j DEF Serve, Expire
<1> QED
    BY Zenon, <1>t, <1>8, HandBal

\* cmd_work_handler, but for down() and the two ways it ends.
LEMMA BalWork ==
    ASSUME TypeInv, BalInv, NEW t \in Threads,
           \/ cmd_alloc_index(t) \/ alloc_index_failed(t) \/ work_arr(t) \/ work_get(t)
           \/ work_check(t) \/ work_doorbell(t) \/ work_polled(t) \/ work_poll_timeout(t)
    PROVE  BalInv'
<1> DEFINE Still == UNCHANGED <<pending, sem, pages_sem, got>>
           Outside == pc[t] \notin HandPCs \cup {"free_idx"}
<1> USE DEF entVars, cmdVars, mgrVars
<1>f. Empty("w_check") /\ Empty("w_bell") /\ Empty("w_poll")
    BY Zenon, EmptyPlaces
<1>a. Empty(AfterWork(t))
    BY EmptyPlaces DEF AfterWork, CallerPCs
<1>o. pc[t] \in {"w_get", "w_check", "w_bell", "w_poll"} => Outside
    BY DEF HandPCs, CompPCs
<1>h. "w_idx" \in HandPCs /\ "w_arr" \in HandPCs /\ "w_arm" \in HandPCs /\ "w_arr" # "w_noidx"
      /\ "w_arm" # "w_noidx" /\ "w_noidx" \in HandPCs
    BY DEF HandPCs
<1> HIDE DEF Outside
<1>1. ASSUME cmd_alloc_index(t) \/ work_arr(t) PROVE SameHand(t) /\ Still
  <2>1. /\ pc[t] \in HandPCs /\ UNCHANGED frame /\ Still
        /\ Goto(t, "w_arr") \/ Goto(t, "w_arm")
    BY <1>1, <1>h DEF cmd_alloc_index, work_arr
  <2> QED
    BY Zenon, <1>h, <2>1, InsideHand
<1>2. ASSUME alloc_index_failed(t) PROVE SameHand(t) /\ Still
  <2>1. /\ pc[t] = "w_idx" /\ UNCHANGED frame /\ Still /\ Goto(t, "w_noidx")
        /\ cur(t) \notin Paged
    BY Zenon, <1>2 DEF alloc_index_failed
  <2>2. StepOf(t) /\ pc'[t] = "w_noidx" /\ frame'[t] = frame[t]
    BY <2>1 DEF Goto, StepOf, TypeInv, TypeOK, ThrType
  <2>3. "w_noidx" # "d_set" /\ "w_noidx" # "f_up"
    OBVIOUS
  <2> QED
    BY Zenon, <1>h, <2>1, <2>2, <2>3 DEF SameHand, InHand, HasHand, NoIdxLocal, cur
<1>3. ASSUME work_get(t) \/ work_check(t) \/ work_polled(t) \/ work_poll_timeout(t)
      PROVE  SameHand(t) /\ Still
  <2>1. /\ Still /\ pc[t] \in {"w_get", "w_check", "w_bell", "w_poll"}
        /\ \/ (Goto(t, "w_check") \/ Goto(t, "w_bell")) /\ UNCHANGED frame
           \/ \E s, y : CallComp(t, s, y, AfterWork(t))
    BY <1>3 DEF work_get, work_check, work_polled, work_poll_timeout
  <2>2. CASE (Goto(t, "w_check") \/ Goto(t, "w_bell")) /\ UNCHANGED frame
    BY Zenon, <1>f, <1>o, <2>1, <2>2, GotoHand DEF Outside
  <2>3. CASE \E s, y : CallComp(t, s, y, AfterWork(t))
    BY Zenon, <1>o, <2>1, <2>3, CallHand DEF Outside
  <2> QED
    BY Zenon, <2>1, <2>2, <2>3
<1>4. ASSUME work_doorbell(t) PROVE SameHand(t) /\ Still
  <2>1. /\ Still /\ pc[t] \in {"w_get", "w_check", "w_bell", "w_poll"}
        /\ (Goto(t, "w_poll") /\ UNCHANGED frame) \/ Enter(t, AfterWork(t))
    BY <1>4 DEF work_doorbell
  <2>2. CASE Goto(t, "w_poll") /\ UNCHANGED frame
    BY Zenon, <1>f, <1>o, <2>1, <2>2, GotoHand DEF Outside
  <2>3. CASE Enter(t, AfterWork(t))
    BY Zenon, <1>a, <1>o, <2>1, <2>3, EnterHand DEF Outside
  <2> QED
    BY Zenon, <2>1, <2>2, <2>3
<1>5. SameHand(t) /\ Still
    BY Zenon, <1>1, <1>2, <1>3, <1>4
<1> QED
    BY Zenon, <1>5, HandBal

\* mlx5_cmd_comp_handler, but for test_and_clear_bit and up().
LEMMA BalComp ==
    ASSUME TypeInv, BalInv, NEW t \in Threads,
           \/ comp_cancel_timer(t) \/ comp_put_fw(t) \/ comp_finish(t) \/ comp_put(t)
           \/ comp_callback(t) \/ cmd_free_index(t)
    PROVE  BalInv'
<1> DEFINE Still == UNCHANGED <<pending, sem, pages_sem, got>>
           Inner == {"c_timer", "c_fw", "c_fin", "c_put", "c_cb", "c_up"}
<1> USE DEF entVars, cmdVars, mgrVars
<1>0. frame[t] \in Frames /\ frame \in [Threads -> Frames]
    BY Zenon DEF TypeInv, TypeOK, ThrType
<1>h. \A p \in Inner : p \in HandPCs /\ p # "w_noidx" /\ p \in CompPCs \ {"c_tac"}
    BY DEF HandPCs, CompPCs
<1>1. ASSUME comp_cancel_timer(t) \/ comp_put_fw(t) \/ comp_put(t)
      PROVE  SameHand(t) /\ Still
  <2>1. /\ Still /\ pc[t] \in Inner
        /\ \E p \in Inner : \/ cmd_ent_put(t, cur(t), p)
                            \/ Goto(t, p) /\ UNCHANGED frame
    BY <1>1 DEF comp_cancel_timer, comp_put_fw, comp_put
  <2>2. PICK p \in Inner : cmd_ent_put(t, cur(t), p) \/ (Goto(t, p) /\ UNCHANGED frame)
    BY Zenon, <2>1
  <2>3. CASE cmd_ent_put(t, cur(t), p)
    BY Zenon, <1>h, <2>1, <2>3, PutHand
  <2>4. CASE Goto(t, p) /\ UNCHANGED frame
    BY Zenon, <1>h, <2>1, <2>4, InsideHand
  <2> QED
    BY Zenon, <2>1, <2>2, <2>3, <2>4
<1>2. ASSUME comp_finish(t) \/ comp_callback(t) PROVE SameHand(t) /\ Still
  <2>1. /\ pc[t] \in Inner /\ Still
        /\ \E p \in Inner : Goto(t, p)
        /\ UNCHANGED frame \/ \E r : frame' = [frame EXCEPT ![t].err = r]
    BY <1>2 DEF comp_finish, comp_callback
  <2>2. frame'[t].ent = frame[t].ent /\ \A u \in Threads \ {t} : frame'[u] = frame[u]
    BY <1>0, <2>1 DEF Frames
  <2> QED
    BY Zenon, <1>h, <2>1, <2>2, InsideHand
<1>3. ASSUME cmd_free_index(t) PROVE SameHand(t) /\ Still
    BY <1>3, FreeHand DEF cmd_free_index
<1> QED
    BY Zenon, <1>1, <1>2, <1>3, HandBal

\* The firmware, the event queue and the workqueue.
LEMMA BalDevice ==
    ASSUME TypeInv, BalInv,
           \/ \E s \in Slots : fw_complete(s)
           \/ \E via \in {"irq", "recover"} : eq_take(via)
           \/ work_start
    PROVE  BalInv'
<1>1. CASE \E s \in Slots : fw_complete(s)
  <2>1. UNCHANGED <<pc, frame, pending, sem, pages_sem, got>>
    BY <1>1 DEF fw_complete, entVars, cmdVars, thrVars, mgrVars
  <2>2. \A t \in Threads : InHand(t)' = InHand(t) /\ (NoIdxLocal(t)' <=> NoIdxLocal(t))
    BY Zenon, <2>1 DEF InHand, HasHand, NoIdxLocal, cur
  <2>3. \A c \in Cmds : InFlight(c)' <=> InFlight(c)
    BY Zenon, <2>1, <2>2, FlightHands
  <2> QED
    BY Zenon, <2>1, <2>2, <2>3, SameBal DEF BalInv
<1>2. CASE \E via \in {"irq", "recover"} : eq_take(via)
  <2>1. /\ EQ \in Threads /\ pc[EQ] = "idle" /\ Goto(EQ, "c_tac")
        /\ UNCHANGED <<pending, sem, pages_sem, got>>
        /\ \A u \in Threads \ {EQ} : frame'[u] = frame[u]
    BY <1>2 DEF eq_take, entVars, cmdVars, mgrVars, TypeInv, TypeOK, ThrType, Threads
  <2>2. "idle" \notin HandPCs \cup {"free_idx"} /\ Empty("c_tac")
    BY EmptyPlaces DEF HandPCs, CompPCs
  <2> QED
    BY Zenon, <2>1, <2>2, GotoHand, HandBal
<1>3. CASE work_start
  <2>1. /\ WQ \in Threads /\ pc[WQ] = "idle" /\ Goto(WQ, "w_down")
        /\ UNCHANGED <<pending, sem, pages_sem, got>>
        /\ \A u \in Threads \ {WQ} : frame'[u] = frame[u]
    BY <1>3 DEF work_start, mgrVars, TypeInv, TypeOK, ThrType, Threads
  <2>2. "idle" \notin HandPCs \cup {"free_idx"} /\ Empty("w_down")
    BY EmptyPlaces DEF HandPCs, CompPCs
  <2> QED
    BY Zenon, <2>1, <2>2, GotoHand, HandBal
<1> QED
    BY Zenon, <1>1, <1>2, <1>3

-----------------------------------------------------------------------------
(* down() and up() of cmd_work_handler and mlx5_cmd_comp_handler.          *)

\* down(sem) or down(pages_sem): the command is in flight from now on.
LEMMA Bal_work_down ==
    ASSUME Inv, IsFiniteSet(Cmds), BalInv, NEW t \in Threads, work_down(t)
    PROVE  BalInv'
<1>0. TypeInv /\ pc[t] = "w_down" /\ Goto(t, "w_idx") /\ UNCHANGED <<frame, pending, got>>
    BY Zenon DEF Inv, work_down, entVars, mgrVars
<1>c. PICK c \in Cmds : c = cur(t)
    BY <1>0 DEF TypeInv, ThrInv, ThrLocal, Busy, WorkPCs
<1>1. StepOf(t) /\ pc'[t] = "w_idx" /\ frame'[t] = frame[t]
    BY <1>0 DEF Goto, StepOf, TypeInv, TypeOK, ThrType
<1>2. /\ "w_down" \notin HandPCs \cup {"free_idx"} /\ "w_idx" \in HandPCs
      /\ "w_idx" # "w_noidx" /\ "w_idx" # "d_set" /\ "w_idx" # "f_up"
    BY DEF HandPCs, CompPCs
<1>3. Holds(t, c)
    BY <1>0, <1>c DEF Holds, Stage, PrepPCs
<1>4. c \notin pending /\ \A u \in Threads \ {t} : InHand(u) # c
    BY Zenon, <1>3, OneHand
<1>5. InHand(t) = None /\ InHand(t)' = c
    BY Zenon, <1>0, <1>c, <1>1, <1>2 DEF InHand, HasHand, cur
<1>6. \A u \in Threads \ {t} : InHand(u)' = InHand(u)
    BY Zenon, <1>1, OtherHands
<1>7. c # None /\ \A d \in Cmds : d # None
    BY CmdIfAssumption
<1>8. ~InFlight(c) /\ InFlight(c)' /\ \A d \in Cmds \ {c} : InFlight(d)' <=> InFlight(d)
    BY Zenon, <1>0, <1>4, <1>5, <1>6, <1>7, FlightHands
<1>9. NoIdxLocal(t)' /\ (pc'[t] \in {"d_set", "f_up"} => pc[t] \in {"d_set", "f_up"})
    BY Zenon, <1>1, <1>2 DEF NoIdxLocal
<1>10. /\ pc'[MGR] \in {"d_set", "f_up"} => pc[MGR] \in {"d_set", "f_up"}
       /\ \A u \in Threads : NoIdxLocal(u)'
    BY Zenon, <1>1, <1>9, OtherBal
<1>11. IF c \in Paged THEN pages_sem > 0 /\ pages_sem' = pages_sem - 1 /\ UNCHANGED sem
                      ELSE sem > 0 /\ sem' = sem - 1 /\ UNCHANGED pages_sem
    BY Zenon, <1>c DEF work_down
<1> QED
    BY Zenon, <1>0, <1>8, <1>10, <1>11, TakeBal

\* up(): the command was in flight until now.
LEMMA Bal_up ==
    ASSUME Inv, IsFiniteSet(Cmds), BalInv, NEW t \in Threads, comp_up(t) \/ work_noidx_up(t)
    PROVE  BalInv'
<1>0. /\ TypeInv /\ pc[t] \in {"c_up", "w_noidx"} /\ UNCHANGED <<pending, got>>
      /\ Enter(t, frame[t].back) \/ Enter(t, AfterWork(t))
    BY DEF Inv, comp_up, work_noidx_up, entVars, mgrVars
<1>c. PICK c \in Cmds : c = cur(t)
    BY <1>0 DEF TypeInv, ThrInv, ThrLocal, Busy, WorkPCs, CompPCs
<1>1. PICK p \in BackPCs : Enter(t, p)
    BY <1>0 DEF TypeInv, TypeOK, ThrType, Frames, AfterWork, BackPCs
<1>2. StepOf(t) /\ pc'[t] = p
    BY <1>0, <1>1 DEF Enter, Goto, StepOf, TypeInv, TypeOK, ThrType
<1>3. /\ p \notin HandPCs \cup {"free_idx", "w_noidx", "d_set", "f_up"}
    BY DEF BackPCs, HandPCs, CompPCs
<1>4. Holds(t, c) /\ pc[t] \in HandPCs
    BY <1>0, <1>c DEF Holds, Stage, PrepPCs, ClaimPCs, HandPCs, CompPCs
<1>5. c \notin pending /\ \A u \in Threads \ {t} : InHand(u) # c
    BY Zenon, <1>4, OneHand
<1>6. InHand(t)' = None /\ InHand(t) = c
    BY Zenon, <1>c, <1>2, <1>3, <1>4 DEF InHand, HasHand
<1>7. \A u \in Threads \ {t} : InHand(u)' = InHand(u)
    BY Zenon, <1>2, OtherHands
<1>8. c # None /\ \A d \in Cmds : d # None
    BY CmdIfAssumption
<1>9. ~InFlight(c)' /\ InFlight(c) /\ \A d \in Cmds \ {c} : InFlight(d)' <=> InFlight(d)
    BY Zenon, <1>0, <1>5, <1>6, <1>7, <1>8, FlightHands
<1>10. NoIdxLocal(t)' /\ (pc'[t] \in {"d_set", "f_up"} => pc[t] \in {"d_set", "f_up"})
    BY Zenon, <1>2, <1>3 DEF NoIdxLocal
<1>11. /\ pc'[MGR] \in {"d_set", "f_up"} => pc[MGR] \in {"d_set", "f_up"}
       /\ \A u \in Threads : NoIdxLocal(u)'
    BY Zenon, <1>2, <1>10, OtherBal
<1>12. IF c \in Paged THEN pages_sem' = pages_sem + 1 /\ UNCHANGED sem
                      ELSE sem' = sem + 1 /\ UNCHANGED pages_sem
  <2>1. CASE comp_up(t)
    BY Zenon, <1>c, <2>1 DEF comp_up
  <2>2. CASE work_noidx_up(t)
    BY Zenon, <1>c, <2>2 DEF work_noidx_up, AgainUp, BalInv, NoIdxLocal
  <2> QED
    BY Zenon, <2>1, <2>2
<1> QED
    BY Zenon, <1>0, <1>9, <1>11, <1>12, GiveBal

\* PENDING_COMP is set: the command changes hands and stays in flight.
LEMMA Bal_work_arm ==
    ASSUME Inv, BalInv, NEW t \in Threads, work_arm(t)
    PROVE  BalInv'
<1>0. /\ TypeInv /\ pc[t] = "w_arm" /\ Goto(t, "w_get") /\ UNCHANGED <<sem, pages_sem, got>>
    BY Zenon DEF Inv, work_arm, cmdVars, mgrVars
<1>c. PICK c \in Cmds : c = cur(t)
    BY <1>0 DEF TypeInv, ThrInv, ThrLocal, Busy, WorkPCs
<1>1. StepOf(t) /\ pc'[t] = "w_get" /\ pending' = pending \cup {c}
    BY <1>0, <1>c DEF work_arm, Goto, StepOf, TypeInv, TypeOK, ThrType
<1>2. /\ "w_arm" \in HandPCs /\ "w_get" \notin HandPCs \cup {"free_idx", "w_noidx", "d_set", "f_up"}
    BY DEF HandPCs, CompPCs
<1>3. InHand(t) = c /\ InHand(t)' = None
    BY Zenon, <1>0, <1>c, <1>1, <1>2 DEF InHand, HasHand
<1>4. \A u \in Threads \ {t} : InHand(u)' = InHand(u)
    BY Zenon, <1>1, OtherHands
<1>5. c # None /\ \A d \in Cmds : d # None
    BY CmdIfAssumption
<1>6. \A d \in Cmds : InFlight(d)' <=> InFlight(d)
    BY Zenon, <1>1, <1>3, <1>4, <1>5, FlightHands
<1>7. NoIdxLocal(t)' /\ (pc'[t] \in {"d_set", "f_up"} => pc[t] \in {"d_set", "f_up"})
    BY Zenon, <1>1, <1>2 DEF NoIdxLocal
<1>8. /\ pc'[MGR] \in {"d_set", "f_up"} => pc[MGR] \in {"d_set", "f_up"}
      /\ \A u \in Threads : NoIdxLocal(u)'
    BY Zenon, <1>1, <1>7, OtherBal
<1> QED
    BY Zenon, <1>0, <1>6, <1>8, SameBal

\* PENDING_COMP is cleared: who did it has the command in hand.
LEMMA Bal_comp_test_and_clear ==
    ASSUME Inv, BalInv, NEW t \in Threads, comp_test_and_clear(t)
    PROVE  BalInv'
<1>0. /\ TypeInv /\ frame[t] \in Frames /\ Local(t) /\ frame[t].slot \in Slots
      /\ ent_arr \in [Slots -> Cmds \cup {None}] /\ frame[t].back \in BackPCs
    BY DEF Inv, OnceInv, TypeInv, TypeOK, ThrType, CmdType, Frames
<1>c. PICK c \in Cmds : c = ent_arr[frame[t].slot]
    BY <1>0 DEF comp_test_and_clear
<1>b. /\ pc[t] = "c_tac" /\ UNCHANGED <<sem, pages_sem, got>> /\ pending' = pending \ {c}
    BY <1>c DEF comp_test_and_clear, ClearPending, cmdVars, mgrVars
<1>s. Skips(t, c) <=> c \notin pending
    BY <1>0 DEF Skips, Local, Inv
<1>1. CASE c \notin pending
  <2>1. pending' = pending
    BY <1>1, <1>b
  <2>2. cmd_ent_put(t, c, frame[t].back) \/ Enter(t, frame[t].back)
    BY <1>1, <1>c, <1>s DEF comp_test_and_clear
  <2>3. /\ pc[t] \notin HandPCs \cup {"free_idx"} /\ frame[t].back # "c_tac"
    BY <1>0, <1>b DEF HandPCs, BackPCs
  <2>4. Empty(frame[t].back)
    BY Zenon, <1>0, EmptyPlaces
  <2>5. SameHand(t)
    BY Zenon, <1>0, <2>2, <2>3, <2>4, EnterHand, PutHand
  <2> QED
    BY Zenon, <1>b, <2>1, <2>5, HandBal
<1>2. CASE c \in pending
  <2>1. Goto(t, "c_timer") /\ frame' = [frame EXCEPT ![t].ent = c]
    BY <1>2, <1>c, <1>s DEF comp_test_and_clear
  <2>2. /\ StepOf(t) /\ pc'[t] = "c_timer" /\ cur(t)' = c
    BY <1>0, <2>1 DEF Goto, StepOf, cur, Frames, TypeInv, TypeOK, ThrType
  <2>3. /\ "c_tac" \notin HandPCs \cup {"free_idx"} /\ "c_timer" \in HandPCs
        /\ "c_timer" # "w_noidx" /\ "c_timer" # "d_set" /\ "c_timer" # "f_up"
    BY DEF HandPCs, CompPCs
  <2>4. InHand(t) = None /\ InHand(t)' = c
    BY Zenon, <1>b, <2>2, <2>3 DEF InHand, HasHand
  <2>5. \A u \in Threads \ {t} : InHand(u)' = InHand(u)
    BY Zenon, <2>2, OtherHands
  <2>6. c # None /\ \A d \in Cmds : d # None
    BY CmdIfAssumption
  <2>7. \A d \in Cmds : InFlight(d)' <=> InFlight(d)
    BY Zenon, <1>b, <1>2, <2>4, <2>5, <2>6, FlightHands
  <2>8. NoIdxLocal(t)' /\ (pc'[t] \in {"d_set", "f_up"} => pc[t] \in {"d_set", "f_up"})
    BY Zenon, <2>2, <2>3 DEF NoIdxLocal
  <2>9. /\ pc'[MGR] \in {"d_set", "f_up"} => pc[MGR] \in {"d_set", "f_up"}
        /\ \A u \in Threads : NoIdxLocal(u)'
    BY Zenon, <2>2, <2>8, OtherBal
  <2> QED
    BY Zenon, <1>b, <2>7, <2>9, SameBal
<1> QED
    BY Zenon, <1>1, <1>2

-----------------------------------------------------------------------------
(* The holder of intf_state_mutex.                                         *)

\* A jump of MGR, which has no command in hand, leaves the commands in flight.
LEMMA MgrFlight ==
    ASSUME TypeInv, NEW p, Goto(MGR, p), UNCHANGED <<frame, pending>>,
           pc[MGR] \notin HandPCs \cup {"free_idx"}, p \notin HandPCs \cup {"free_idx"}
    PROVE  /\ \A c \in Cmds : InFlight(c)' <=> InFlight(c)
           /\ StepOf(MGR) /\ pc'[MGR] = p /\ NoIdxLocal(MGR)'
<1>t. MGR \in Threads
    BY Zenon DEF Threads
<1>1. StepOf(MGR) /\ pc'[MGR] = p
    BY <1>t DEF Goto, StepOf, TypeInv, TypeOK, ThrType
<1>2. \A u \in Threads : InHand(u)' = InHand(u)
  <2>1. InHand(MGR)' = InHand(MGR)
    BY Zenon, <1>1 DEF InHand, HasHand
  <2> QED
    BY Zenon, <1>1, <1>t, <2>1, OtherHands
<1>3. \A c \in Cmds : InFlight(c)' <=> InFlight(c)
    BY Zenon, <1>2, FlightHands
<1>4. "w_noidx" \in HandPCs
    BY DEF HandPCs
<1> QED
    BY Zenon, <1>1, <1>3, <1>4 DEF NoIdxLocal

\* The loops of mlx5_cmd_change_mod, mlx5_cmd_allowed_opcode and mlx5_cmd_flush.
LEMMA BalDrain ==
    ASSUME TypeInv, IsFiniteSet(Cmds), BalInv, drain_down \/ flush_down \/ mgr_up
    PROVE  BalInv'
<1>t. MGR \in Threads
    BY Zenon DEF Threads
<1>0. /\ sem \in Int /\ pages_sem \in Int /\ got \in 0 .. NumReg + 1 /\ NumReg \in Nat
      /\ sem >= 0 /\ pages_sem >= 0
    BY CmdIfAssumption DEF TypeInv, TypeOK, CmdType, MgrType, BalInv
<1>1. PICK p \in {"d_set", "d_take", "f_up", "f_try", "idle"} :
         /\ Goto(MGR, p) /\ UNCHANGED <<frame, pending>>
         /\ pc[MGR] \in {"d_take", "f_try", "f_up"}
         /\ \/ /\ MgrDown /\ got' = got + 1
               /\ p \in {"d_set", "f_up"} => LastDown
            \/ /\ p = "idle" /\ sem' = sem + NumReg /\ pages_sem' = pages_sem + PagesUp
               /\ got' = Restart /\ pc[MGR] = "f_up"
    BY DEF drain_down, flush_down, mgr_up, entVars
<1>2. pc[MGR] \notin HandPCs \cup {"free_idx"} /\ p \notin HandPCs \cup {"free_idx"}
    BY <1>1 DEF HandPCs, CompPCs
<1>3. /\ \A c \in Cmds : InFlight(c)' <=> InFlight(c)
      /\ StepOf(MGR) /\ pc'[MGR] = p /\ NoIdxLocal(MGR)'
    BY Zenon, <1>1, <1>2, MgrFlight
<1>4. \A u \in Threads : NoIdxLocal(u)'
  <2>1. ASSUME NEW u \in Threads \ {MGR} PROVE NoIdxLocal(u)'
    BY Zenon, <1>3 DEF StepOf, BalInv, NoIdxLocal, cur
  <2> QED
    BY Zenon, <1>3, <2>1
<1>5. Reg' = Reg /\ Pgs' = Pgs
    BY <1>3, CmdIfAssumption DEF Reg, Pgs
<1>6. Cardinality(Reg) \in Nat /\ Cardinality(Pgs) \in Nat
    BY Zenon, SetsFinite
<1>7. /\ sem + GotReg + Cardinality(Reg) = NumReg
      /\ pages_sem + GotPgs + Cardinality(Pgs) = 1
    BY Zenon DEF BalInv, SemaphoreBalance, Reg, Pgs, GotReg, GotPgs
<1>8. CASE MgrDown /\ got' = got + 1 /\ (p \in {"d_set", "f_up"} => LastDown)
  <2>1. got <= NumReg
    <3>1. CASE got > NumReg
      <4>1. got = NumReg + 1 /\ pages_sem = 0
        BY <1>0, <1>6, <1>7, <3>1 DEF GotPgs
      <4> QED
        BY <1>0, <1>8, <4>1 DEF MgrDown
    <3> QED
      BY <1>0, <3>1
  <2>3. /\ sem' + GotReg' + Cardinality(Reg') = NumReg
        /\ pages_sem' + GotPgs' + Cardinality(Pgs') = 1
        /\ sem' >= 0 /\ pages_sem' >= 0
    <3>1. CASE got < NumReg
      <4>1. sem' = sem - 1 /\ pages_sem' = pages_sem /\ sem' >= 0
        BY <1>0, <1>8, <3>1 DEF MgrDown
      <4>2. GotReg = got /\ GotReg' = got + 1 /\ GotPgs = 0 /\ GotPgs' = 0
        BY <1>0, <1>8, <3>1 DEF GotReg, GotPgs
      <4> QED
        BY <1>0, <1>5, <1>6, <1>7, <4>1, <4>2
    <3>2. CASE got = NumReg
      <4>1. sem' = sem /\ pages_sem' = pages_sem - 1 /\ pages_sem' >= 0
        BY <1>0, <1>8, <3>2 DEF MgrDown
      <4>2. GotReg = NumReg /\ GotReg' = NumReg /\ GotPgs = 0 /\ GotPgs' = 1
        BY <1>0, <1>8, <3>2 DEF GotReg, GotPgs
      <4> QED
        BY <1>0, <1>5, <1>6, <1>7, <4>1, <4>2
    <3> QED
      BY <1>0, <2>1, <3>1, <3>2
  <2>4. p \in {"d_set", "f_up"} => got' = NumReg + 1
    BY <1>8 DEF LastDown
  <2> QED
    BY Zenon, <1>3, <1>4, <2>3, <2>4 DEF BalInv, SemaphoreBalance, Reg, Pgs, GotReg, GotPgs
<1>9. CASE /\ p = "idle" /\ sem' = sem + NumReg /\ pages_sem' = pages_sem + PagesUp
           /\ got' = Restart /\ pc[MGR] = "f_up"
  <2>1. got = NumReg + 1 /\ got' = 0 /\ pages_sem' = pages_sem + 1
    BY <1>9 DEF BalInv, Restart, PagesUp
  <2>2. GotReg = NumReg /\ GotReg' = 0 /\ GotPgs = 1 /\ GotPgs' = 0
    BY <1>0, <2>1 DEF GotReg, GotPgs
  <2>3. /\ sem' + GotReg' + Cardinality(Reg') = NumReg
        /\ pages_sem' + GotPgs' + Cardinality(Pgs') = 1
        /\ sem' >= 0 /\ pages_sem' >= 0
    BY <1>0, <1>5, <1>6, <1>7, <1>9, <2>1, <2>2
  <2>4. pc'[MGR] \notin {"d_set", "f_up"}
    BY <1>3, <1>9
  <2> QED
    BY Zenon, <1>4, <2>3, <2>4 DEF BalInv, SemaphoreBalance, Reg, Pgs, GotReg, GotPgs
<1> QED
    BY Zenon, <1>1, <1>8, <1>9

\* The rest of what MGR does.
LEMMA BalMgr ==
    ASSUME TypeInv, BalInv, Mgr, ~(drain_down \/ flush_down \/ mgr_up)
    PROVE  BalInv'
<1>t. MGR \in Threads
    BY Zenon DEF Threads
<1> DEFINE Still == UNCHANGED <<pending, sem, pages_sem, got>>
           Outside == pc[MGR] \notin HandPCs \cup {"free_idx"}
           Jumps == (\E p : Empty(p) /\ Goto(MGR, p)) /\ UNCHANGED frame /\ Outside
<1> USE DEF entVars, cmdVars, mgrVars
<1>f. \A p \in MgrPCs \ {"d_set", "f_up"} : Empty(p)
    BY Zenon, EmptyPlaces
<1>i. Empty("idle")
    BY EmptyPlaces DEF CallerPCs
<1>o. pc[MGR] \in MgrPCs \cup {"idle"} => Outside
    BY DEF MgrPCs, HandPCs, CompPCs
<1> HIDE DEF Outside
<1>j. ASSUME Jumps PROVE SameHand(MGR)
    BY Zenon, <1>j, <1>t, GotoHand DEF Outside
<1>1. ASSUME mgr_next \/ cleanup_async_ctx \/ cleanup_wait PROVE Jumps /\ Still
    BY <1>1, <1>f, <1>i, <1>o DEF mgr_next, cleanup_async_ctx, cleanup_wait, MgrPCs
<1>2. ASSUME flush_trylock_fails \/ trigger_sync \/ trigger_get \/ trigger_end
      PROVE  Jumps /\ Still
    BY <1>2, <1>f, <1>o DEF flush_trylock_fails, trigger_sync, trigger_get, trigger_end, MgrPCs
<1>3. ASSUME drain_set PROVE SameHand(MGR) /\ Still
  <2>1. pc[MGR] = "d_set" /\ Goto(MGR, "f_up") /\ UNCHANGED frame /\ Still
    BY Zenon, <1>3 DEF drain_set
  <2>2. StepOf(MGR) /\ pc'[MGR] = "f_up"
    BY <1>t, <2>1 DEF Goto, StepOf, TypeInv, TypeOK, ThrType
  <2>3. "d_set" \notin HandPCs \cup {"free_idx"} /\ "f_up" \notin HandPCs \cup {"free_idx", "w_noidx"}
    BY DEF HandPCs, CompPCs
  <2> QED
    BY Zenon, <2>1, <2>2, <2>3 DEF SameHand, InHand, HasHand, NoIdxLocal
<1>4. ASSUME trigger_comp PROVE SameHand(MGR) /\ Still
  <2>1. Still /\ pc[MGR] \in MgrPCs /\ \E s \in vec : CallComp(MGR, s, "FORCED", "g_comp")
    BY <1>4 DEF trigger_comp, MgrPCs
  <2> QED
    BY Zenon, <1>t, <1>o, <2>1, CallHand DEF Outside
<1>5. ASSUME trigger_put PROVE SameHand(MGR) /\ Still
  <2>1. Still /\ pc[MGR] \in MgrPCs /\ \E c : cmd_ent_put(MGR, c, "g_comp")
    BY <1>5 DEF trigger_put, MgrPCs
  <2>2. Empty("g_comp") /\ "g_comp" # "c_tac"
    BY <1>f DEF MgrPCs
  <2> QED
    BY Zenon, <1>t, <1>o, <2>1, <2>2, PutHand DEF Outside
<1>6. SameHand(MGR) /\ Still
    BY Zenon, <1>1, <1>2, <1>3, <1>4, <1>5, <1>j DEF Mgr
<1> QED
    BY Zenon, <1>t, <1>6, HandBal

-----------------------------------------------------------------------------
\* Nothing is taken when the interface starts.
LEMMA InitBal == Init => BalInv
<1> SUFFICES ASSUME Init PROVE BalInv
    OBVIOUS
<1>1. \A t \in Threads : pc[t] = "idle"
    BY DEF Init
<1>2. "idle" \notin HandPCs /\ MGR \in Threads
    BY DEF HandPCs, CompPCs, Threads
<1>3. pending = {} /\ sem = NumReg /\ pages_sem = 1 /\ got = 0 /\ NumReg \in Nat
    BY CmdIfAssumption DEF Init
<1>4. \A t \in Threads : InHand(t) = None
    BY Zenon, <1>1, <1>2 DEF InHand, HasHand
<1>5. \A c \in Cmds : c # None /\ ~InFlight(c)
    BY <1>3, <1>4, CmdIfAssumption, FlightHands
<1>6. Reg = {} /\ Pgs = {}
    BY <1>5, CmdIfAssumption DEF Reg, Pgs
<1>7. Cardinality(Reg) = 0 /\ Cardinality(Pgs) = 0
    BY <1>6, FS_EmptySet
<1>8. GotReg = 0 /\ GotPgs = 0
    BY <1>3 DEF GotReg, GotPgs
<1>9. /\ sem + GotReg + Cardinality(Reg) = NumReg
      /\ pages_sem + GotPgs + Cardinality(Pgs) = 1
      /\ sem >= 0 /\ pages_sem >= 0
    BY <1>3, <1>7, <1>8
<1>10. /\ SemaphoreBalance /\ sem >= 0 /\ pages_sem >= 0
    BY Zenon, <1>9 DEF SemaphoreBalance, Reg, Pgs, GotReg, GotPgs
<1>11. /\ pc[MGR] \notin {"d_set", "f_up"}
       /\ \A t \in Threads : pc[t] # "w_noidx"
    BY <1>1, <1>2
<1> QED
    BY Zenon, <1>10, <1>11 DEF BalInv, NoIdxLocal

\* Every step keeps the balance.
LEMMA StepBal == IsFiniteSet(Cmds) /\ Inv /\ BalInv /\ [Next]_vars => BalInv'
<1> SUFFICES ASSUME IsFiniteSet(Cmds), Inv, BalInv, [Next]_vars PROVE BalInv'
    OBVIOUS
<1>0. TypeInv
    BY Zenon DEF Inv
<1>1. ASSUME NEW c \in Cmds,
             \/ cmd_exec(c) \/ cmd_exec_rejected(c) \/ cmd_exec_nomem(c)
             \/ Serve(c) \/ Expire(c)
      PROVE  BalInv'
    BY Zenon, <1>0, <1>1, BalCaller
<1>2. ASSUME NEW t \in Threads, Work(t) PROVE BalInv'
    BY Zenon, <1>0, <1>2, BalWork, Bal_work_down, Bal_up, Bal_work_arm DEF Work
<1>3. ASSUME NEW t \in Threads, Comp(t) PROVE BalInv'
    BY Zenon, <1>0, <1>3, BalComp, Bal_comp_test_and_clear, Bal_up DEF Comp
<1>4. ASSUME \/ \E s \in Slots : fw_complete(s)
             \/ \E via \in {"irq", "recover"} : eq_take(via)
             \/ work_start
      PROVE  BalInv'
    BY Zenon, <1>0, <1>4, BalDevice
<1>5. ASSUME Mgr PROVE BalInv'
    BY Zenon, <1>0, <1>5, BalDrain, BalMgr
<1>6. ASSUME UNCHANGED vars PROVE BalInv'
  <2>1. UNCHANGED <<pc, frame, pending, sem, pages_sem, got>>
    BY Zenon, <1>6 DEF vars, entVars, cmdVars, thrVars, mgrVars
  <2>2. \A t \in Threads : InHand(t)' = InHand(t) /\ (NoIdxLocal(t)' <=> NoIdxLocal(t))
    BY Zenon, <2>1 DEF InHand, HasHand, NoIdxLocal, cur
  <2>3. \A c \in Cmds : InFlight(c)' <=> InFlight(c)
    BY Zenon, <2>1, <2>2, FlightHands
  <2> QED
    BY Zenon, <2>1, <2>2, <2>3, SameBal DEF BalInv
<1> QED
    BY Zenon, <1>1, <1>2, <1>3, <1>4, <1>5, <1>6 DEF Next

\* cmd->sem and cmd->pages_sem: every count is free, with a command in flight, or
\* with the thread that drains the interface, whoever completes the commands and
\* however many there are.
THEOREM SemaphoresBalance ==
    IsFiniteSet(Cmds) /\ EventsOnly /\ Spec => []SemaphoreBalance
<1> SUFFICES ASSUME IsFiniteSet(Cmds), EventsOnly PROVE Spec => []SemaphoreBalance
    OBVIOUS
<1>1. Init => Inv /\ BalInv
    BY Zenon, InitOnce, InitBal
<1>2. Inv /\ BalInv /\ [Next]_vars => Inv' /\ BalInv'
    BY Zenon, StepOnce, StepBal
<1>3. BalInv => SemaphoreBalance
    BY Zenon DEF BalInv
<1> QED
    BY <1>1, <1>2, <1>3, PTL DEF Spec

-----------------------------------------------------------------------------
(* mlx5_cmd_change_mod and mlx5_cmd_allowed_opcode.                        *)

\* Only the end of a drain changes the mode or what is allowed.
LEMMA OnlyDrainSets ==
    ASSUME [Next]_vars, ~drain_set
    PROVE  UNCHANGED <<mode, allowed>>
<1> USE DEF cmdVars
<1> DEFINE Still == UNCHANGED <<mode, allowed>>
<1>1. ASSUME NEW c \in Cmds, cmd_exec(c) \/ cmd_exec_rejected(c) \/ cmd_exec_nomem(c)
      PROVE  Still
    BY <1>1 DEF cmd_exec, cmd_exec_rejected, cmd_exec_nomem
<1>2. ASSUME NEW c \in Cmds, Serve(c) PROVE Still
    BY <1>2 DEF Serve, wait_handled, wait_done, wait_recovered, wait_force, invoke_return,
                timer_recovered, timer_test, timer_force, timer_put
<1>3. ASSUME NEW c \in Cmds, Expire(c) PROVE Still
    BY <1>3 DEF Expire, wait_canceled, wait_timeout, wait_exec_timeout, timer_fires
<1>4. ASSUME NEW t \in Threads, Work(t) PROVE Still
    BY <1>4 DEF Work, work_down, cmd_alloc_index, alloc_index_failed, work_noidx_up,
                work_arr, work_arm, work_get, work_check, work_doorbell, work_polled,
                work_poll_timeout
<1>5. ASSUME NEW t \in Threads, Comp(t) PROVE Still
    BY <1>5 DEF Comp, comp_test_and_clear, comp_cancel_timer, comp_put_fw, comp_finish,
                comp_put, comp_callback, comp_up, cmd_free_index
<1>6. ASSUME \/ work_start \/ \E s \in Slots : fw_complete(s)
             \/ \E via \in {"irq", "recover"} : eq_take(via)
      PROVE  Still
    BY <1>6 DEF work_start, fw_complete, eq_take
<1>7. ASSUME Mgr PROVE Still
    BY <1>7 DEF Mgr, mgr_next, cleanup_async_ctx, cleanup_wait, drain_down, flush_down,
                flush_trylock_fails, mgr_up, trigger_sync, trigger_get, trigger_comp,
                trigger_put, trigger_end
<1>8. ASSUME UNCHANGED vars PROVE Still
    BY <1>8 DEF vars
<1> QED
    BY Zenon, <1>1, <1>2, <1>3, <1>4, <1>5, <1>6, <1>7, <1>8 DEF Next

\* Who has all the semaphores meets no command.
LEMMA AllTaken ==
    ASSUME IsFiniteSet(Cmds), TypeInv, BalInv, pc[MGR] = "d_set"
    PROVE  \A c \in Cmds : ~InFlight(c)
<1>0. /\ sem \in Int /\ pages_sem \in Int /\ NumReg \in Nat /\ sem >= 0 /\ pages_sem >= 0
      /\ got = NumReg + 1
    BY CmdIfAssumption DEF TypeInv, TypeOK, CmdType, BalInv
<1>1. GotReg = NumReg /\ GotPgs = 1
    BY <1>0 DEF GotReg, GotPgs
<1>2. /\ sem + GotReg + Cardinality(Reg) = NumReg
      /\ pages_sem + GotPgs + Cardinality(Pgs) = 1
    BY Zenon DEF BalInv, SemaphoreBalance, Reg, Pgs, GotReg, GotPgs
<1>3. /\ IsFiniteSet(Reg) /\ Cardinality(Reg) \in Nat
      /\ IsFiniteSet(Pgs) /\ Cardinality(Pgs) \in Nat
    BY Zenon, SetsFinite
<1>4. Cardinality(Reg) = 0 /\ Cardinality(Pgs) = 0
    BY <1>0, <1>1, <1>2, <1>3
<1>5. Reg = {} /\ Pgs = {}
    BY Zenon, <1>3, <1>4, FS_EmptySet
<1> QED
    BY <1>5 DEF Reg, Pgs

\* In event mode mlx5_cmd_allowed_opcode sets the opcode that is allowed, and
\* mlx5_cmd_use_events the mode, while no command is in flight, for any number of
\* commands.
THEOREM DrainsQuietly ==
    IsFiniteSet(Cmds) /\ EventsOnly /\ Spec => DrainIsQuiet
<1> SUFFICES ASSUME IsFiniteSet(Cmds), EventsOnly PROVE Spec => DrainIsQuiet
    OBVIOUS
<1>1. Init => Inv /\ BalInv
    BY Zenon, InitOnce, InitBal
<1>2. Inv /\ BalInv /\ [Next]_vars => Inv' /\ BalInv'
    BY Zenon, StepOnce, StepBal
<1>3. Inv /\ BalInv /\ [Next]_vars =>
         [mode' # mode \/ allowed' # allowed => \A c \in Cmds : ~InFlight(c)]_vars
  <2>1. drain_set => pc[MGR] = "d_set"
    BY Zenon DEF drain_set
  <2> QED
    BY Zenon, <2>1, OnlyDrainSets, AllTaken DEF Inv
<1> QED
    BY <1>1, <1>2, <1>3, PTL DEF Spec, DrainIsQuiet

=============================================================================
