---------------------------- MODULE CmdIf_slots ----------------------------
(***************************************************************************)
(* What an entry holds, for any set of commands and any size of the        *)
(* command queue.                                                          *)
(*                                                                         *)
(* Its slot: SlotExclusive, in every mode and whatever the holder of       *)
(* intf_state_mutex does.  An entry gets its index once, from bits that    *)
(* are set in cmd->bitmask, and the one thread that drops the last         *)
(* reference sets the bit again.  The page slot is not taken from the      *)
(* bitmap but under pages_sem, which a page command that timed out gives   *)
(* back while its entry may live on.  So the statement is about regular    *)
(* commands, among themselves and against page commands, and about a page  *)
(* command that is the only one.                                           *)
(*                                                                         *)
(* Its count in num_inflight of an asynchronous context: CleanupWaits, in  *)
(* event mode, for finitely many commands.  The count is given up by the   *)
(* callback, which comes once, or by an issuer that was turned away.       *)
(***************************************************************************)
EXTENDS CmdIf_once

\* Threads that have c before it gets its index, and after its last reference.
EarlyPCs == {"w_down", "w_idx"}
Early(t, c) == cur(t) = c /\ pc[t] \in EarlyPCs
Freeing(t, c) == cur(t) = c /\ pc[t] = "free_idx"

\* The thread of a command does not come back to where it issues the command.
CallerLocal(t) ==
    t \in Cmds =>
        /\ pc[t] = "idle" => cur(t) = t
        /\ pc[t] \in CompPCs => frame[t].back # "idle"
        /\ pc[t] = "free_idx" => /\ frame[t].cont # "idle"
                                 /\ frame[t].cont \in CompPCs => frame[t].back # "idle"

\* c is not yet in the hands of cmd_work_handler.
Waits(c) == pc[c] = "idle" \/ Queued(c)

SlotOf(c) ==
    /\ pc[c] = "idle" => ~Queued(c)
    /\ Waits(c) => idx[c] = NoIdx /\ \A t \in Threads : ~Early(t, c)
    /\ \A t \in Threads : Early(t, c) => idx[c] = NoIdx
    /\ \A t, u \in Threads : Early(t, c) /\ Early(u, c) => t = u
    /\ \A t \in Threads : Freeing(t, c) => refcnt[c] = 0 /\ idx[c] # NoIdx
    /\ \A t, u \in Threads : Freeing(t, c) /\ Freeing(u, c) => t = u
    /\ idx[c] = PageSlot => c \in Paged
    /\ c \in Paged => idx[c] \in {NoIdx, PageSlot}

\* c has its slot to itself.
ExclusiveSlot(c) ==
    OwnsSlot(c) => /\ idx[c] \notin bitmask
                   /\ \A d \in Cmds \ {c} : OwnsSlot(d) => idx[d] # idx[c]

SlotInv ==
    /\ \A t \in Threads : CallerLocal(t)
    /\ QueueInv
    /\ \A c \in Cmds : SlotOf(c)
    /\ \A c \in OwnSlotCmds : ExclusiveSlot(c)

\* Of two commands, one of them with a slot of its own, at least one is regular.
LEMMA OneRegular ==
    ASSUME NEW c \in OwnSlotCmds, NEW d \in Cmds \ {c}
    PROVE  c \in Cmds /\ (c \notin Paged \/ d \notin Paged)
BY Zenon DEF OwnSlotCmds

\* No command has run yet.
LEMMA InitSlots == Init => SlotInv
<1> SUFFICES ASSUME Init PROVE SlotInv
    OBVIOUS
<1>1. \A t \in Threads : pc[t] = "idle" /\ frame[t] = NoFrame(t)
    BY Zenon DEF Init
<1>2. \A t \in Threads : CallerLocal(t)
  <2>1. "idle" \notin CompPCs /\ "idle" # "free_idx"
    BY DEF CompPCs
  <2>2. \A t \in Threads : t \in Cmds => NoFrame(t).ent = t
    BY DEF NoFrame
  <2> QED
    BY Zenon, <1>1, <2>1, <2>2 DEF CallerLocal, cur
<1>3. QueueInv /\ \A c \in Cmds : ~Queued(c)
    BY DEF Init, QueueInv, Queued
<1>4. \A t \in Threads, c \in Cmds : ~Early(t, c) /\ ~Freeing(t, c)
    BY <1>1 DEF Early, Freeing, EarlyPCs
<1>5. \A c \in Cmds : idx[c] = NoIdx /\ refcnt[c] = 0
    BY Zenon DEF Init
<1>6. NoIdx # PageSlot
    BY CmdIfAssumption DEF NoIdx, PageSlot
<1>7. \A c \in Cmds : SlotOf(c)
    BY Zenon, <1>3, <1>4, <1>5, <1>6 DEF SlotOf
<1>8. \A c \in OwnSlotCmds : ExclusiveSlot(c)
    BY Zenon, <1>5 DEF ExclusiveSlot, OwnsSlot, OwnSlotCmds
<1> QED
    BY Zenon, <1>2, <1>3, <1>7, <1>8 DEF SlotInv

-----------------------------------------------------------------------------
(* Steps that neither give an index nor take one back.                     *)

Quietly(t) ==
    /\ StepOf(t) /\ CallerLocal(t)'
    /\ t \in Cmds /\ pc'[t] = "idle" => pc[t] = "idle"
    /\ pc'[t] \in EarlyPCs => pc[t] \in EarlyPCs /\ cur(t)' = cur(t)
    /\ pc[t] # "free_idx" /\ pc'[t] # "free_idx"

\* No entry comes back to life.
NoRevival == \A d \in Cmds : refcnt[d] = 0 => refcnt'[d] = 0

ShorterQueue == QueueInv' /\ \A d \in Cmds : Queued(d)' => Queued(d)

\* What a step of t leaves as it is for the other threads.
LEMMA OthersStay ==
    ASSUME SlotInv, NEW t \in Threads, StepOf(t), CallerLocal(t)'
    PROVE  /\ \A u \in Threads : CallerLocal(u)'
           /\ \A u \in Threads \ {t}, c \in Cmds :
                 (Early(u, c)' <=> Early(u, c)) /\ (Freeing(u, c)' <=> Freeing(u, c))
<1>1. ASSUME NEW u \in Threads \ {t}
      PROVE  CallerLocal(u)' /\ \A c \in Cmds :
                (Early(u, c)' <=> Early(u, c)) /\ (Freeing(u, c)' <=> Freeing(u, c))
  <2>1. pc'[u] = pc[u] /\ frame'[u] = frame[u] /\ CallerLocal(u)
    BY Zenon DEF StepOf, SlotInv
  <2> QED
    BY Zenon, <2>1 DEF CallerLocal, Early, Freeing, cur
<1> QED
    BY Zenon, <1>1

\* A step that gives and takes no index keeps the slots as they are.
LEMMA QuietSlots ==
    ASSUME TypeInv, SlotInv, NEW t \in Threads, Quietly(t), NoRevival, ShorterQueue,
           UNCHANGED <<idx, bitmask>>, refcnt' \in [Cmds -> Nat]
    PROVE  SlotInv'
<1>1. /\ \A u \in Threads : CallerLocal(u)'
      /\ \A u \in Threads \ {t}, c \in Cmds :
            (Early(u, c)' <=> Early(u, c)) /\ (Freeing(u, c)' <=> Freeing(u, c))
    BY Zenon, OthersStay DEF Quietly
<1>2. \A u \in Threads, c \in Cmds : Early(u, c)' => Early(u, c)
    BY Zenon, <1>1 DEF Early, Quietly
<1>3. \A u \in Threads, c \in Cmds : Freeing(u, c)' => Freeing(u, c)
    BY Zenon, <1>1 DEF Freeing, Quietly
<1>4. \A c \in Cmds : pc'[c] = "idle" => pc[c] = "idle"
    BY Zenon DEF Quietly, StepOf, Threads
<1>5. \A c \in Cmds : Waits(c)' => Waits(c)
    BY Zenon, <1>4 DEF Waits, ShorterQueue
<1>6. ASSUME NEW c \in Cmds PROVE SlotOf(c)'
  <2>1. SlotOf(c) /\ idx'[c] = idx[c] /\ (refcnt[c] = 0 => refcnt'[c] = 0)
    BY Zenon DEF SlotInv, NoRevival
  <2>2. Queued(c)' => Queued(c)
    BY Zenon DEF ShorterQueue
  <2> QED
    BY Zenon, <1>2, <1>3, <1>4, <1>5, <2>1, <2>2 DEF SlotOf
<1>7. \A c \in Cmds : refcnt'[c] > 0 => refcnt[c] > 0
    BY DEF NoRevival, TypeInv, TypeOK, EntType
<1>8. \A c \in Cmds : OwnsSlot(c)' => OwnsSlot(c)
    BY Zenon, <1>3, <1>7 DEF OwnsSlot, Freeing
<1>9. \A c \in OwnSlotCmds : ExclusiveSlot(c)'
    BY Zenon, <1>8 DEF ExclusiveSlot, SlotInv, OwnSlotCmds
<1> QED
    BY Zenon, <1>1, <1>6, <1>9 DEF SlotInv, ShorterQueue

\* The queue stays as it is.
LEMMA SameQueue ==
    ASSUME SlotInv, UNCHANGED queue
    PROVE  ShorterQueue
BY DEF SlotInv, ShorterQueue, QueueInv, Queued

\* A jump to a place outside mlx5_cmd_comp_handler.
LEMMA GotoQuiet ==
    ASSUME TypeInv, NEW t \in Threads, NEW p, Goto(t, p), pc[t] # "free_idx",
           \A u \in Threads \ {t} : frame'[u] = frame[u],
           p \notin CompPCs \cup EarlyPCs \cup {"free_idx"}, t \in Cmds => p # "idle"
    PROVE  Quietly(t)
<1>1. StepOf(t) /\ pc'[t] = p
    BY DEF Goto, StepOf, TypeInv, TypeOK, ThrType
<1> QED
    BY Zenon, <1>1 DEF Quietly, CallerLocal

\* The start or the end of a function.
LEMMA EnterQuiet ==
    ASSUME TypeInv, NEW t \in Threads, NEW p, Enter(t, p), pc[t] # "free_idx",
           p \notin CompPCs \cup EarlyPCs \cup {"free_idx"}, t \in Cmds => p # "idle"
    PROVE  Quietly(t)
<1>1. Goto(t, p) /\ \A u \in Threads \ {t} : frame'[u] = frame[u]
    BY DEF Enter, TypeInv, TypeOK, ThrType
<1> QED
    BY Zenon, <1>1, GotoQuiet

\* A call of mlx5_cmd_comp_handler.
LEMMA CallQuiet ==
    ASSUME TypeInv, NEW t \in Threads, NEW s, NEW y, NEW p, CallComp(t, s, y, p),
           pc[t] # "free_idx", t \in Cmds => p # "idle"
    PROVE  Quietly(t)
<1>1. StepOf(t) /\ pc'[t] = "c_tac" /\ frame'[t].back = p
    BY DEF CallComp, Goto, StepOf, TypeInv, TypeOK, ThrType, Frames
<1>2. "c_tac" \notin EarlyPCs /\ "c_tac" # "idle" /\ "c_tac" # "free_idx"
    BY DEF EarlyPCs
<1> QED
    BY Zenon, <1>1, <1>2 DEF Quietly, CallerLocal

\* A step inside mlx5_cmd_comp_handler.
LEMMA CompQuiet ==
    ASSUME TypeInv, SlotInv, NEW t \in Threads, NEW p, Goto(t, p),
           p \in CompPCs, pc[t] \in CompPCs, frame'[t].back = frame[t].back,
           \A u \in Threads \ {t} : frame'[u] = frame[u]
    PROVE  Quietly(t)
<1>1. StepOf(t) /\ pc'[t] = p
    BY DEF Goto, StepOf, TypeInv, TypeOK, ThrType
<1>2. /\ p \notin EarlyPCs /\ p # "idle" /\ p # "free_idx" /\ pc[t] # "free_idx"
    BY DEF CompPCs, EarlyPCs
<1>3. CallerLocal(t)
    BY Zenon DEF SlotInv
<1> QED
    BY Zenon, <1>1, <1>2, <1>3 DEF Quietly, CallerLocal

\* A quiet step that leaves all counts and the queue alone.
LEMMA StillSlots ==
    ASSUME TypeInv, SlotInv, NEW t \in Threads, Quietly(t),
           UNCHANGED <<refcnt, idx, bitmask, queue>>
    PROVE  SlotInv'
<1>1. refcnt' \in [Cmds -> Nat] /\ NoRevival
    BY Zenon DEF TypeInv, TypeOK, EntType, NoRevival
<1>2. ShorterQueue
    BY Zenon, SameQueue
<1> QED
    BY Zenon, <1>1, <1>2, QuietSlots

\* Nothing happens to threads, entries and slots.
LEMMA StutterSlots ==
    ASSUME SlotInv, UNCHANGED <<pc, frame, refcnt, idx, bitmask, queue>>
    PROVE  SlotInv'
<1>1. QueueInv' /\ \A c \in Cmds : Queued(c)' <=> Queued(c)
    BY DEF SlotInv, QueueInv, Queued
<1>2. \A t \in Threads : CallerLocal(t)'
    BY Zenon DEF SlotInv, CallerLocal, cur
<1>3. \A t \in Threads, c \in Cmds :
         (Early(t, c)' <=> Early(t, c)) /\ (Freeing(t, c)' <=> Freeing(t, c))
    BY Zenon DEF Early, Freeing, cur
<1>4. ASSUME NEW c \in Cmds PROVE SlotOf(c)' /\ (OwnsSlot(c)' <=> OwnsSlot(c))
  <2>1. SlotOf(c) /\ (Waits(c)' <=> Waits(c))
    BY Zenon, <1>1 DEF SlotInv, Waits
  <2>2. SlotOf(c)'
    BY Zenon, <1>1, <1>3, <2>1 DEF SlotOf
  <2>3. OwnsSlot(c)' <=> OwnsSlot(c)
    BY Zenon DEF OwnsSlot, cur
  <2> QED
    BY Zenon, <2>2, <2>3
<1>5. \A c \in OwnSlotCmds : ExclusiveSlot(c)'
    BY Zenon, <1>4 DEF SlotInv, ExclusiveSlot, OwnSlotCmds
<1> QED
    BY Zenon, <1>1, <1>2, <1>4, <1>5 DEF SlotInv

-----------------------------------------------------------------------------
(* cmd_ent_put, and cmd_free_index after the last one.                     *)

\* Where a thread may go on after cmd_ent_put.
GoesOn(t, p) ==
    \/ p \notin CompPCs \cup EarlyPCs \cup {"free_idx"} /\ (t \in Cmds => p # "idle")
    \/ p \in CompPCs /\ pc[t] \in CompPCs

\* The thread that drops the last reference is the one that frees the index.
LEMMA LastPut ==
    ASSUME TypeInv, SlotInv, NEW t \in Threads, NEW c \in Cmds, NEW p, GoesOn(t, p),
           pc[t] # "free_idx", UNCHANGED <<idx, bitmask, queue>>,
           refcnt[c] = 1, refcnt' = [refcnt EXCEPT ![c] = 0], idx[c] # NoIdx,
           Goto(t, "free_idx"),
           frame' = [frame EXCEPT ![t] = [@ EXCEPT !.ent = c, !.cont = p]]
    PROVE  SlotInv'
<1>0. CallerLocal(t) /\ SlotOf(c) /\ frame[t] \in Frames
    BY Zenon DEF SlotInv, TypeInv, TypeOK, ThrType
<1>1. /\ StepOf(t) /\ pc'[t] = "free_idx" /\ cur(t)' = c /\ frame'[t].cont = p
      /\ frame'[t].back = frame[t].back
    BY <1>0 DEF Goto, StepOf, cur, Frames, TypeInv, TypeOK, ThrType
<1>2. "free_idx" \notin CompPCs \cup EarlyPCs /\ "idle" \notin CompPCs /\ "free_idx" # "idle"
    BY DEF CompPCs, EarlyPCs
<1>3. CallerLocal(t)'
    BY Zenon, <1>0, <1>1, <1>2 DEF CallerLocal, GoesOn
<1>4. /\ \A u \in Threads : CallerLocal(u)'
      /\ \A u \in Threads \ {t}, d \in Cmds :
            (Early(u, d)' <=> Early(u, d)) /\ (Freeing(u, d)' <=> Freeing(u, d))
    BY Zenon, <1>1, <1>3, OthersStay
<1>5. \A u \in Threads, d \in Cmds : Early(u, d)' => Early(u, d)
    BY Zenon, <1>1, <1>2, <1>4 DEF Early
<1>6. \A d \in Cmds : pc'[d] = "idle" => pc[d] = "idle"
    BY Zenon, <1>1, <1>2 DEF StepOf, Threads
<1>7. ShorterQueue
    BY Zenon, SameQueue
<1>8. \A d \in Cmds : Waits(d)' => Waits(d)
    BY Zenon, <1>6, <1>7 DEF Waits, ShorterQueue
<1>9. /\ refcnt'[c] = 0 /\ \A d \in Cmds \ {c} : refcnt'[d] = refcnt[d]
      /\ \A u \in Threads : ~Freeing(u, c)
  <2>1. refcnt'[c] = 0 /\ \A d \in Cmds \ {c} : refcnt'[d] = refcnt[d]
    BY Zenon DEF TypeInv, TypeOK, EntType
  <2>2. 1 # 0
    OBVIOUS
  <2> QED
    BY Zenon, <1>0, <2>1, <2>2 DEF SlotOf
<1>10. ASSUME NEW d \in Cmds PROVE SlotOf(d)' /\ (OwnsSlot(d)' => OwnsSlot(d))
  <2>1. SlotOf(d) /\ idx'[d] = idx[d] /\ (Queued(d)' => Queued(d))
    BY Zenon, <1>7 DEF SlotInv, ShorterQueue
  <2>2. CASE d = c
    <3>1. \A u \in Threads : Freeing(u, c)' => u = t
      BY Zenon, <1>4, <1>9
    <3>2. SlotOf(c)'
      BY Zenon, <1>5, <1>6, <1>8, <1>9, <2>1, <2>2, <3>1 DEF SlotOf
    <3>3. OwnsSlot(c)
      <4>1. refcnt[c] > 0
        OBVIOUS
      <4> QED
        BY Zenon, <4>1 DEF OwnsSlot
    <3> QED
      BY Zenon, <2>2, <3>2, <3>3
  <2>3. CASE d # c
    <3>1. \A u \in Threads : Freeing(u, d)' => Freeing(u, d)
      BY Zenon, <1>1, <1>4, <2>3 DEF Freeing
    <3>2. refcnt'[d] = refcnt[d]
      BY Zenon, <1>9, <2>3
    <3>3. SlotOf(d)'
      BY Zenon, <1>5, <1>6, <1>8, <2>1, <3>1, <3>2 DEF SlotOf
    <3> QED
      BY Zenon, <2>1, <3>1, <3>2, <3>3 DEF OwnsSlot, Freeing
  <2> QED
    BY Zenon, <2>2, <2>3
<1>11. \A d \in OwnSlotCmds : ExclusiveSlot(d)'
    BY Zenon, <1>10 DEF ExclusiveSlot, SlotInv, OwnSlotCmds
<1> QED
    BY Zenon, <1>4, <1>7, <1>10, <1>11 DEF SlotInv, ShorterQueue

\* cmd_ent_put gives no slot back before the last reference is gone.
LEMMA PutSlots ==
    ASSUME TypeInv, SlotInv, NEW t \in Threads, NEW c \in Cmds, NEW p, GoesOn(t, p),
           pc[t] # "free_idx", UNCHANGED <<idx, bitmask, queue>>, cmd_ent_put(t, c, p)
    PROVE  SlotInv'
<1>0. refcnt \in [Cmds -> Nat] /\ frame[t] \in Frames
    BY Zenon DEF TypeInv, TypeOK, EntType, ThrType
<1>1. refcnt' \in [Cmds -> Nat] /\ NoRevival
    BY <1>0 DEF cmd_ent_put, Dec, NoRevival
<1>2. ShorterQueue
    BY Zenon, SameQueue
<1>3. CASE Enter(t, p)
  <2>1. CASE p \notin CompPCs \cup EarlyPCs \cup {"free_idx"} /\ (t \in Cmds => p # "idle")
    <3>1. Quietly(t)
      BY Zenon, <1>3, <2>1, EnterQuiet
    <3> QED
      BY Zenon, <1>1, <1>2, <3>1, QuietSlots
  <2>2. CASE p \in CompPCs /\ pc[t] \in CompPCs
    <3>1. /\ Goto(t, p) /\ frame'[t].back = frame[t].back
          /\ \A u \in Threads \ {t} : frame'[u] = frame[u]
      BY <1>0, <1>3, <2>2 DEF Enter, TypeInv, TypeOK, ThrType, Frames
    <3>2. Quietly(t)
      BY Zenon, <2>2, <3>1, CompQuiet
    <3> QED
      BY Zenon, <1>1, <1>2, <3>2, QuietSlots
  <2> QED
    BY Zenon, <2>1, <2>2 DEF GoesOn
<1>4. CASE /\ LastRef(c) /\ idx[c] # NoIdx /\ Goto(t, "free_idx")
           /\ frame' = [frame EXCEPT ![t] = [@ EXCEPT !.ent = c, !.cont = p]]
  <2>1. refcnt[c] = 1 /\ refcnt' = [refcnt EXCEPT ![c] = 0]
    BY <1>0, <1>4 DEF LastRef, cmd_ent_put, Dec
  <2> QED
    BY Zenon, <1>4, <2>1, LastPut
<1> QED
    BY Zenon, <1>3, <1>4 DEF cmd_ent_put

\* A thread that works on an entry has one.
LEMMA HasEnt ==
    ASSUME TypeInv, NEW t \in Threads, pc[t] \in Busy
    PROVE  \E c \in Cmds : c = cur(t)
BY Zenon DEF TypeInv, ThrInv, ThrLocal

\* cmd_free_index gives back a slot that nobody else has.
LEMMA FreeSlots ==
    ASSUME TypeInv, SlotInv, NEW t \in Threads, cmd_free_index(t)
    PROVE  SlotInv'
<1> DEFINE p == frame[t].cont
<1>c. PICK c \in Cmds : c = cur(t)
    BY HasEnt DEF cmd_free_index, Busy
<1>0. /\ pc[t] = "free_idx" /\ CallerLocal(t) /\ frame[t] \in Frames /\ p \in ContPCs
      /\ UNCHANGED <<refcnt, idx, queue>>
    BY Zenon DEF SlotInv, TypeInv, TypeOK, ThrType, ThrInv, Frames, cmd_free_index, entVars
<1>1. StepOf(t) /\ pc'[t] = p /\ (p \in CompPCs => frame'[t].back = frame[t].back)
    BY <1>0 DEF cmd_free_index, Enter, Goto, StepOf, Frames, TypeInv, TypeOK, ThrType
<1>2. p \notin EarlyPCs /\ p # "free_idx" /\ "idle" \notin CompPCs
    BY <1>0 DEF EarlyPCs, ContPCs, BackPCs, CompPCs
<1>3. CallerLocal(t)'
    BY Zenon, <1>0, <1>1, <1>2 DEF CallerLocal
<1>4. /\ \A u \in Threads : CallerLocal(u)'
      /\ \A u \in Threads \ {t}, d \in Cmds :
            (Early(u, d)' <=> Early(u, d)) /\ (Freeing(u, d)' <=> Freeing(u, d))
    BY Zenon, <1>1, <1>3, OthersStay
<1>5. \A u \in Threads, d \in Cmds : /\ Early(u, d)' => Early(u, d)
                                     /\ Freeing(u, d)' => u # t /\ Freeing(u, d)
    BY Zenon, <1>1, <1>2, <1>4 DEF Early, Freeing
<1>6. \A d \in Cmds : pc'[d] = "idle" => pc[d] = "idle"
    BY Zenon, <1>0, <1>1 DEF StepOf, Threads, CallerLocal
<1>7. ShorterQueue
    BY Zenon, <1>0, SameQueue
<1>8. \A d \in Cmds : Waits(d)' => Waits(d)
    BY Zenon, <1>6, <1>7 DEF Waits, ShorterQueue
<1>9. ASSUME NEW d \in Cmds
      PROVE  SlotOf(d)' /\ (OwnsSlot(d)' => OwnsSlot(d) /\ d # c)
  <2>1. SlotOf(d) /\ idx'[d] = idx[d] /\ refcnt'[d] = refcnt[d] /\ (Queued(d)' => Queued(d))
    BY Zenon, <1>0, <1>7 DEF SlotInv, ShorterQueue
  <2>2. SlotOf(d)'
    BY Zenon, <1>5, <1>6, <1>8, <2>1 DEF SlotOf
  <2>3. OwnsSlot(d)' => OwnsSlot(d)
    BY Zenon, <1>5, <2>1 DEF OwnsSlot, Freeing
  <2>4. ASSUME d = c PROVE ~OwnsSlot(d)'
    <3>1. Freeing(t, d)
      BY Zenon, <1>c, <1>0, <2>4 DEF Freeing
    <3>2. ~(refcnt'[d] > 0) /\ \A u \in Threads : ~Freeing(u, d)'
      <4>1. refcnt[d] = 0 /\ \A u \in Threads : ~Freeing(u, d)'
        BY Zenon, <1>5, <2>1, <3>1 DEF SlotOf
      <4> QED
        BY <2>1, <4>1
    <3> QED
      BY Zenon, <3>2 DEF OwnsSlot, Freeing
  <2> QED
    BY Zenon, <2>2, <2>3, <2>4
<1>10. ASSUME NEW d \in OwnSlotCmds PROVE ExclusiveSlot(d)'
  <2>1. SUFFICES ASSUME OwnsSlot(d)'
                 PROVE  /\ idx'[d] \notin bitmask'
                        /\ \A e \in Cmds \ {d} : OwnsSlot(e)' => idx'[e] # idx'[d]
    BY Zenon DEF ExclusiveSlot
  <2>2. /\ d # c /\ idx[d] \notin bitmask
        /\ \A e \in Cmds \ {d} : OwnsSlot(e) => idx[e] # idx[d]
    BY Zenon, <1>9, <2>1 DEF ExclusiveSlot, SlotInv, OwnSlotCmds
  <2>3. OwnsSlot(c)
    <3>1. SlotOf(c) /\ Freeing(t, c)
      BY Zenon, <1>c, <1>0 DEF SlotInv, Freeing
    <3> QED
      BY Zenon, <1>0, <3>1 DEF SlotOf, OwnsSlot, Freeing
  <2>4. bitmask' = bitmask \cup {idx[c]}
    BY Zenon, <1>c DEF cmd_free_index
  <2>5. d \in Cmds
    BY Zenon DEF OwnSlotCmds
  <2> QED
    BY Zenon, <1>0, <1>9, <2>2, <2>3, <2>4, <2>5
<1> QED
    BY Zenon, <1>4, <1>7, <1>9, <1>10 DEF SlotInv, ShorterQueue

-----------------------------------------------------------------------------
(* An entry gets its slot.                                                 *)

\* cmd_alloc_index gives c a free slot, or the page slot.
LEMMA AllocSlots ==
    ASSUME TypeInv, SlotInv, NEW t \in Threads, cmd_alloc_index(t)
    PROVE  SlotInv'
<1>c. PICK c \in Cmds : c = cur(t)
    BY HasEnt DEF cmd_alloc_index, Busy, WorkPCs
<1>0. pc[t] = "w_idx" /\ UNCHANGED <<refcnt, queue, frame>> /\ Goto(t, "w_arr")
    BY Zenon DEF cmd_alloc_index
<1>1. PICK s \in Slots : /\ IF c \in Paged THEN s = PageSlot ELSE FirstBit(s, FreeReg)
                         /\ idx' = [idx EXCEPT ![c] = s]
                         /\ bitmask' = bitmask \ {s}
    BY Zenon, <1>c DEF cmd_alloc_index
<1>2. /\ idx'[c] = s /\ \A d \in Cmds \ {c} : idx'[d] = idx[d]
    BY Zenon, <1>0, <1>1 DEF TypeInv, TypeOK, EntType
<1>3. s # NoIdx /\ (c \notin Paged => s \in bitmask /\ s # PageSlot)
    BY <1>1, CmdIfAssumption DEF NoIdx, Slots, FirstBit, FreeReg
<1>4. StepOf(t) /\ pc'[t] = "w_arr"
    BY <1>0 DEF Goto, StepOf, TypeInv, TypeOK, ThrType
<1>5. "w_arr" \notin EarlyPCs \cup CompPCs /\ "w_arr" # "free_idx" /\ "w_arr" # "idle"
    BY DEF EarlyPCs, CompPCs
<1>6. CallerLocal(t)'
    BY Zenon, <1>4, <1>5 DEF CallerLocal
<1>7. /\ \A u \in Threads : CallerLocal(u)'
      /\ \A u \in Threads \ {t}, d \in Cmds :
            (Early(u, d)' <=> Early(u, d)) /\ (Freeing(u, d)' <=> Freeing(u, d))
    BY Zenon, <1>4, <1>6, OthersStay
<1>8. \A u \in Threads, d \in Cmds : /\ Early(u, d)' => u # t /\ Early(u, d)
                                     /\ Freeing(u, d)' => Freeing(u, d)
    BY Zenon, <1>4, <1>5, <1>7 DEF Early, Freeing
<1>9. \A d \in Cmds : pc'[d] = "idle" => pc[d] = "idle"
    BY Zenon, <1>4, <1>5 DEF StepOf, Threads
<1>10. ShorterQueue
    BY Zenon, <1>0, SameQueue
<1>11. \A d \in Cmds : Waits(d)' => Waits(d)
    BY Zenon, <1>9, <1>10 DEF Waits, ShorterQueue
<1>12. Early(t, c) /\ SlotOf(c)
    BY Zenon, <1>c, <1>0 DEF Early, EarlyPCs, SlotInv
<1>13. /\ idx[c] = NoIdx /\ ~Waits(c) /\ \A u \in Threads : ~Freeing(u, c)
       /\ \A u \in Threads : Early(u, c) => u = t
    BY Zenon, <1>12 DEF SlotOf
<1>14. \A d \in Cmds \ {c} : SlotOf(d)' /\ (OwnsSlot(d)' => OwnsSlot(d))
  <2> TAKE d \in Cmds \ {c}
  <2>1. SlotOf(d) /\ idx'[d] = idx[d] /\ refcnt'[d] = refcnt[d] /\ (Queued(d)' => Queued(d))
    BY Zenon, <1>0, <1>2, <1>10 DEF SlotInv, ShorterQueue
  <2>2. SlotOf(d)'
    BY Zenon, <1>8, <1>9, <1>11, <2>1 DEF SlotOf
  <2> QED
    BY Zenon, <1>8, <2>1, <2>2 DEF OwnsSlot, Freeing
<1>15. SlotOf(c)'
  <2>1. /\ \A u \in Threads : ~Early(u, c)' /\ ~Freeing(u, c)'
        /\ ~Waits(c)' /\ pc'[c] # "idle"
    BY Zenon, <1>0, <1>8, <1>9, <1>11, <1>13 DEF Waits
  <2> QED
    BY Zenon, <1>1, <1>2, <1>3, <2>1 DEF SlotOf
<1>16. \A d \in Cmds \ {c} : OwnsSlot(d)' /\ (c \notin Paged \/ d \notin Paged) => idx[d] # s
  <2> TAKE d \in Cmds \ {c}
  <2>1. SlotOf(d) /\ (d \notin Paged => ExclusiveSlot(d))
    BY Zenon DEF SlotInv, OwnSlotCmds
  <2>2. CASE d \in Paged
    BY Zenon, <1>3, <2>1, <2>2 DEF SlotOf
  <2>3. CASE d \notin Paged /\ c \notin Paged
    BY Zenon, <1>3, <1>14, <2>1, <2>3 DEF ExclusiveSlot
  <2>4. CASE d \notin Paged /\ c \in Paged
    BY Zenon, <1>1, <2>1, <2>4 DEF SlotOf
  <2> QED
    BY Zenon, <2>2, <2>3, <2>4
<1>17. ASSUME NEW d \in OwnSlotCmds PROVE ExclusiveSlot(d)'
  <2>1. SUFFICES ASSUME OwnsSlot(d)'
                 PROVE  /\ idx'[d] \notin bitmask'
                        /\ \A e \in Cmds \ {d} : OwnsSlot(e)' => idx'[e] # idx'[d]
    BY Zenon DEF ExclusiveSlot
  <2>2. CASE d = c
    <3>1. idx'[d] = s /\ s \notin bitmask'
      BY Zenon, <1>1, <1>2, <2>2
    <3>2. ASSUME NEW e \in Cmds \ {d}, OwnsSlot(e)' PROVE idx'[e] # s
      <4>1. e \in Cmds \ {c} /\ (c \notin Paged \/ e \notin Paged)
        BY Zenon, <2>2, OneRegular
      <4> QED
        BY Zenon, <1>2, <1>16, <3>2, <4>1
    <3> QED
      BY Zenon, <3>1, <3>2
  <2>3. CASE d # c
    <3>1. d \in Cmds \ {c} /\ (c \notin Paged \/ d \notin Paged)
      BY Zenon, <2>3, OneRegular
    <3>2. ExclusiveSlot(d) /\ OwnsSlot(d) /\ idx'[d] = idx[d] /\ idx[d] # s
      BY Zenon, <1>2, <1>14, <1>16, <2>1, <3>1 DEF SlotInv
    <3>3. idx[d] \notin bitmask'
      BY Zenon, <1>1, <3>2 DEF ExclusiveSlot
    <3>4. ASSUME NEW e \in Cmds \ {d}, OwnsSlot(e)' PROVE idx'[e] # idx[d]
      <4>1. CASE e = c
        BY Zenon, <1>2, <3>2, <4>1
      <4>2. CASE e # c
        BY Zenon, <1>2, <1>14, <3>2, <3>4, <4>2 DEF ExclusiveSlot
      <4> QED
        BY Zenon, <4>1, <4>2
    <3> QED
      BY Zenon, <3>2, <3>3, <3>4
  <2> QED
    BY Zenon, <2>2, <2>3
<1> QED
    BY Zenon, <1>7, <1>10, <1>14, <1>15, <1>17 DEF SlotInv, ShorterQueue

-----------------------------------------------------------------------------
(* The queue: cmd_exec appends, cmd_work_handler takes the first, and a    *)
(* caller may take its command out again.                                  *)

\* A command that nobody has had yet is issued.
LEMMA Slots_cmd_exec ==
    ASSUME TypeInv, SlotInv, NEW c \in Cmds, cmd_exec(c)
    PROVE  SlotInv'
<1>0. /\ c \in Threads /\ pc[c] = "idle" /\ UNCHANGED <<idx, bitmask, frame>>
      /\ refcnt' = [refcnt EXCEPT ![c] = 1]
    BY Zenon DEF cmd_exec, Threads
<1>1. SlotOf(c) /\ CallerLocal(c) /\ QueueInv
    BY Zenon, <1>0 DEF SlotInv
<1>2. /\ cur(c) = c /\ idx[c] = NoIdx /\ ~Queued(c) /\ \A u \in Threads : ~Early(u, c)
    BY Zenon, <1>0, <1>1 DEF SlotOf, CallerLocal, Waits
<1>3. \A u \in Threads : ~Freeing(u, c)
    BY Zenon, <1>1, <1>2 DEF SlotOf
<1>4. \/ c \in Paged /\ Goto(c, "w_down") /\ UNCHANGED queue
      \/ /\ c \notin Paged /\ queue' = Append(queue, c)
         /\ Goto(c, "cb") \/ Goto(c, "wait_h")
    BY Zenon DEF cmd_exec
<1>5. /\ StepOf(c) /\ frame'[c] = frame[c] /\ cur(c)' = c
      /\ \/ c \in Paged /\ pc'[c] = "w_down" /\ UNCHANGED queue
         \/ c \notin Paged /\ queue' = Append(queue, c) /\ pc'[c] \in {"cb", "wait_h"}
    BY <1>0, <1>2, <1>4 DEF Goto, StepOf, TypeInv, TypeOK, ThrType, cur
<1>6. /\ pc'[c] # "idle" /\ pc'[c] # "free_idx" /\ pc'[c] \notin CompPCs
      /\ (c \notin Paged => pc'[c] \notin EarlyPCs)
    BY <1>5 DEF CompPCs, EarlyPCs
<1>7. CallerLocal(c)'
    BY Zenon, <1>6 DEF CallerLocal
<1>8. /\ \A u \in Threads : CallerLocal(u)'
      /\ \A u \in Threads \ {c}, d \in Cmds :
            (Early(u, d)' <=> Early(u, d)) /\ (Freeing(u, d)' <=> Freeing(u, d))
    BY Zenon, <1>0, <1>5, <1>7, OthersStay
<1>9. /\ QueueInv' /\ \A d \in Cmds \ {c} : Queued(d)' => Queued(d)
      /\ Queued(c)' => c \notin Paged
  <2>1. CASE c \in Paged
    <3>1. ShorterQueue /\ \A d \in Cmds : Queued(d)' <=> Queued(d)
      BY <1>5, <2>1, SameQueue DEF Queued
    <3> QED
      BY Zenon, <1>2, <3>1 DEF ShorterQueue
  <2>2. CASE c \notin Paged
    <3>1. queue \in Seq(Cmds)
      BY Zenon DEF TypeInv, TypeOK, CmdType
    <3> QED
      BY Zenon, <1>1, <1>2, <1>5, <2>2, <3>1, AppendQueue
  <2> QED
    BY Zenon, <2>1, <2>2
<1>10. refcnt'[c] = 1 /\ \A d \in Cmds \ {c} : refcnt'[d] = refcnt[d]
    BY Zenon, <1>0 DEF TypeInv, TypeOK, EntType
<1>11. \A u \in Threads, d \in Cmds \ {c} :
          (Early(u, d)' => Early(u, d)) /\ (Freeing(u, d)' => Freeing(u, d))
    BY Zenon, <1>5, <1>8 DEF Early, Freeing
<1>12. \A u \in Threads : /\ ~Freeing(u, c)'
                          /\ Early(u, c)' => u = c /\ c \in Paged
    BY Zenon, <1>2, <1>3, <1>6, <1>8 DEF Early, Freeing
<1>13. ASSUME NEW d \in Cmds \ {c} PROVE SlotOf(d)' /\ (OwnsSlot(d)' => OwnsSlot(d))
  <2>1. /\ SlotOf(d) /\ idx'[d] = idx[d] /\ refcnt'[d] = refcnt[d]
        /\ pc'[d] = pc[d] /\ (Queued(d)' => Queued(d))
    BY Zenon, <1>0, <1>5, <1>9, <1>10 DEF SlotInv, StepOf, Threads
  <2>2. SlotOf(d)'
    BY Zenon, <1>11, <2>1 DEF SlotOf, Waits
  <2> QED
    BY Zenon, <1>11, <2>1, <2>2 DEF OwnsSlot, Freeing
<1>14. SlotOf(c)'
  <2>1. idx'[c] = NoIdx /\ (NoIdx = PageSlot => c \in Paged)
    BY Zenon, <1>0, <1>1, <1>2 DEF SlotOf
  <2>2. Waits(c)' => c \notin Paged
    BY Zenon, <1>6, <1>9 DEF Waits
  <2>3. \A u \in Threads : ~Freeing(u, c)' /\ (Waits(c)' => ~Early(u, c)')
    BY Zenon, <1>12, <2>2
  <2>4. \A u, v \in Threads : Early(u, c)' /\ Early(v, c)' => u = v
    BY Zenon, <1>12
  <2> QED
    BY Zenon, <1>6, <2>1, <2>3, <2>4 DEF SlotOf
<1>15. ~OwnsSlot(c)'
    BY Zenon, <1>0, <1>2 DEF OwnsSlot
<1>16. ASSUME NEW d \in OwnSlotCmds PROVE ExclusiveSlot(d)'
  <2>1. CASE d = c
    BY Zenon, <1>15, <2>1 DEF ExclusiveSlot
  <2>2. CASE d # c
    <3>1. ExclusiveSlot(d) /\ (OwnsSlot(d)' => OwnsSlot(d))
      BY Zenon, <1>13, <2>2 DEF SlotInv, OwnSlotCmds
    <3>2. \A e \in Cmds : OwnsSlot(e)' => OwnsSlot(e)
      BY Zenon, <1>13, <1>15
    <3> QED
      BY Zenon, <1>0, <3>1, <3>2 DEF ExclusiveSlot
  <2> QED
    BY Zenon, <2>1, <2>2
<1> QED
    BY Zenon, <1>8, <1>9, <1>13, <1>14, <1>16 DEF SlotInv

\* The workqueue takes the first command of the queue.
LEMMA Slots_work_start ==
    ASSUME TypeInv, SlotInv, work_start
    PROVE  SlotInv'
<1>0. /\ WQ \in Threads /\ WQ \notin Cmds /\ queue \in Seq(Cmds) /\ queue # << >>
      /\ UNCHANGED <<idx, bitmask, refcnt>> /\ queue' = Tail(queue)
      /\ QueueInv /\ Goto(WQ, "w_down")
    BY Zenon, CmdIfAssumption DEF Threads, work_start, TypeInv, TypeOK, CmdType, SlotInv
<1>c. PICK c \in Cmds : c = Head(queue)
    BY <1>0
<1>1. Queued(c) /\ SlotOf(c)
    BY <1>0, <1>c DEF Queued, SlotInv
<1>2. /\ idx[c] = NoIdx /\ pc[c] # "idle" /\ \A u \in Threads : ~Early(u, c)
    BY Zenon, <1>1 DEF SlotOf, Waits
<1>3. /\ StepOf(WQ) /\ pc'[WQ] = "w_down" /\ cur(WQ)' = c
  <2>1. frame' = [frame EXCEPT ![WQ].ent = c] /\ frame[WQ] \in Frames
    BY Zenon, <1>0, <1>c DEF work_start, TypeInv, TypeOK, ThrType
  <2> QED
    BY <1>0, <2>1 DEF Goto, StepOf, cur, TypeInv, TypeOK, ThrType, Frames
<1>4. CallerLocal(WQ)'
    BY Zenon, <1>0 DEF CallerLocal
<1>5. /\ \A u \in Threads : CallerLocal(u)'
      /\ \A u \in Threads \ {WQ}, d \in Cmds :
            (Early(u, d)' <=> Early(u, d)) /\ (Freeing(u, d)' <=> Freeing(u, d))
    BY Zenon, <1>0, <1>3, <1>4, OthersStay
<1>6. QueueInv' /\ ~Queued(c)' /\ \A d \in Cmds : Queued(d)' => Queued(d)
    BY Zenon, <1>0, <1>c, TailQueue
<1>7. \A d \in Cmds : pc'[d] = pc[d]
    BY Zenon, <1>0, <1>3 DEF StepOf, Threads
<1>8. \A u \in Threads, d \in Cmds : Freeing(u, d)' => Freeing(u, d)
  <2>1. "w_down" # "free_idx"
    OBVIOUS
  <2> QED
    BY Zenon, <1>3, <1>5, <2>1 DEF Freeing
<1>9. ASSUME NEW d \in Cmds PROVE SlotOf(d)' /\ (OwnsSlot(d)' => OwnsSlot(d))
  <2>1. /\ SlotOf(d) /\ idx'[d] = idx[d] /\ refcnt'[d] = refcnt[d]
        /\ pc'[d] = pc[d] /\ (Queued(d)' => Queued(d))
    BY Zenon, <1>0, <1>6, <1>7 DEF SlotInv
  <2>2. CASE d = c
    <3>1. \A u \in Threads : Early(u, c)' => u = WQ
      BY Zenon, <1>2, <1>5
    <3> QED
      BY Zenon, <1>2, <1>6, <1>8, <2>1, <2>2, <3>1 DEF SlotOf, Waits, OwnsSlot
  <2>3. CASE d # c
    <3>1. \A u \in Threads : Early(u, d)' => Early(u, d)
      BY Zenon, <1>3, <1>5, <2>3 DEF Early
    <3>2. SlotOf(d)'
      BY Zenon, <1>8, <2>1, <3>1 DEF SlotOf, Waits
    <3> QED
      BY Zenon, <1>8, <2>1, <3>2 DEF OwnsSlot, Freeing
  <2> QED
    BY Zenon, <2>2, <2>3
<1>10. \A d \in OwnSlotCmds : ExclusiveSlot(d)'
    BY Zenon, <1>0, <1>9 DEF ExclusiveSlot, SlotInv, OwnSlotCmds
<1> QED
    BY Zenon, <1>5, <1>6, <1>9, <1>10 DEF SlotInv

-----------------------------------------------------------------------------
(* Everything else.                                                        *)

\* The caller of a command, and the timeout work of an asynchronous one.
LEMMA SlotsCaller ==
    ASSUME TypeInv, SlotInv, NEW c \in Cmds,
           cmd_exec_rejected(c) \/ cmd_exec_nomem(c) \/ Serve(c) \/ Expire(c)
    PROVE  SlotInv'
<1>t. c \in Threads
    BY Zenon DEF Threads
<1> DEFINE Still == UNCHANGED <<refcnt, idx, bitmask, queue>>
           Far(p) == p \notin CompPCs \cup EarlyPCs \cup {"free_idx"} /\ p # "idle"
           Jumps == (\E p : Far(p) /\ Goto(c, p)) /\ UNCHANGED frame /\ pc[c] # "free_idx"
<1> USE DEF entVars, cmdVars
<1>f. \A p \in {"end", "wait_p", "wait_d", "ret", "recover", "rewait", "expired",
                "t_recover", "t_test", "t_expired", "t_put"} : Far(p)
    BY DEF CompPCs, EarlyPCs
<1> HIDE DEF Far
<1>1. ASSUME cmd_exec_rejected(c) \/ cmd_exec_nomem(c) PROVE Jumps /\ Still
    BY <1>1, <1>f DEF cmd_exec_rejected, cmd_exec_nomem
<1>2. ASSUME wait_handled(c) \/ wait_done(c) \/ wait_recovered(c) PROVE Jumps /\ Still
    BY <1>2, <1>f DEF wait_handled, wait_done, wait_recovered
<1>3. ASSUME timer_recovered(c) \/ timer_test(c) PROVE Jumps /\ Still
    BY <1>3, <1>f DEF timer_recovered, timer_test
<1>4. ASSUME wait_timeout(c) \/ wait_exec_timeout(c) \/ timer_fires(c) PROVE Jumps /\ Still
    BY <1>4, <1>f DEF wait_timeout, wait_exec_timeout, timer_fires
<1>j. ASSUME Jumps PROVE Quietly(c)
  <2>1. PICK p : Far(p) /\ Goto(c, p)
    BY Zenon, <1>j
  <2> QED
    BY Zenon, <1>j, <1>t, <2>1, GotoQuiet DEF Far
<1>5. ASSUME wait_canceled(c) PROVE SlotInv'
  <2>1. Jumps /\ UNCHANGED <<refcnt, idx, bitmask>>
    BY <1>5, <1>f DEF wait_canceled
  <2>2. ShorterQueue
    BY Zenon, <1>5, CutQueue DEF wait_canceled, SlotInv, TypeInv, TypeOK, CmdType, ShorterQueue
  <2>3. refcnt' \in [Cmds -> Nat] /\ NoRevival
    BY Zenon, <2>1 DEF TypeInv, TypeOK, EntType, NoRevival
  <2> QED
    BY Zenon, <1>j, <1>t, <2>1, <2>2, <2>3, QuietSlots
<1>6. ASSUME wait_force(c) \/ timer_force(c) PROVE Quietly(c) /\ Still
  <2>1. PICK p \in {"ret", "t_put"} : ForceComp(c, p) /\ Still /\ pc[c] # "free_idx"
    BY <1>6 DEF wait_force, timer_force
  <2>2. CASE Goto(c, p) /\ UNCHANGED frame
    BY Zenon, <1>f, <1>j, <2>1, <2>2
  <2>3. CASE CallComp(c, idx[c], "FORCED", p)
    <3>1. p # "idle"
      OBVIOUS
    <3> QED
      BY Zenon, <1>t, <2>1, <2>3, <3>1, CallQuiet
  <2> QED
    BY Zenon, <2>1, <2>2, <2>3 DEF ForceComp
<1>7. ASSUME invoke_return(c) \/ timer_put(c) PROVE SlotInv'
  <2>1. /\ cmd_ent_put(c, c, "end") /\ pc[c] # "free_idx" /\ UNCHANGED <<idx, bitmask, queue>>
    BY <1>7 DEF invoke_return, timer_put
  <2>2. GoesOn(c, "end")
    BY Zenon, <1>f DEF GoesOn, Far
  <2> QED
    BY Zenon, <1>t, <2>1, <2>2, PutSlots
<1>8. ASSUME Quietly(c), Still PROVE SlotInv'
    BY Zenon, <1>8, <1>t, StillSlots
<1> QED
    BY Zenon, <1>1, <1>2, <1>3, <1>4, <1>5, <1>6, <1>7, <1>8, <1>j DEF Serve, Expire

\* cmd_work_handler, but for cmd_alloc_index.
LEMMA SlotsWork ==
    ASSUME TypeInv, SlotInv, NEW t \in Threads, Work(t), ~cmd_alloc_index(t)
    PROVE  SlotInv'
<1> DEFINE Still == UNCHANGED <<refcnt, idx, bitmask, queue>>
           Far(p) == p \notin CompPCs \cup EarlyPCs \cup {"free_idx"} /\ (t \in Cmds => p # "idle")
           Jumps == /\ \E p : Far(p) /\ Goto(t, p)
                    /\ \A u \in Threads \ {t} : frame'[u] = frame[u]
                    /\ pc[t] # "free_idx"
<1> USE DEF entVars, cmdVars
<1>f. Far("w_noidx") /\ Far("w_arm") /\ Far("w_get") /\ Far("w_check") /\ Far("w_bell") /\ Far("w_poll")
    BY DEF CompPCs, EarlyPCs
<1>a. Far(AfterWork(t))
    BY CmdIfAssumption DEF CompPCs, EarlyPCs, AfterWork
<1> HIDE DEF Far
<1>j. ASSUME Jumps PROVE Quietly(t)
  <2>1. PICK p : Far(p) /\ Goto(t, p)
    BY Zenon, <1>j
  <2> QED
    BY Zenon, <1>j, <2>1, GotoQuiet DEF Far
<1>e. ASSUME Enter(t, AfterWork(t)), pc[t] # "free_idx" PROVE Quietly(t)
    BY Zenon, <1>a, <1>e, EnterQuiet DEF Far
<1>1. ASSUME work_down(t) PROVE Quietly(t) /\ Still
  <2>1. pc[t] = "w_down" /\ Goto(t, "w_idx") /\ UNCHANGED frame /\ Still
    BY <1>1 DEF work_down
  <2>2. StepOf(t) /\ pc'[t] = "w_idx" /\ frame'[t] = frame[t]
    BY <2>1 DEF Goto, StepOf, TypeInv, TypeOK, ThrType
  <2>3. "w_idx" \notin CompPCs /\ "w_idx" # "idle" /\ "w_idx" # "free_idx" /\ "w_down" # "free_idx"
        /\ "w_down" \in EarlyPCs
    BY DEF CompPCs, EarlyPCs
  <2> QED
    BY Zenon, <2>1, <2>2, <2>3 DEF Quietly, CallerLocal, cur
<1>2. ASSUME alloc_index_failed(t) PROVE SlotInv'
  <2>1. Jumps /\ UNCHANGED <<idx, bitmask, queue>>
    BY <1>2, <1>f DEF alloc_index_failed
  <2>2. refcnt' = refcnt \/ \E c \in Cmds : refcnt' = [refcnt EXCEPT ![c] = Dec(@)]
    BY <1>2, HasEnt DEF alloc_index_failed, Busy, WorkPCs
  <2>3. refcnt' \in [Cmds -> Nat] /\ NoRevival
    BY <2>2 DEF TypeInv, TypeOK, EntType, NoRevival, Dec
  <2> QED
    BY Zenon, <1>j, <2>1, <2>3, SameQueue, QuietSlots
<1>3. ASSUME work_noidx_up(t) PROVE Quietly(t) /\ Still
    BY <1>3, <1>e DEF work_noidx_up
<1>4. ASSUME work_arr(t) PROVE Jumps /\ Still
    BY <1>4, <1>f DEF work_arr
<1>5. ASSUME work_arm(t) \/ work_get(t) PROVE SlotInv'
  <2>1. Jumps /\ UNCHANGED <<idx, bitmask, queue>>
    BY <1>5, <1>f DEF work_arm, work_get, TypeInv, TypeOK, ThrType
  <2>2. refcnt' = refcnt \/ \E c \in Cmds : refcnt' = [refcnt EXCEPT ![c] = Inc(@)]
    BY <1>5, HasEnt DEF work_arm, work_get, Busy, WorkPCs
  <2>3. refcnt' \in [Cmds -> Nat] /\ NoRevival
    BY <2>2 DEF TypeInv, TypeOK, EntType, NoRevival, Inc
  <2> QED
    BY Zenon, <1>j, <2>1, <2>3, SameQueue, QuietSlots
<1>6. ASSUME work_check(t) \/ work_polled(t) \/ work_poll_timeout(t)
      PROVE  Quietly(t) /\ Still
  <2>1. /\ Still /\ pc[t] # "free_idx"
        /\ \/ Goto(t, "w_bell") /\ UNCHANGED frame
           \/ \E s, y : CallComp(t, s, y, AfterWork(t))
    BY <1>6 DEF work_check, work_polled, work_poll_timeout
  <2>2. CASE Goto(t, "w_bell") /\ UNCHANGED frame
    BY Zenon, <1>f, <1>j, <2>1, <2>2
  <2>3. CASE \E s, y : CallComp(t, s, y, AfterWork(t))
    BY Zenon, <1>a, <2>1, <2>3, CallQuiet DEF Far
  <2> QED
    BY Zenon, <2>1, <2>2, <2>3
<1>7. ASSUME work_doorbell(t) PROVE Quietly(t) /\ Still
  <2>1. /\ Still /\ pc[t] # "free_idx"
        /\ (Goto(t, "w_poll") /\ UNCHANGED frame) \/ Enter(t, AfterWork(t))
    BY <1>7 DEF work_doorbell
  <2>2. CASE Goto(t, "w_poll") /\ UNCHANGED frame
    BY Zenon, <1>f, <1>j, <2>1, <2>2
  <2> QED
    BY Zenon, <1>e, <2>1, <2>2
<1>8. ASSUME Quietly(t), Still PROVE SlotInv'
    BY Zenon, <1>8, StillSlots
<1> QED
    BY Zenon, <1>1, <1>2, <1>3, <1>4, <1>5, <1>6, <1>7, <1>8, <1>j DEF Work

\* mlx5_cmd_comp_handler.
LEMMA SlotsComp ==
    ASSUME TypeInv, SlotInv, NEW t \in Threads, Comp(t)
    PROVE  SlotInv'
<1> DEFINE Still == UNCHANGED <<refcnt, idx, bitmask, queue>>
           Inside == /\ \E p \in CompPCs : Goto(t, p)
                     /\ pc[t] \in CompPCs /\ frame'[t].back = frame[t].back
                     /\ \A u \in Threads \ {t} : frame'[u] = frame[u]
           Puts(c, p) == /\ cmd_ent_put(t, c, p) /\ pc[t] # "free_idx"
                         /\ UNCHANGED <<idx, bitmask, queue>>
           Out == frame[t].back
<1> USE DEF entVars, cmdVars
<1>0. frame[t] \in Frames /\ CallerLocal(t) /\ frame \in [Threads -> Frames]
    BY Zenon DEF TypeInv, TypeOK, ThrType, SlotInv
<1>i. ASSUME Inside PROVE Quietly(t)
    BY Zenon, <1>i, CompQuiet
<1>b. ASSUME pc[t] \in CompPCs
      PROVE  /\ Out \notin CompPCs \cup EarlyPCs \cup {"free_idx"} /\ (t \in Cmds => Out # "idle")
             /\ GoesOn(t, Out) /\ pc[t] # "free_idx"
  <2>1. Out \in BackPCs /\ (t \in Cmds => Out # "idle")
    BY Zenon, <1>0, <1>b DEF CallerLocal, Frames
  <2>2. Out \notin CompPCs \cup EarlyPCs \cup {"free_idx"} /\ pc[t] # "free_idx"
    BY <1>b, <2>1 DEF BackPCs, CompPCs, EarlyPCs
  <2> QED
    BY Zenon, <2>1, <2>2 DEF GoesOn
<1>p. ASSUME NEW c \in Cmds, NEW p \in CompPCs, pc[t] \in CompPCs, Puts(c, p) PROVE SlotInv'
  <2>1. GoesOn(t, p)
    BY Zenon, <1>p DEF GoesOn
  <2> QED
    BY Zenon, <1>p, <2>1, PutSlots
<1>1. ASSUME comp_test_and_clear(t) PROVE SlotInv'
  <2>0. pc[t] = "c_tac" /\ "c_tac" \in CompPCs /\ "c_timer" \in CompPCs
    BY <1>1 DEF comp_test_and_clear, CompPCs
  <2>1. PICK c \in Cmds : c = ent_arr[frame[t].slot]
    BY <1>0, <1>1 DEF comp_test_and_clear, TypeInv, TypeOK, CmdType, Frames
  <2>2. \/ Puts(c, Out)
        \/ Enter(t, Out) /\ Still
        \/ Goto(t, "c_timer") /\ frame' = [frame EXCEPT ![t].ent = c] /\ Still
    BY <1>1, <2>1 DEF comp_test_and_clear, Skips
  <2>3. CASE Puts(c, Out)
    BY Zenon, <1>b, <2>0, <2>3, PutSlots
  <2>4. CASE Enter(t, Out) /\ Still
    BY Zenon, <1>b, <2>0, <2>4, EnterQuiet, StillSlots
  <2>5. CASE Goto(t, "c_timer") /\ frame' = [frame EXCEPT ![t].ent = c] /\ Still
    <3>1. frame'[t].back = frame[t].back /\ \A u \in Threads \ {t} : frame'[u] = frame[u]
      BY <1>0, <2>5 DEF Frames
    <3> QED
      BY Zenon, <1>i, <2>0, <2>5, <3>1, StillSlots
  <2> QED
    BY Zenon, <2>2, <2>3, <2>4, <2>5
<1>2. ASSUME comp_cancel_timer(t) \/ comp_put_fw(t) \/ comp_put(t) PROVE SlotInv'
  <2>1. pc[t] \in CompPCs /\ pc[t] \in Busy
    BY <1>2 DEF comp_cancel_timer, comp_put_fw, comp_put, CompPCs, Busy
  <2>c. PICK c \in Cmds : c = cur(t)
    BY Zenon, <2>1, HasEnt
  <2>2. \E p \in {"c_fw", "c_fin", "c_cb"} :
           \/ Puts(c, p)
           \/ Goto(t, p) /\ UNCHANGED frame /\ Still
    BY <1>2, <2>c DEF comp_cancel_timer, comp_put_fw, comp_put
  <2>3. \A p \in {"c_fw", "c_fin", "c_cb"} : p \in CompPCs
    BY DEF CompPCs
  <2>4. CASE \E p \in {"c_fw", "c_fin", "c_cb"} : Puts(c, p)
    BY Zenon, <1>p, <2>1, <2>3, <2>4
  <2>5. CASE \E p \in {"c_fw", "c_fin", "c_cb"} : Goto(t, p) /\ UNCHANGED frame /\ Still
    BY Zenon, <1>i, <2>1, <2>3, <2>5, StillSlots
  <2> QED
    BY Zenon, <2>2, <2>4, <2>5
<1>3. ASSUME comp_finish(t) \/ comp_callback(t) PROVE SlotInv'
  <2>1. /\ pc[t] \in CompPCs /\ Still
        /\ \E p \in {"c_put", "c_up"} : Goto(t, p)
        /\ UNCHANGED frame \/ \E r : frame' = [frame EXCEPT ![t].err = r]
    BY <1>3 DEF comp_finish, comp_callback, CompPCs
  <2>2. frame'[t].back = frame[t].back /\ \A u \in Threads \ {t} : frame'[u] = frame[u]
    BY <1>0, <2>1 DEF Frames
  <2>3. "c_put" \in CompPCs /\ "c_up" \in CompPCs
    BY DEF CompPCs
  <2> QED
    BY Zenon, <1>i, <2>1, <2>2, <2>3, StillSlots
<1>4. ASSUME comp_up(t) PROVE SlotInv'
  <2>1. pc[t] \in CompPCs /\ Still /\ Enter(t, Out)
    BY <1>4 DEF comp_up, CompPCs
  <2> QED
    BY Zenon, <1>b, <2>1, EnterQuiet, StillSlots
<1>5. ASSUME cmd_free_index(t) PROVE SlotInv'
    BY Zenon, <1>5, FreeSlots
<1> QED
    BY Zenon, <1>1, <1>2, <1>3, <1>4, <1>5 DEF Comp

\* The holder of intf_state_mutex.
LEMMA SlotsMgr ==
    ASSUME TypeInv, SlotInv, Mgr
    PROVE  SlotInv'
<1>t. MGR \in Threads /\ MGR \notin Cmds
    BY Zenon, CmdIfAssumption DEF Threads
<1> DEFINE Still == UNCHANGED <<refcnt, idx, bitmask, queue>>
           Far(p) == p \notin CompPCs \cup EarlyPCs \cup {"free_idx"}
           Jumps == (\E p : Far(p) /\ Goto(MGR, p)) /\ UNCHANGED frame /\ pc[MGR] # "free_idx"
<1> USE DEF entVars, cmdVars
<1>f. \A p \in MgrPCs \cup {"idle"} : Far(p)
    BY DEF MgrPCs, CompPCs, EarlyPCs
<1> HIDE DEF Far
<1>j. ASSUME Jumps PROVE Quietly(MGR)
  <2>1. PICK p : Far(p) /\ Goto(MGR, p)
    BY Zenon, <1>j
  <2> QED
    BY Zenon, <1>j, <1>t, <2>1, GotoQuiet DEF Far
<1>1. ASSUME mgr_next \/ cleanup_async_ctx \/ cleanup_wait PROVE Jumps /\ Still
    BY <1>1, <1>f DEF mgr_next, cleanup_async_ctx, cleanup_wait, MgrPCs
<1>2. ASSUME drain_down \/ drain_set PROVE Jumps /\ Still
    BY <1>2, <1>f DEF drain_down, drain_set, MgrPCs
<1>3. ASSUME flush_down \/ flush_trylock_fails \/ mgr_up PROVE Jumps /\ Still
    BY <1>3, <1>f DEF flush_down, flush_trylock_fails, mgr_up, MgrPCs
<1>4. ASSUME trigger_sync \/ trigger_end PROVE Jumps /\ Still
    BY <1>4, <1>f DEF trigger_sync, trigger_end, MgrPCs
<1>5. ASSUME trigger_get PROVE SlotInv'
  <2>1. Jumps /\ UNCHANGED <<idx, bitmask, queue>>
    BY <1>5, <1>f DEF trigger_get, MgrPCs
  <2>2. \E B : refcnt' = [c \in Cmds |-> IF c \in B THEN Inc(refcnt[c]) ELSE refcnt[c]]
    <3>1. refcnt' = [c \in Cmds |-> IF c \in {d \in Cmds : \E s \in Taken : ent_arr[s] = d}
                                   THEN Inc(refcnt[c]) ELSE refcnt[c]]
      BY <1>5 DEF trigger_get
    <3> QED
      BY Zenon, <3>1
  <2>3. refcnt' \in [Cmds -> Nat] /\ NoRevival
    BY <2>2 DEF TypeInv, TypeOK, EntType, NoRevival, Inc
  <2> QED
    BY Zenon, <1>j, <1>t, <2>1, <2>3, SameQueue, QuietSlots
<1>6. ASSUME trigger_comp PROVE Quietly(MGR) /\ Still
  <2>1. Still /\ pc[MGR] # "free_idx" /\ \E s \in vec : CallComp(MGR, s, "FORCED", "g_comp")
    BY <1>6 DEF trigger_comp
  <2> QED
    BY Zenon, <1>t, <2>1, CallQuiet
<1>7. ASSUME trigger_put PROVE SlotInv'
  <2>1. pc[MGR] # "free_idx" /\ UNCHANGED <<idx, bitmask, queue>>
    BY <1>7 DEF trigger_put
  <2>2. \E c \in Cmds : cmd_ent_put(MGR, c, "g_comp")
    BY <1>7 DEF trigger_put, TypeInv, TypeOK, CmdType, MgrType
  <2>3. GoesOn(MGR, "g_comp")
    BY Zenon, <1>f, <1>t DEF GoesOn, Far, MgrPCs
  <2> QED
    BY Zenon, <1>t, <2>1, <2>2, <2>3, PutSlots
<1>8. ASSUME Quietly(MGR), Still PROVE SlotInv'
    BY Zenon, <1>8, <1>t, StillSlots
<1> QED
    BY Zenon, <1>1, <1>2, <1>3, <1>4, <1>5, <1>6, <1>7, <1>8, <1>j DEF Mgr

\* The firmware and the event queue.
LEMMA SlotsDevice ==
    ASSUME TypeInv, SlotInv, \/ \E s \in Slots : fw_complete(s)
                             \/ \E via \in {"irq", "recover"} : eq_take(via)
    PROVE  SlotInv'
<1>1. CASE \E s \in Slots : fw_complete(s)
  <2>1. UNCHANGED <<pc, frame, refcnt, idx, bitmask, queue>>
    BY <1>1 DEF fw_complete, entVars, cmdVars, thrVars
  <2> QED
    BY Zenon, <2>1, StutterSlots
<1>2. CASE \E via \in {"irq", "recover"} : eq_take(via)
  <2>t. EQ \in Threads /\ EQ \notin Cmds
    BY Zenon, CmdIfAssumption DEF Threads
  <2>1. /\ pc[EQ] = "idle" /\ Goto(EQ, "c_tac") /\ UNCHANGED <<refcnt, idx, bitmask, queue>>
        /\ \A u \in Threads \ {EQ} : frame'[u] = frame[u]
    BY <1>2, <2>t DEF eq_take, entVars, cmdVars, TypeInv, TypeOK, ThrType
  <2>2. StepOf(EQ) /\ pc'[EQ] = "c_tac"
    BY <2>t, <2>1 DEF Goto, StepOf, TypeInv, TypeOK, ThrType
  <2>3. "c_tac" \notin EarlyPCs /\ "c_tac" # "free_idx" /\ "idle" # "free_idx"
    BY DEF EarlyPCs
  <2>4. Quietly(EQ)
    BY Zenon, <2>t, <2>1, <2>2, <2>3 DEF Quietly, CallerLocal
  <2> QED
    BY Zenon, <2>t, <2>1, <2>4, StillSlots
<1> QED
    BY Zenon, <1>1, <1>2

\* Every step keeps the slots exclusive.
LEMMA StepSlots == TypeInv /\ SlotInv /\ [Next]_vars => SlotInv'
<1> SUFFICES ASSUME TypeInv, SlotInv, [Next]_vars PROVE SlotInv'
    OBVIOUS
<1>1. ASSUME NEW c \in Cmds,
             \/ cmd_exec(c) \/ cmd_exec_rejected(c) \/ cmd_exec_nomem(c)
             \/ Serve(c) \/ Expire(c)
      PROVE  SlotInv'
    BY Zenon, <1>1, SlotsCaller, Slots_cmd_exec
<1>2. ASSUME work_start PROVE SlotInv'
    BY Zenon, <1>2, Slots_work_start
<1>3. ASSUME NEW t \in Threads, Work(t) \/ Comp(t) PROVE SlotInv'
    BY Zenon, <1>3, SlotsWork, SlotsComp, AllocSlots
<1>4. ASSUME \/ \E s \in Slots : fw_complete(s)
             \/ \E via \in {"irq", "recover"} : eq_take(via)
      PROVE  SlotInv'
    BY Zenon, <1>4, SlotsDevice
<1>5. ASSUME Mgr PROVE SlotInv'
    BY Zenon, <1>5, SlotsMgr
<1>6. ASSUME UNCHANGED vars PROVE SlotInv'
    BY Zenon, <1>6, StutterSlots DEF vars, entVars, cmdVars, thrVars
<1> QED
    BY Zenon, <1>1, <1>2, <1>3, <1>4, <1>5, <1>6 DEF Next

\* A regular command has the slot it was given to itself, also against page
\* commands, and the slot stays marked in cmd->bitmask until the entry is gone; so
\* does a page command that is the only one.  No timing is assumed.
THEOREM SlotsExclusive == Spec => []SlotExclusive
<1>1. Init => TypeInv /\ SlotInv
    BY Zenon, InitType, InitSlots
<1>2. TypeInv /\ SlotInv /\ [Next]_vars => TypeInv' /\ SlotInv'
    BY Zenon, StepType, StepSlots
<1>3. SlotInv => SlotExclusive
    BY Zenon DEF SlotInv, SlotExclusive, ExclusiveSlot
<1> QED
    BY <1>1, <1>2, <1>3, PTL DEF Spec

-----------------------------------------------------------------------------
(* num_inflight of an asynchronous context, continued from CmdIf_once:     *)
(* who is counted.                                                         *)

\* No asynchronous command is issued or answered.
SameCtx ==
    /\ UNCHANGED num_inflight
    /\ \A c \in Async : (pc'[c] = "idle" <=> pc[c] = "idle") /\ res'[c] = res[c]
    /\ pc'[MGR] = "a_wait" <=> pc[MGR] = "a_wait"

\* Such a step keeps the count.
LEMMA SameCount ==
    ASSUME CtxInv, SameCtx, \A d \in Cmds : Live(d)' => Live(d)
    PROVE  CtxCount' /\ \A c \in Async : Live(c)' => res'[c] = "none"
<1>1. Open' = Open
    BY DEF Open, SameCtx
<1>2. Issued' <=> Issued
    BY Zenon DEF Issued, SameCtx
<1>3. CtxCount'
    BY Zenon, <1>1, <1>2 DEF CtxInv, CtxCount, SameCtx
<1>4. Async \subseteq Cmds
    BY Zenon, CmdIfAssumption
<1> QED
    BY Zenon, <1>3, <1>4 DEF CtxInv, SameCtx

\* The steps that neither issue nor answer an asynchronous command.
LEMMA QuietCtxCaller ==
    ASSUME TypeInv, NEW c \in Cmds, CtxLocal(c), Serve(c) \/ Expire(c)
    PROVE  SameCtx
<1>t. c \in Threads /\ MGR \in Threads /\ c # MGR /\ Async \subseteq Threads
    BY CmdIfAssumption DEF Threads
<1>0. pc \in [Threads -> PCs] /\ res \in [Cmds -> Rets \cup {"none", "nomem"}]
    BY DEF TypeInv, TypeOK, ThrType, HisType
<1>1. /\ pc[c] # "idle" /\ UNCHANGED num_inflight
      /\ \E p \in PCs \ {"idle"} : pc' = [pc EXCEPT ![c] = p]
      /\ UNCHANGED res \/ (pc[c] = "ret" /\ \E r : res' = [res EXCEPT ![c] = r])
  <2>p. CallerPCs \subseteq PCs /\ "free_idx" \in PCs /\ "c_tac" \in PCs
    BY DEF PCs, CompPCs
  <2>1. CASE wait_handled(c) \/ wait_done(c) \/ wait_recovered(c)
    BY <2>1, <2>p DEF wait_handled, wait_done, wait_recovered, Goto, hisVars, CallerPCs
  <2>2. CASE timer_recovered(c) \/ timer_test(c)
    BY <2>2, <2>p DEF timer_recovered, timer_test, Goto, hisVars, CallerPCs
  <2>3. CASE wait_force(c)
    BY <2>3, <2>p DEF wait_force, ForceComp, CallComp, Goto, hisVars, CallerPCs
  <2>4. CASE timer_force(c)
    BY <2>4, <2>p DEF timer_force, ForceComp, CallComp, Goto, hisVars, CallerPCs
  <2>5. CASE invoke_return(c)
    <3>1. Goto(c, "free_idx") \/ Goto(c, "end")
      BY Zenon, <2>5 DEF invoke_return, cmd_ent_put, Enter
    <3>2. /\ pc[c] = "ret" /\ UNCHANGED num_inflight
          /\ res' = [res EXCEPT ![c] = IF ret[c] = "aborted" THEN "ok" ELSE ret[c]]
      BY Zenon, <2>5 DEF invoke_return
    <3>3. "free_idx" \in PCs \ {"idle"} /\ "end" \in PCs \ {"idle"} /\ "ret" # "idle"
      BY <2>p DEF CallerPCs
    <3> QED
      BY Zenon, <3>1, <3>2, <3>3 DEF Goto
  <2>6. CASE timer_put(c)
    <3>1. Goto(c, "free_idx") \/ Goto(c, "end")
      BY Zenon, <2>6 DEF timer_put, cmd_ent_put, Enter
    <3> QED
      BY <2>6, <2>p, <3>1 DEF timer_put, Goto, CallerPCs, hisVars
  <2>7. CASE wait_canceled(c)
    <3>1. pc[c] = "wait_h" /\ Goto(c, "ret") /\ UNCHANGED <<num_inflight, res>>
      BY Zenon, <2>7 DEF wait_canceled, hisVars
    <3>2. "ret" \in PCs \ {"idle"} /\ "wait_h" # "idle"
      BY <2>p DEF CallerPCs
    <3> QED
      BY Zenon, <3>1, <3>2 DEF Goto
  <2>8. CASE wait_timeout(c) \/ wait_exec_timeout(c) \/ timer_fires(c)
    BY <2>8, <2>p DEF wait_timeout, wait_exec_timeout, timer_fires, Goto, hisVars, CallerPCs
  <2> QED
    BY Zenon, <2>1, <2>2, <2>3, <2>4, <2>5, <2>6, <2>7, <2>8 DEF Serve, Expire
<1>2. "ret" \notin AsyncPCs
    BY DEF AsyncPCs, CompPCs
<1>3. pc[c] = "ret" => c \notin Async
    BY Zenon, <1>2 DEF CtxLocal
<1>4. \A d \in Async : res'[d] = res[d]
    BY <1>0, <1>1, <1>3, CmdIfAssumption
<1>5. \A d \in Async : pc'[d] = "idle" <=> pc[d] = "idle"
    BY <1>0, <1>1, <1>t
<1>6. pc'[MGR] = pc[MGR]
    BY <1>0, <1>1, <1>t
<1> QED
    BY Zenon, <1>1, <1>4, <1>5, <1>6 DEF SameCtx

\* cmd_work_handler, unless it gives an asynchronous command up.
LEMMA QuietCtxWork ==
    ASSUME TypeInv, NEW t \in Threads, CtxLocal(t), Work(t),
           ~(alloc_index_failed(t) /\ cur(t) \in Async)
    PROVE  SameCtx
<1>0. pc \in [Threads -> PCs] /\ Async \subseteq Threads /\ MGR \in Threads
    BY CmdIfAssumption DEF TypeInv, TypeOK, ThrType, Threads
<1>1. /\ pc[t] \in WorkPCs /\ UNCHANGED <<num_inflight, res>>
      /\ \E p : p # "a_wait" /\ Goto(t, p)
  <2>1. CASE \/ work_down(t) \/ cmd_alloc_index(t) \/ work_noidx_up(t) \/ work_arr(t)
             \/ work_arm(t) \/ work_get(t)
    BY <2>1 DEF work_down, cmd_alloc_index, work_noidx_up, work_arr,
                work_arm, work_get, Enter, AfterWork, WorkPCs, hisVars
  <2>2. CASE work_check(t) \/ work_doorbell(t) \/ work_polled(t) \/ work_poll_timeout(t)
    BY <2>2 DEF work_check, work_doorbell, work_polled, work_poll_timeout, Enter, CallComp,
                AfterWork, WorkPCs, hisVars
  <2>3. CASE alloc_index_failed(t)
    BY <2>3 DEF alloc_index_failed, WorkPCs
  <2> QED
    BY Zenon, <2>1, <2>2, <2>3 DEF Work
<1>2. WorkPCs \cap AsyncPCs = {} /\ "a_wait" \notin WorkPCs
    BY DEF WorkPCs, AsyncPCs, CompPCs
<1>3. t \notin Async
    BY <1>1, <1>2 DEF CtxLocal
<1>4. \A d \in Async : pc'[d] = pc[d]
    BY <1>0, <1>1, <1>3 DEF Goto
<1>5. pc'[MGR] = "a_wait" <=> pc[MGR] = "a_wait"
    BY <1>0, <1>1, <1>2 DEF Goto
<1> QED
    BY Zenon, <1>1, <1>4, <1>5 DEF SameCtx

\* mlx5_cmd_comp_handler, but for the callback.
LEMMA QuietCtxComp ==
    ASSUME Inv, NEW t \in Threads, CtxLocal(t), Comp(t), ~comp_callback(t)
    PROVE  SameCtx
<1>0. /\ pc \in [Threads -> PCs] /\ Async \subseteq Threads /\ MGR \in Threads
      /\ frame[t].back \in BackPCs /\ frame[t].cont \in ContPCs /\ Local(t)
    BY CmdIfAssumption DEF Inv, OnceInv, TypeInv, TypeOK, ThrType, Threads, Frames
<1>1. /\ UNCHANGED <<num_inflight, res>> /\ pc[t] \in CompPCs \cup {"free_idx"}
      /\ \/ \E p \in CompPCs \cup {"free_idx"} : Goto(t, p)
         \/ pc[t] \in CompPCs /\ Goto(t, frame[t].back)
         \/ pc[t] = "free_idx" /\ Goto(t, frame[t].cont)
  <2>p. {"c_tac", "c_timer", "c_fw", "c_fin", "c_put", "c_cb", "c_up"} = CompPCs
    BY DEF CompPCs
  <2>1. CASE comp_test_and_clear(t)
    <3> DEFINE c == ent_arr[frame[t].slot]
    <3>1. Skips(t, c) <=> c \notin pending
      BY <1>0 DEF Skips, Local, Inv
    <3> HIDE DEF c
    <3>2. \/ cmd_ent_put(t, c, frame[t].back) \/ Enter(t, frame[t].back) \/ Goto(t, "c_timer")
      BY <2>1, <3>1 DEF comp_test_and_clear, c
    <3>3. \/ Goto(t, "free_idx") \/ Goto(t, frame[t].back) \/ Goto(t, "c_timer")
      BY Zenon, <3>2 DEF cmd_ent_put, Enter
    <3> QED
      BY <2>1, <2>p, <3>3 DEF comp_test_and_clear, hisVars
  <2>2. CASE comp_cancel_timer(t) \/ comp_put_fw(t) \/ comp_put(t)
    <3>1. \E p \in {"c_fw", "c_fin", "c_cb"} : Goto(t, p) \/ cmd_ent_put(t, cur(t), p)
      BY <2>2 DEF comp_cancel_timer, comp_put_fw, comp_put
    <3>2. \E p \in {"c_fw", "c_fin", "c_cb", "free_idx"} : Goto(t, p)
      BY <3>1 DEF cmd_ent_put, Enter
    <3> QED
      BY <2>2, <2>p, <3>2 DEF comp_cancel_timer, comp_put_fw, comp_put, hisVars
  <2>3. CASE comp_finish(t)
    BY <2>3, <2>p DEF comp_finish, hisVars
  <2>4. CASE comp_up(t) \/ cmd_free_index(t)
    BY <2>4, <2>p DEF comp_up, cmd_free_index, Enter, hisVars
  <2> QED
    BY Zenon, <2>1, <2>2, <2>3, <2>4 DEF Comp
<1>2. /\ \A p \in CompPCs \cup {"free_idx"} \cup ContPCs \cup BackPCs : p # "a_wait"
      /\ \A p \in CompPCs \cup {"free_idx", "t_put", "end"} : p # "idle"
    BY DEF CompPCs, ContPCs, BackPCs
<1>3. pc'[MGR] = "a_wait" <=> pc[MGR] = "a_wait"
    BY <1>0, <1>1, <1>2 DEF Goto
<1>4. t \in Async => pc[t] # "idle" /\ pc'[t] # "idle"
  <2>1. t \in Async => /\ pc[t] \in CompPCs => frame[t].back = "t_put"
                       /\ pc[t] = "free_idx" => frame[t].cont \in {"t_put", "end"} \cup CompPCs
    BY Zenon DEF CtxLocal, InsideComp
  <2> QED
    BY <1>0, <1>1, <1>2, <2>1 DEF Goto
<1>5. \A d \in Async \ {t} : pc'[d] = pc[d]
    BY <1>0, <1>1 DEF Goto
<1> QED
    BY Zenon, <1>1, <1>3, <1>4, <1>5 DEF SameCtx

\* The work queue, the device, and MGR but for the clean-up of the context.
LEMMA QuietCtxOthers ==
    ASSUME TypeInv,
           \/ work_start
           \/ \E s \in Slots : fw_complete(s)
           \/ \E via \in {"irq", "recover"} : eq_take(via)
           \/ Mgr /\ ~cleanup_async_ctx /\ ~cleanup_wait
           \/ UNCHANGED vars
    PROVE  SameCtx
<1>t. /\ {WQ, EQ, MGR} \subseteq Threads /\ WQ \notin Async /\ EQ \notin Async /\ MGR \notin Async
      /\ Async \subseteq Threads /\ WQ # MGR /\ EQ # MGR
    BY CmdIfAssumption DEF Threads
<1>p. pc \in [Threads -> PCs]
    BY DEF TypeInv, TypeOK, ThrType
<1>1. ASSUME NEW t \in {WQ, EQ, MGR}, NEW p, Goto(t, p), p # "a_wait", t = MGR => pc[t] # "a_wait",
             UNCHANGED <<num_inflight, res>>
      PROVE  SameCtx
  <2>1. \A d \in Async : pc'[d] = pc[d]
    BY <1>1, <1>t, <1>p DEF Goto
  <2>2. pc'[MGR] = "a_wait" <=> pc[MGR] = "a_wait"
    BY <1>1, <1>t, <1>p DEF Goto
  <2> QED
    BY Zenon, <1>1, <2>1, <2>2 DEF SameCtx
<1>2. CASE work_start
  <2>1. Goto(WQ, "w_down") /\ UNCHANGED <<num_inflight, res>>
    BY <1>2 DEF work_start, hisVars
  <2> QED
    BY <1>1, <1>t, <2>1
<1>3. CASE \E s \in Slots : fw_complete(s)
  <2>1. UNCHANGED <<pc, num_inflight, res>>
    BY <1>3 DEF fw_complete, thrVars
  <2> QED
    BY Zenon, <2>1 DEF SameCtx
<1>4. CASE \E via \in {"irq", "recover"} : eq_take(via)
  <2>1. Goto(EQ, "c_tac") /\ UNCHANGED <<num_inflight, res>>
    BY <1>4 DEF eq_take, hisVars
  <2> QED
    BY <1>1, <1>t, <2>1
<1>5. CASE Mgr /\ ~cleanup_async_ctx /\ ~cleanup_wait
  <2>1. /\ UNCHANGED <<num_inflight, res>> /\ pc[MGR] # "a_wait"
        /\ \E p : p # "a_wait" /\ Goto(MGR, p)
    <3>1. CASE mgr_next \/ drain_down \/ drain_set \/ flush_down
      BY <3>1 DEF mgr_next, drain_down, drain_set, flush_down, hisVars
    <3>2. CASE \/ flush_trylock_fails \/ mgr_up \/ trigger_sync \/ trigger_get \/ trigger_end
      BY <3>2 DEF flush_trylock_fails, mgr_up, trigger_sync, trigger_get, trigger_end, hisVars
    <3>3. CASE trigger_comp
      <4>1. pc[MGR] = "g_comp" /\ Goto(MGR, "c_tac") /\ UNCHANGED <<num_inflight, res>>
        BY Zenon, <3>3 DEF trigger_comp, CallComp, hisVars
      <4> QED
        BY <4>1
    <3>4. CASE trigger_put
      <4>1. /\ pc[MGR] = "g_comp" /\ UNCHANGED <<num_inflight, res>>
            /\ Goto(MGR, "free_idx") \/ Goto(MGR, "g_comp")
        BY Zenon, <3>4 DEF trigger_put, cmd_ent_put, Enter, hisVars
      <4> QED
        BY <4>1
    <3> QED
      BY Zenon, <1>5, <3>1, <3>2, <3>3, <3>4 DEF Mgr
  <2> QED
    BY <1>1, <2>1
<1>6. CASE UNCHANGED vars
  <2>1. UNCHANGED <<pc, num_inflight, res>>
    BY <1>6 DEF vars, thrVars, hisVars
  <2> QED
    BY Zenon, <2>1 DEF SameCtx
<1> QED
    BY Zenon, <1>2, <1>3, <1>4, <1>5, <1>6

-----------------------------------------------------------------------------
(* Counting them.                                                          *)

INSTANCE FiniteSetTheorems

\* Nothing has been issued at first.
LEMMA InitCtx == Init => CtxInv
<1> SUFFICES ASSUME Init PROVE CtxInv
    OBVIOUS
<1>1. /\ \A t \in Threads : pc[t] = "idle"
      /\ \A c \in Cmds : res[c] = "none"
      /\ Async \subseteq Cmds /\ MGR \in Threads /\ Cmds \subseteq Threads /\ num_inflight = 1
    BY CmdIfAssumption DEF Init, Threads
<1>2. "idle" \in AsyncPCs /\ "idle" \notin CompPCs /\ "idle" # "free_idx"
    BY DEF AsyncPCs, CompPCs
<1>3. \A t \in Threads : CtxLocal(t)
    BY Zenon, <1>1, <1>2 DEF CtxLocal, CbPlace, InsideComp
<1>4. Open = {}
    BY <1>1 DEF Open
<1>5. num_inflight = Cardinality(Open) + 1
    BY <1>1, <1>4, FS_EmptySet
<1>6. pc[MGR] # "a_wait"
    BY <1>1
<1> QED
    BY Zenon, <1>1, <1>3, <1>5, <1>6 DEF CtxInv, CtxCount

\* num_inflight counts nothing less than the commands without their callback.
LEMMA CtxWaits ==
    ASSUME IsFiniteSet(Cmds), TypeInv, CtxInv
    PROVE  CleanupWaits
<1> SUFFICES ASSUME num_inflight = 0 PROVE \A c \in Async : pc[c] # "idle" => res[c] # "none"
    BY DEF CleanupWaits
<1>1. IsFiniteSet(Open)
    BY CmdIfAssumption, FS_Subset DEF Open
<1>2. Cardinality(Open) \in Nat
    BY Zenon, <1>1, FS_CardinalityType
<1>3. Cardinality(Open) = 0 \/ Open = {}
    BY <1>2 DEF CtxInv, CtxCount
<1>4. Open = {}
    BY Zenon, <1>1, <1>3, FS_EmptySet
<1> QED
    BY <1>4 DEF Open


\* mlx5_cmd_cleanup_async_ctx gives up the reference of the context, and waits.
LEMMA CountCleanup ==
    ASSUME IsFiniteSet(Cmds), TypeInv, CtxInv, cleanup_async_ctx \/ cleanup_wait
    PROVE  CtxCount' /\ UNCHANGED res
<1>t. MGR \in Threads /\ MGR \notin Async /\ Async \subseteq Threads
    BY CmdIfAssumption DEF Threads
<1>0. pc \in [Threads -> PCs] /\ num_inflight \in Int
    BY DEF TypeInv, TypeOK, ThrType, MgrType
<1>1. /\ UNCHANGED res /\ \E p : Goto(MGR, p)
    BY DEF cleanup_async_ctx, cleanup_wait, hisVars
<1>2. \A c \in Async : pc'[c] = pc[c]
    BY <1>0, <1>1, <1>t DEF Goto
<1>3. Open' = Open
    BY <1>1, <1>2 DEF Open
<1>4. Issued' <=> Issued
    BY Zenon, <1>2 DEF Issued
<1>5. IsFiniteSet(Open) /\ Cardinality(Open) \in Nat
    BY CmdIfAssumption, FS_Subset, FS_CardinalityType DEF Open
<1>6. CASE cleanup_async_ctx
  <2>1. pc[MGR] # "a_wait" /\ pc'[MGR] = "a_wait" /\ num_inflight' = num_inflight - 1
    BY <1>0, <1>6, <1>t DEF cleanup_async_ctx, Goto
  <2>2. Issued
    BY Zenon, <1>6 DEF cleanup_async_ctx, Issued
  <2>3. num_inflight = Cardinality(Open) + 1 => num_inflight' = Cardinality(Open')
    BY <1>0, <1>3, <1>5, <2>1
  <2> QED
    BY Zenon, <1>1, <1>3, <1>4, <2>1, <2>2, <2>3 DEF CtxInv, CtxCount
<1>7. CASE cleanup_wait
  <2>1. pc[MGR] = "a_wait" /\ num_inflight = 0
    BY Zenon, <1>7 DEF cleanup_wait
  <2>2. Issued /\ (Open = {} \/ Cardinality(Open) = 0)
    BY <2>1 DEF CtxInv, CtxCount
  <2>3. Open = {}
    BY Zenon, <1>5, <2>2, FS_EmptySet
  <2> QED
    BY Zenon, <1>1, <1>3, <1>4, <2>2, <2>3 DEF CtxCount
<1> QED
    BY Zenon, <1>6, <1>7

\* mlx5_cmd_exec_cb counts the command it accepts.
LEMMA CountExec ==
    ASSUME IsFiniteSet(Cmds), TypeInv, CtxInv, NEW c \in Cmds, cmd_exec(c)
    PROVE  CtxCount' /\ UNCHANGED res
<1>t. /\ MGR \in Threads /\ c \in Threads /\ c # MGR /\ Async \subseteq Threads
    BY CmdIfAssumption DEF Threads
<1>0. pc \in [Threads -> PCs] /\ num_inflight \in Int
    BY DEF TypeInv, TypeOK, ThrType, MgrType
<1>1. /\ UNCHANGED res /\ pc[c] = "idle" /\ num_inflight' = num_inflight + Counted(c)
      /\ \E p \in {"w_down", "cb", "wait_h"} : Goto(c, p)
    BY DEF cmd_exec, hisVars
<1>2. /\ pc'[c] # "idle" /\ pc'[MGR] = pc[MGR] /\ \A d \in Async \ {c} : pc'[d] = pc[d]
    BY <1>0, <1>1, <1>t DEF Goto
<1>3. IsFiniteSet(Open) /\ Cardinality(Open) \in Nat
    BY CmdIfAssumption, FS_Subset, FS_CardinalityType DEF Open
<1>4. CASE c \in Async
  <2>1. ~Issued
    BY Zenon, <1>1, <1>4 DEF Issued
  <2>2. Live(c)
    BY Zenon, <1>1 DEF Live
  <2>3. res[c] = "none"
    BY Zenon, <1>4, <2>2 DEF CtxInv
  <2>4. Open' = Open \cup {c} /\ c \notin Open
    BY <1>1, <1>2, <1>4, <2>3 DEF Open
  <2>5. Cardinality(Open') = Cardinality(Open) + 1
    BY Zenon, <1>3, <2>4, FS_AddElement
  <2>6. pc[MGR] # "a_wait" /\ num_inflight = Cardinality(Open) + 1
    BY Zenon, <2>1 DEF CtxInv, CtxCount
  <2>7. num_inflight' = Cardinality(Open') + 1
    BY <1>0, <1>1, <1>3, <1>4, <2>5, <2>6 DEF Counted
  <2> QED
    BY Zenon, <1>1, <1>2, <2>6, <2>7 DEF CtxCount
<1>5. CASE c \notin Async
  <2>1. num_inflight' = num_inflight
    BY <1>0, <1>1, <1>5 DEF Counted
  <2>2. \A d \in Async : pc'[d] = pc[d]
    BY Zenon, <1>2, <1>5
  <2>3. Open' = Open
    BY <1>1, <2>2 DEF Open
  <2>4. Issued' <=> Issued
    BY Zenon, <2>2 DEF Issued
  <2> QED
    BY Zenon, <1>1, <1>2, <2>1, <2>3, <2>4 DEF CtxInv, CtxCount
<1> QED
    BY Zenon, <1>4, <1>5

\* A command that is not accepted is not counted.
LEMMA CountRejected ==
    ASSUME Inv, CtxInv, NEW c \in Cmds, cmd_exec_rejected(c) \/ cmd_exec_nomem(c)
    PROVE  CtxCount' /\ \A d \in Async : Live(d)' => res'[d] = "none"
<1>t. /\ MGR \in Threads /\ c \in Threads /\ c # MGR /\ Async \subseteq Threads /\ Async \subseteq Cmds
    BY CmdIfAssumption DEF Threads
<1>0. pc \in [Threads -> PCs] /\ res \in [Cmds -> Rets \cup {"none", "nomem"}]
    BY DEF Inv, TypeInv, TypeOK, ThrType, HisType
<1>1. /\ UNCHANGED num_inflight /\ pc[c] = "idle" /\ Goto(c, "end")
      /\ \E r \in {"internal", "nomem"} : res' = [res EXCEPT ![c] = r]
    BY DEF cmd_exec_rejected, cmd_exec_nomem
<1>2. /\ pc'[c] # "idle" /\ pc'[MGR] = pc[MGR] /\ res'[c] # "none"
      /\ \A d \in Async \ {c} : pc'[d] = pc[d] /\ res'[d] = res[d]
    BY <1>0, <1>1, <1>t DEF Goto
<1>3. Open' = Open
    BY <1>1, <1>2 DEF Open
<1>4. Issued => Issued'
    BY Zenon, <1>2 DEF Issued
<1>5. CtxCount'
    BY Zenon, <1>1, <1>2, <1>3, <1>4 DEF CtxInv, CtxCount
<1>6. [Next]_vars
    BY Zenon DEF Next
<1>7. \A d \in Cmds : Live(d)' => Live(d)
    BY Zenon, <1>6, LiveShrinks
<1>8. ~Live(c)'
    BY Zenon, LiveRejected
<1> QED
    BY Zenon, <1>2, <1>5, <1>7, <1>8, <1>t DEF CtxInv

\* The callback of an asynchronous command is followed by its uncounting.
LEMMA CountFinish ==
    ASSUME IsFiniteSet(Cmds), Inv, CtxInv, NEW t \in Threads, cur(t) \in Async,
           comp_callback(t) \/ alloc_index_failed(t)
    PROVE  CtxCount' /\ \A d \in Async : Live(d)' => res'[d] = "none"
<1>c. PICK c \in Async : c = cur(t)
    OBVIOUS
<1>t. /\ MGR \in Threads /\ Async \subseteq Threads /\ Async \subseteq Cmds
    BY CmdIfAssumption DEF Threads
<1>0. /\ pc \in [Threads -> PCs] /\ res \in [Cmds -> Rets \cup {"none", "nomem"}]
      /\ num_inflight \in Int /\ frame[t] \in Frames /\ frame[t].err \in Rets
    BY DEF Inv, TypeInv, TypeOK, ThrType, HisType, MgrType, Frames
<1>1. /\ num_inflight' = num_inflight - 1 /\ pc[t] \in {"c_cb", "w_idx"}
      /\ \E p \in {"c_up", "w_noidx"} : Goto(t, p)
      /\ \E r \in Rets : res' = [res EXCEPT ![c] = r]
    BY <1>0, <1>c DEF comp_callback, alloc_index_failed, Rets
<1>2. /\ pc'[MGR] = "a_wait" <=> pc[MGR] = "a_wait"
      /\ \A d \in Async : pc'[d] = "idle" <=> pc[d] = "idle"
    BY <1>0, <1>1, <1>t DEF Goto
<1>3. res'[c] # "none" /\ \A d \in Async \ {c} : res'[d] = res[d]
    BY <1>0, <1>1, <1>t DEF Rets
<1>4. Live(c) /\ ~Live(c)' /\ pc[c] # "idle" /\ \A d \in Cmds : Live(d)' => Live(d)
    BY Zenon, <1>c, <1>t, LiveFinish
<1>5. res[c] = "none"
    BY Zenon, <1>4 DEF CtxInv
<1>6. c \in Open /\ Open' = Open \ {c}
    BY <1>2, <1>3, <1>4, <1>5 DEF Open
<1>7. IsFiniteSet(Open) /\ Cardinality(Open) \in Nat
    BY CmdIfAssumption, FS_Subset, FS_CardinalityType DEF Open
<1>8. Cardinality(Open') = Cardinality(Open) - 1
    BY Zenon, <1>6, <1>7, FS_RemoveElement
<1>9. Issued => Issued'
    BY Zenon, <1>2 DEF Issued
<1>10. \/ pc[MGR] # "a_wait" /\ num_inflight = Cardinality(Open) + 1
       \/ Issued /\ pc[MGR] = "a_wait" /\ num_inflight = Cardinality(Open)
    BY <1>6 DEF CtxInv, CtxCount
<1>11. /\ num_inflight = Cardinality(Open) + 1 => num_inflight' = Cardinality(Open') + 1
       /\ num_inflight = Cardinality(Open) => num_inflight' = Cardinality(Open')
    BY <1>0, <1>1, <1>7, <1>8
<1>12. CtxCount'
    BY Zenon, <1>2, <1>9, <1>10, <1>11 DEF CtxCount
<1> QED
    BY Zenon, <1>3, <1>4, <1>12, <1>t DEF CtxInv

\* A callback is called for an asynchronous command only.
LEMMA CallbackAsync ==
    ASSUME NEW t \in Threads, CtxLocal(t), comp_callback(t)
    PROVE  cur(t) \in Async
    BY DEF comp_callback, CtxLocal, CbPlace

\* A step of one thread leaves the locals of the others alone.
LEMMA OtherCtx ==
    ASSUME CtxInv, NEW t \in Threads, StepOf(t), CtxLocal(t)'
    PROVE  \A u \in Threads : CtxLocal(u)'
<1>1. ASSUME NEW u \in Threads \ {t} PROVE CtxLocal(u)'
  <2>1. pc'[u] = pc[u] /\ frame'[u] = frame[u] /\ CtxLocal(u)
    BY Zenon DEF StepOf, CtxInv
  <2> QED
    BY Zenon, <2>1 DEF CtxLocal, CbPlace, InsideComp, cur
<1> QED
    BY Zenon, <1>1

\* The steps that hand a command on are steps of one thread too.
LEMMA OwnSteps ==
    ASSUME Inv
    PROVE  /\ \A c \in Cmds : cmd_exec(c) \/ wait_canceled(c) => StepOf(c)
           /\ work_start => StepOf(WQ)
           /\ \A t \in Threads :
                 work_arm(t) \/ alloc_index_failed(t) \/ comp_callback(t) => StepOf(t)
           /\ \A t \in Threads : comp_finish(t) \/ comp_test_and_clear(t) => StepOf(t)
<1>0. pc \in [Threads -> PCs] /\ frame \in [Threads -> Frames]
    BY DEF Inv, TypeInv, TypeOK, ThrType
<1>1. ASSUME NEW t, NEW p, Goto(t, p), UNCHANGED frame PROVE StepOf(t)
    BY <1>0, <1>1 DEF Goto, StepOf
<1>2. ASSUME NEW t, NEW p, NEW f, Goto(t, p), frame' = [frame EXCEPT ![t] = f] PROVE StepOf(t)
    BY <1>0, <1>2 DEF Goto, StepOf
<1>3. ASSUME NEW c \in Cmds, cmd_exec(c) \/ wait_canceled(c) PROVE StepOf(c)
  <2>1. UNCHANGED frame /\ \E p : Goto(c, p)
    BY Zenon, <1>3 DEF cmd_exec, wait_canceled
  <2> QED
    BY Zenon, <1>1, <2>1
<1>4. ASSUME work_start PROVE StepOf(WQ)
  <2>1. Goto(WQ, "w_down") /\ frame' = [frame EXCEPT ![WQ] = [@ EXCEPT !.ent = Head(queue)]]
    BY <1>4 DEF work_start
  <2> QED
    BY Zenon, <1>2, <2>1
<1>5. ASSUME NEW t \in Threads, alloc_index_failed(t) \/ comp_callback(t) PROVE StepOf(t)
  <2>1. UNCHANGED frame /\ \E p : Goto(t, p)
    BY Zenon, <1>5 DEF alloc_index_failed, comp_callback
  <2> QED
    BY Zenon, <1>1, <2>1
<1>6. ASSUME NEW t \in Threads, work_arm(t) PROVE StepOf(t)
  <2>1. Goto(t, "w_get") /\ frame' = [frame EXCEPT ![t] = [@ EXCEPT !.type = "EVENT"]]
    BY <1>6 DEF work_arm, Inv, ModeInv
  <2> QED
    BY Zenon, <1>2, <2>1
<1>7. ASSUME NEW t \in Threads, comp_finish(t) PROVE StepOf(t)
  <2>1. /\ \E p : Goto(t, p)
        /\ UNCHANGED frame \/ \E f : frame' = [frame EXCEPT ![t] = f]
    BY <1>7 DEF comp_finish
  <2> QED
    BY Zenon, <1>1, <1>2, <2>1
<1>8. ASSUME NEW t \in Threads, comp_test_and_clear(t) PROVE StepOf(t)
  <2> DEFINE c == ent_arr[frame[t].slot]
             next == IF Skips(t, c) THEN frame[t].back ELSE "c_timer"
  <2>1. \/ cmd_ent_put(t, c, next) \/ Enter(t, next)
        \/ Goto(t, next) /\ frame' = [frame EXCEPT ![t] = [@ EXCEPT !.ent = c]]
    BY Zenon, <1>8 DEF comp_test_and_clear
  <2> HIDE DEF c, next
  <2>2. \E p, f : Goto(t, p) /\ frame' = [frame EXCEPT ![t] = f]
    BY Zenon, <2>1 DEF cmd_ent_put, Enter
  <2> QED
    BY Zenon, <1>2, <2>2
<1> QED
    BY Zenon, <1>3, <1>4, <1>5, <1>6, <1>7, <1>8

\* Every step keeps the locals.
LEMMA StepCtxLocal ==
    ASSUME Inv, CtxInv, [Next]_vars
    PROVE  \A u \in Threads : CtxLocal(u)'
<1> DEFINE Locals == \A u \in Threads : CtxLocal(u)'
<1>0. /\ TypeInv /\ Cmds \subseteq Threads /\ MGR \in Threads /\ EQ \in Threads /\ WQ \in Threads
      /\ \A u \in Threads : CtxLocal(u)
    BY DEF Threads, Inv, CtxInv
<1>k. \A t \in Threads : Keeps(t) => StepOf(t)
    BY Zenon DEF Keeps
<1>1. ASSUME NEW c \in Cmds,
             \/ cmd_exec(c) \/ cmd_exec_rejected(c) \/ cmd_exec_nomem(c)
             \/ Serve(c) \/ Expire(c)
      PROVE  Locals
  <2>1. StepOf(c)
    BY Zenon, <1>0, <1>1, <1>k, QuietCaller, OwnSteps DEF Expire
  <2>2. CtxLocal(c)'
    BY Zenon, <1>0, <1>1, CtxCaller
  <2> QED
    BY Zenon, <1>0, <2>1, <2>2, OtherCtx
<1>2. ASSUME NEW t \in Threads, Work(t) PROVE Locals
  <2>1. StepOf(t)
    BY Zenon, <1>2, <1>k, QuietWork, OwnSteps DEF Work
  <2>2. CtxLocal(t)'
    BY Zenon, <1>0, <1>2, CtxWork
  <2> QED
    BY Zenon, <2>1, <2>2, OtherCtx
<1>3. ASSUME NEW t \in Threads, Comp(t) PROVE Locals
  <2>1. StepOf(t)
    BY Zenon, <1>3, <1>k, QuietComp, OwnSteps DEF Comp
  <2>2. CtxLocal(t)'
    BY Zenon, <1>0, <1>3, CtxComp
  <2> QED
    BY Zenon, <2>1, <2>2, OtherCtx
<1>4. ASSUME work_start PROVE Locals
    BY Zenon, <1>0, <1>4, OwnSteps, CtxOthers, OtherCtx
<1>5. ASSUME \E via \in {"irq", "recover"} : eq_take(via) PROVE Locals
    BY Zenon, <1>0, <1>5, <1>k, QuietDevice, CtxOthers, OtherCtx
<1>6. ASSUME Mgr PROVE Locals
    BY Zenon, <1>0, <1>6, <1>k, QuietMgr, CtxOthers, OtherCtx
<1>7. ASSUME UNCHANGED vars \/ \E s \in Slots : fw_complete(s) PROVE Locals
  <2>1. UNCHANGED <<pc, frame>>
    BY <1>7 DEF vars, thrVars, fw_complete
  <2> QED
    BY Zenon, <1>0, <2>1 DEF CtxLocal, CbPlace, InsideComp, cur
<1> QED
    BY Zenon, <1>1, <1>2, <1>3, <1>4, <1>5, <1>6, <1>7 DEF Next

\* Every step keeps the count.
LEMMA StepCtx == IsFiniteSet(Cmds) /\ Inv /\ CtxInv /\ [Next]_vars => CtxInv'
<1> SUFFICES ASSUME IsFiniteSet(Cmds), Inv, CtxInv, [Next]_vars PROVE CtxInv'
    OBVIOUS
<1> DEFINE Counts == CtxCount' /\ \A c \in Async : Live(c)' => res'[c] = "none"
<1>0. /\ TypeInv /\ Async \subseteq Cmds /\ Cmds \subseteq Threads
      /\ \A u \in Threads : CtxLocal(u)
    BY CmdIfAssumption DEF Threads, Inv, CtxInv
<1>1. \A d \in Cmds : Live(d)' => Live(d)
    BY Zenon, LiveShrinks
<1>2. UNCHANGED res => \A c \in Async : Live(c)' => res'[c] = "none"
    BY Zenon, <1>0, <1>1 DEF CtxInv
<1>3. SameCtx => Counts
    BY Zenon, <1>1, SameCount
<1>4. ASSUME NEW c \in Cmds,
             \/ cmd_exec(c) \/ cmd_exec_rejected(c) \/ cmd_exec_nomem(c)
             \/ Serve(c) \/ Expire(c)
      PROVE  Counts
  <2>1. CASE cmd_exec(c)
    BY Zenon, <1>0, <1>2, <2>1, CountExec
  <2>2. CASE cmd_exec_rejected(c) \/ cmd_exec_nomem(c)
    BY Zenon, <2>2, CountRejected
  <2>3. CASE Serve(c) \/ Expire(c)
    BY Zenon, <1>0, <1>3, <2>3, QuietCtxCaller
  <2> QED
    BY Zenon, <1>4, <2>1, <2>2, <2>3
<1>5. ASSUME NEW t \in Threads, Work(t) PROVE Counts
    BY Zenon, <1>0, <1>3, <1>5, QuietCtxWork, CountFinish
<1>6. ASSUME NEW t \in Threads, Comp(t) PROVE Counts
    BY Zenon, <1>0, <1>3, <1>6, QuietCtxComp, CountFinish, CallbackAsync
<1>7. ASSUME Mgr PROVE Counts
    BY Zenon, <1>0, <1>2, <1>3, <1>7, QuietCtxOthers, CountCleanup
<1>8. Counts
    BY Zenon, <1>0, <1>3, <1>4, <1>5, <1>6, <1>7, QuietCtxOthers DEF Next
<1>9. \A u \in Threads : CtxLocal(u)'
    BY Zenon, StepCtxLocal
<1> QED
    BY Zenon, <1>8, <1>9 DEF CtxInv

\* num_inflight reaches 0, which lets mlx5_cmd_cleanup_async_ctx return, only
\* when every asynchronous command that was issued has had its callback or was
\* turned away, for any number of commands.
THEOREM CleanupWaitsForAll ==
    IsFiniteSet(Cmds) /\ EventsOnly /\ Spec => []CleanupWaits
<1> SUFFICES ASSUME IsFiniteSet(Cmds), EventsOnly PROVE Spec => []CleanupWaits
    OBVIOUS
<1>1. Init => Inv /\ CtxInv
    BY Zenon, InitOnce, InitCtx
<1>2. Inv /\ CtxInv /\ [Next]_vars => Inv' /\ CtxInv'
    BY Zenon, StepOnce, StepCtx
<1>3. Inv /\ CtxInv => CleanupWaits
    BY Zenon, CtxWaits DEF Inv
<1> QED
    BY <1>1, <1>2, <1>3, PTL DEF Spec

=============================================================================
