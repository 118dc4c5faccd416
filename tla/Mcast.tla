------------------------------- MODULE Mcast -------------------------------
(***************************************************************************)
(* The multicast groups of a port (infiniband/core/multicast.c): many      *)
(* members of a group share one membership with the subnet administrator   *)
(* (SA).  Joins are queued in the group and served one at a time by        *)
(* mcast_work_handler, which runs in mcast_wq or in the callback of an SA  *)
(* query; group->state other than MCAST_IDLE means somebody serves it.     *)
(*                                                                         *)
(* Members and groups are addresses: a freed one may be allocated again.   *)
(* A free_multicast process stands for whichever thread calls              *)
(* ib_sa_free_multicast: its user, or the handler whose callback returned  *)
(* an error, which waits for it.  The fields of a member record other than *)
(* the MGID and the join state are not modelled, nor are P_Key indices:    *)
(* cmp_rec and the look-up of the P_Key have either outcome.               *)
(***************************************************************************)
EXTENDS Integers, Sequences, FiniteSets, SequencesExt

CONSTANTS
    Members, Groups,
    Types,      \* the membership types, bits of a join state
    JoinState,  \* the types a member asks for
    Mgids, Zero,\* MGIDs; Zero asks the SA to choose one
    Mgid,       \* the MGIDs a member may ask for
    MaxRetries, \* group->retries, 3 in the code
    MaxEvents,  \* bound on the port's events
    None

WQ == "mcast_wq"
SAT == "sa_callback"
Threads == {WQ, SAT}

ASSUME McastAssumption ==
    /\ JoinState \in [Members -> SUBSET Types \ {{}}]
    /\ Zero \in Mgids /\ Mgid \in [Members -> SUBSET Mgids]
    /\ MaxRetries \in Nat /\ MaxEvents \in Nat
    /\ None \notin Members \cup Groups \cup Threads

VARIABLES
    \* struct mcast_group, and the groups in port->table
    table, mgid, state, refcount, pending_list, active_list, members,
    join_state, query, retries,
    \* struct mcast_member, where its user is, who else called free_multicast
    group, rec_mgid, mstate, mref, upc, freer,
    \* mcast_wq, the two threads that run mcast_work_handler
    wq, pc, loc,
    \* the port: reference count, removal, work that flush_workqueue waits for
    port_ref, removing, flush,
    \* the SA: the port's memberships; a restart not yet reported; events so far
    sa, stale, events

groupVars == <<table, mgid, state, refcount, pending_list, active_list, members,
               join_state, query, retries>>
memberVars == <<group, rec_mgid, mstate, mref, upc, freer>>
threadVars == <<pc, loc>>
portVars == <<port_ref, removing>>
saVars == <<sa, stale, events>>
vars == <<groupVars, memberVars, wq, threadVars, portVars, flush, saVars>>

\* A query of the SA; for a join, mem is group->last_join; for a leave, js is
\* group->leave_state.
NoQuery == [kind |-> "none", mem |-> None, js |-> {}, mgid |-> Zero, phase |-> "none"]
NoLoc == [grp |-> None, mem |-> None, status |-> "ok"]

Init ==
    /\ table = {}
    /\ mgid = [g \in Groups |-> Zero]
    /\ state = [g \in Groups |-> "IDLE"]
    /\ refcount = [g \in Groups |-> 0]
    /\ pending_list = [g \in Groups |-> << >>]
    /\ active_list = [g \in Groups |-> << >>]
    /\ members = [g \in Groups |-> [t \in Types |-> 0]]
    /\ join_state = [g \in Groups |-> {}]
    /\ query = [g \in Groups |-> NoQuery]
    /\ retries = [g \in Groups |-> 0]
    /\ group = [m \in Members |-> None]
    /\ rec_mgid = [m \in Members |-> Zero]
    /\ mstate = [m \in Members |-> "JOINING"]
    /\ mref = [m \in Members |-> 0]
    /\ upc = [m \in Members |-> "out"]
    /\ freer = [m \in Members |-> None]
    /\ wq = << >>
    /\ pc = [t \in Threads |-> "idle"]
    /\ loc = [t \in Threads |-> NoLoc]
    /\ port_ref = 1 /\ removing = "no" /\ flush = 0
    /\ sa = [x \in Mgids |-> {}] /\ stale = FALSE /\ events = 0

-----------------------------------------------------------------------------
(* Helpers.                                                                *)

\* A join, a free or an event finds nobody serving the group, and queues its work.
NeedsServer_busy(g) == state[g] \in {"IDLE", "BUSY"}
NeedsServer(g) == state[g] = "IDLE"

\* queue_work does nothing when the work is already queued.
QueueWork(q, g) == IF Contains(q, g) THEN q ELSE Append(q, g)

adjust_membership(g, js, inc) ==
    members' = [members EXCEPT ![g] =
                   [t \in Types |-> IF t \in js THEN @[t] + inc ELSE @[t]]]

get_leave_state_last(g) == {t \in join_state[g] : members[g][t] <= 1}
get_leave_state(g) == {t \in join_state[g] : members[g][t] = 0}

\* mcast_insert: a group that finds its MGID taken is left out of the table.
mcast_insert(T, g, x) ==
    IF x # Zero /\ \E h \in T : mgid[h] = x THEN T ELSE T \cup {g}

\* release_group, with the deref_port that follows the last put.  A freed group
\* is cleared here, instead of by the kzalloc of the next one at its address.
release_group(g) ==
    /\ refcount' = [refcount EXCEPT ![g] = @ - 1]
    /\ IF refcount[g] = 1
       THEN /\ table' = table \ {g} /\ port_ref' = port_ref - 1
            /\ mgid' = [mgid EXCEPT ![g] = Zero]
            /\ join_state' = [join_state EXCEPT ![g] = {}]
            /\ retries' = [retries EXCEPT ![g] = 0]
       ELSE UNCHANGED <<table, port_ref, mgid, join_state, retries>>

\* mcast_work_handler returns.
Return(t) ==
    /\ pc' = [pc EXCEPT ![t] = "idle"]
    /\ loc' = [loc EXCEPT ![t] = NoLoc]
    /\ flush' = IF t = WQ /\ flush > 0 THEN flush - 1 ELSE flush

Goto(t, l) == pc' = [pc EXCEPT ![t] = l]
GotoMember(t, l, m, s) ==
    /\ Goto(t, l)
    /\ loc' = [loc EXCEPT ![t].mem = m, ![t].status = s]
\* Only process_group_error calls back with -ENETRESET.
AfterCallback(t) == IF loc[t].status = "reset" THEN "error" ELSE "top"

-----------------------------------------------------------------------------
(* A user joins.                                                           *)

\* mcast_find, or a new group that mcast_insert puts into the table.
acquire_group(m) ==
    /\ upc[m] = "out" /\ removing = "no"
    /\ \E g \in Groups, x \in Mgid[m] :
          /\ IF x # Zero /\ \E h \in table : mgid[h] = x
             THEN /\ g \in table /\ mgid[g] = x
                  /\ UNCHANGED <<table, mgid, retries, port_ref>>
             ELSE /\ refcount[g] = 0
                  /\ table' = table \cup {g}
                  /\ mgid' = [mgid EXCEPT ![g] = x]
                  /\ retries' = [retries EXCEPT ![g] = MaxRetries]
                  /\ port_ref' = port_ref + 1
          /\ refcount' = [refcount EXCEPT ![g] = @ + 1]
          /\ group' = [group EXCEPT ![m] = g]
          /\ rec_mgid' = [rec_mgid EXCEPT ![m] = x]
    /\ mref' = [mref EXCEPT ![m] = 1]
    /\ upc' = [upc EXCEPT ![m] = "queue"]
    /\ UNCHANGED <<state, pending_list, active_list, members, join_state, query, mstate, freer, wq, threadVars, removing, flush, saVars>>

queue_join(m) ==
    LET g == group[m] IN
    /\ upc[m] = "queue"
    /\ pending_list' = [pending_list EXCEPT ![g] = Append(@, m)]
    /\ IF NeedsServer(g)
       THEN /\ state' = [state EXCEPT ![g] = "BUSY"]
            /\ refcount' = [refcount EXCEPT ![g] = @ + 1]
            /\ wq' = QueueWork(wq, g)
       ELSE UNCHANGED <<state, refcount, wq>>
    /\ upc' = [upc EXCEPT ![m] = "in"]
    /\ UNCHANGED <<table, mgid, active_list, members, join_state, query, retries, group, rec_mgid, mstate, mref, freer,
                   threadVars, portVars, flush, saVars>>

-----------------------------------------------------------------------------
(* ib_sa_free_multicast, called by the user or by the handler.             *)

\* Only a member counts in group->members.
Counted_always(m) == TRUE
Counted(m) == mstate[m] = "MEMBER"

\* With the group idle the reference of the member becomes that of the work.
ib_sa_free_multicast(m) ==
    LET g == group[m] IN
    /\ upc[m] \in {"in", "free"}
    /\ IF Counted(m) THEN adjust_membership(g, JoinState[m], -1)
                               ELSE UNCHANGED members
    /\ pending_list' = [pending_list EXCEPT ![g] = Remove(@, m)]
    /\ active_list' = [active_list EXCEPT ![g] = Remove(@, m)]
    /\ state' = [state EXCEPT ![g] = IF NeedsServer(g) THEN "BUSY" ELSE @]
    /\ wq' = IF NeedsServer(g) THEN QueueWork(wq, g) ELSE wq
    /\ upc' = [upc EXCEPT ![m] = IF NeedsServer(g) THEN "f_wait" ELSE "f_rel"]
    /\ UNCHANGED <<table, mgid, refcount, join_state, query,
                   retries, group, rec_mgid, mstate, mref, freer,
                   threadVars, portVars, flush, saVars>>

free_release_group(m) ==
    /\ upc[m] = "f_rel"
    /\ release_group(group[m])
    /\ upc' = [upc EXCEPT ![m] = "f_wait"]
    /\ UNCHANGED <<state, pending_list, active_list, members, query, group, rec_mgid, mstate,
                   mref, freer, wq, threadVars, removing, flush, saVars>>

\* deref_member, wait_for_completion and kfree, and back to a handler that called.
FreeMayReturn_early(m) == mref[m] >= 1
FreeMayReturn(m) == mref[m] = 1

free_wait(m) ==
    /\ upc[m] = "f_wait" /\ FreeMayReturn(m)
    /\ mref' = [mref EXCEPT ![m] = 0]
    /\ upc' = [upc EXCEPT ![m] = "out"]
    /\ group' = [group EXCEPT ![m] = None]
    /\ rec_mgid' = [rec_mgid EXCEPT ![m] = Zero]
    /\ mstate' = [mstate EXCEPT ![m] = "JOINING"]
    /\ freer' = [freer EXCEPT ![m] = None]
    /\ IF freer[m] = None THEN UNCHANGED threadVars
       ELSE GotoMember(freer[m], AfterCallback(freer[m]), None, "ok")
    /\ UNCHANGED <<groupVars, wq, portVars, flush, saVars>>

-----------------------------------------------------------------------------
(* mcast_work_handler, in thread t.                                        *)

wq_start ==
    /\ pc[WQ] = "idle" /\ wq # << >>
    /\ Goto(WQ, "top")
    /\ loc' = [loc EXCEPT ![WQ].grp = Head(wq)]
    /\ wq' = Tail(wq)
    /\ UNCHANGED <<groupVars, memberVars, portVars, flush, saVars>>

join_group(g, m) ==
    /\ mstate' = [mstate EXCEPT ![m] = "MEMBER"]
    /\ adjust_membership(g, JoinState[m], 1)
    /\ pending_list' = [pending_list EXCEPT ![g] = Remove(@, m)]
    /\ active_list' = [active_list EXCEPT ![g] = <<m>> \o @]

\* The head of the pending list is already covered by the port's membership.
work_join(t) ==
    LET g == loc[t].grp  m == Head(pending_list[g]) IN
    /\ pc[t] = "top" /\ state[g] = "BUSY" /\ pending_list[g] # << >>
    /\ JoinState[m] \subseteq join_state[g]
    /\ mref' = [mref EXCEPT ![m] = @ + 1]
    /\ \/ join_group(g, m) /\ GotoMember(t, "cb", m, "ok")
       \/ /\ pending_list' = [pending_list EXCEPT ![g] = Tail(@)]
          /\ GotoMember(t, "cb", m, "err")
          /\ UNCHANGED <<mstate, members, active_list>>
    /\ UNCHANGED <<table, mgid, state, refcount, join_state, query,
                   retries, group, rec_mgid, upc, freer, wq, portVars,
                   flush, saVars>>

\* It is not: the lock is dropped for send_join; a failed one is fail_join.
send_join(t) ==
    LET g == loc[t].grp  m == Head(pending_list[g]) IN
    /\ pc[t] = "top" /\ state[g] = "BUSY" /\ pending_list[g] # << >>
    /\ ~(JoinState[m] \subseteq join_state[g])
    /\ mref' = [mref EXCEPT ![m] = @ + 1]
    /\ \/ /\ query' = [query EXCEPT ![g] = [kind |-> "join", mem |-> m, js |-> JoinState[m],
                                            mgid |-> rec_mgid[m], phase |-> "sent"]]
          /\ GotoMember(t, "sent", m, "ok")
          /\ UNCHANGED pending_list
       \/ /\ pending_list' = [pending_list EXCEPT ![g] = Tail(@)]
          /\ GotoMember(t, "cb", m, "err")
          /\ UNCHANGED query
    /\ UNCHANGED <<table, mgid, state, refcount, active_list, members, join_state,
                   retries, group, rec_mgid, mstate, upc, freer, wq, portVars, flush, saVars>>

\* deref_member and return: the query's callback goes on.
work_sent(t) ==
    /\ pc[t] = "sent"
    /\ mref' = [mref EXCEPT ![loc[t].mem] = @ - 1]
    /\ Return(t)
    /\ UNCHANGED <<groupVars, group, rec_mgid, mstate, upc, freer, wq, portVars, saVars>>

\* The callback and deref_member.  A callback that returns an error leaves the
\* member to the handler, which calls ib_sa_free_multicast; the user may do that
\* only if it has not called it already.
callback(t) ==
    LET m == loc[t].mem IN
    /\ pc[t] = "cb"
    /\ mref' = [mref EXCEPT ![m] = @ - 1]
    /\ \/ GotoMember(t, AfterCallback(t), None, "ok") /\ UNCHANGED <<upc, freer>>
       \/ /\ upc[m] = "in"
          /\ upc' = [upc EXCEPT ![m] = "free"]
          /\ freer' = [freer EXCEPT ![m] = t]
          /\ Goto(t, "freeing")
          /\ UNCHANGED loc
    /\ UNCHANGED <<groupVars, group, rec_mgid, mstate, wq, portVars, flush, saVars>>

LeaveQuery(g, js) == [kind |-> "leave", mem |-> None, js |-> js, mgid |-> mgid[g], phase |-> "sent"]

\* Nothing is pending: leave the types nobody uses.  A failed send_leave is not
\* repeated.
send_leave(t) ==
    LET g == loc[t].grp  js == get_leave_state(g) IN
    /\ pc[t] = "top" /\ state[g] = "BUSY" /\ pending_list[g] = << >> /\ js # {}
    /\ join_state' = [join_state EXCEPT ![g] = @ \ js]
    /\ \/ query' = [query EXCEPT ![g] = LeaveQuery(g, js)] /\ Return(t)
       \/ UNCHANGED <<query, threadVars, flush>>
    /\ UNCHANGED <<table, mgid, state, refcount, pending_list, active_list, members,
                   retries, memberVars, wq, portVars, saVars>>

work_idle(t) ==
    LET g == loc[t].grp IN
    /\ pc[t] = "top" /\ state[g] = "BUSY" /\ pending_list[g] = << >>
    /\ get_leave_state(g) = {}
    /\ state' = [state EXCEPT ![g] = "IDLE"]
    /\ Goto(t, "release")
    /\ UNCHANGED <<table, mgid, refcount, pending_list, active_list, members, join_state,
                   query, retries, memberVars, wq, loc, portVars, flush, saVars>>

work_release(t) ==
    /\ pc[t] = "release"
    /\ release_group(loc[t].grp)
    /\ Return(t)
    /\ UNCHANGED <<state, pending_list, active_list, members, query, memberVars, wq,
                   removing, saVars>>

-----------------------------------------------------------------------------
(* process_group_error, in thread t.                                       *)

\* ib_find_pkey found the P_Key where it was.
error_out(t) ==
    LET g == loc[t].grp IN
    /\ pc[t] = "top" /\ state[g] = "PKEY_EVENT"
    /\ state' = [state EXCEPT ![g] = "BUSY"]
    /\ Goto(t, "top")
    /\ UNCHANGED <<table, mgid, refcount, pending_list, active_list, members,
                   join_state, query, retries, memberVars,
                   wq, loc, portVars, flush, saVars>>

InError(t) ==
    \/ pc[t] = "error"
    \/ pc[t] = "top" /\ state[loc[t].grp] \in {"GROUP_ERROR", "PKEY_EVENT"}

error_member(t) ==
    LET g == loc[t].grp  m == Head(active_list[g]) IN
    /\ InError(t) /\ active_list[g] # << >>
    /\ mref' = [mref EXCEPT ![m] = @ + 1]
    /\ active_list' = [active_list EXCEPT ![g] = Tail(@)]
    /\ adjust_membership(g, JoinState[m], -1)
    /\ mstate' = [mstate EXCEPT ![m] = "ERROR"]
    /\ GotoMember(t, "cb", m, "reset")
    /\ UNCHANGED <<table, mgid, state, refcount, pending_list, join_state, query, retries, group, rec_mgid, upc, freer, wq,
                   portVars, flush, saVars>>

error_done(t) ==
    LET g == loc[t].grp IN
    /\ InError(t) /\ active_list[g] = << >>
    /\ join_state' = [join_state EXCEPT ![g] = {}]
    /\ state' = [state EXCEPT ![g] = "BUSY"]
    /\ Goto(t, "top")
    /\ UNCHANGED <<table, mgid, refcount, pending_list, active_list, members,
                   query, retries, memberVars, wq, loc,
                   portVars, flush, saVars>>

-----------------------------------------------------------------------------
(* The SA, external: a query is executed or not, and its answer arrives or *)
(* the query fails.  Nothing of a failed query reaches the SA later.  The  *)
(* SA chooses MGIDs that nobody asks for and that the port does not use.   *)

Unused(x) ==
    /\ x # Zero /\ \A m \in Members : x \notin Mgid[m]
    /\ \A g \in Groups : mgid[g] # x /\ query[g].mgid # x
    /\ sa[x] = {}
SaMgids(q) == IF q.mgid = Zero THEN {x \in Mgids : Unused(x)} ELSE {q.mgid}

sa_execute(g) ==
    LET q == query[g] IN
    /\ q.phase = "sent"
    /\ \E x \in SaMgids(q), p \in {"ok", "err"} :
          /\ sa' = [sa EXCEPT ![x] = IF q.kind = "join" THEN @ \cup q.js ELSE @ \ q.js]
          /\ query' = [query EXCEPT ![g] = [q EXCEPT !.js = IF q.kind = "join" THEN sa'[x] ELSE @,
                                                !.mgid = x, !.phase = p]]
    /\ UNCHANGED <<table, mgid, state, refcount, pending_list, active_list, members,
                   join_state, retries, memberVars, wq,
                   threadVars, portVars, flush, stale, events>>

sa_refuse(g) ==
    /\ query[g].phase = "sent"
    /\ query' = [query EXCEPT ![g].phase = "err"]
    /\ UNCHANGED <<table, mgid, state, refcount, pending_list, active_list, members,
                   join_state, retries, memberVars, wq,
                   threadVars, portVars, flush, saVars>>

\* The callback of a query of group g takes the SA's thread.
SaCallback(g, kind, phase) ==
    /\ pc[SAT] = "idle" /\ query[g].kind = kind /\ query[g].phase = phase

join_handler_ok(g) ==
    LET x == query[g].mgid IN
    /\ SaCallback(g, "join", "ok")
    /\ join_state' = [join_state EXCEPT ![g] = query[g].js]
    /\ mgid' = [mgid EXCEPT ![g] = x]
    /\ table' = IF x = mgid[g] THEN table ELSE mcast_insert(table \ {g}, g, x)
    /\ query' = [query EXCEPT ![g] = NoQuery]
    /\ Goto(SAT, "top")
    /\ loc' = [loc EXCEPT ![SAT].grp = g]
    /\ UNCHANGED <<state, refcount, pending_list, active_list, members, retries, memberVars, wq, portVars, flush, saVars>>

\* process_join_error: only the member whose join was sent, if it is still first.
StillFirst(g) ==
    pending_list[g] # << >> /\ Head(pending_list[g]) = query[g].mem

join_handler_error(g) ==
    LET m == Head(pending_list[g]) IN
    /\ SaCallback(g, "join", "err")
    /\ IF StillFirst(g)
       THEN /\ mref' = [mref EXCEPT ![m] = @ + 1]
            /\ pending_list' = [pending_list EXCEPT ![g] = Tail(@)]
            /\ Goto(SAT, "cb")
            /\ loc' = [loc EXCEPT ![SAT].grp = g, ![SAT].mem = m, ![SAT].status = "err"]
       ELSE /\ Goto(SAT, "top")
            /\ loc' = [loc EXCEPT ![SAT].grp = g]
            /\ UNCHANGED <<mref, pending_list>>
    /\ query' = [query EXCEPT ![g] = NoQuery]
    /\ UNCHANGED <<table, mgid, state, refcount, active_list, members, join_state,
                   retries, group, rec_mgid, mstate, upc, freer,
                   wq, portVars, flush, saVars>>

\* leave_handler sends the leave again while it has retries.
leave_handler_retry(g) ==
    /\ SaCallback(g, "leave", "err") /\ retries[g] > 0
    /\ query' = [query EXCEPT ![g] = LeaveQuery(g, query[g].js)]
    /\ retries' = [retries EXCEPT ![g] = @ - 1]
    /\ UNCHANGED <<table, mgid, state, refcount, pending_list, active_list, members,
                   join_state, memberVars, wq, threadVars,
                   portVars, flush, saVars>>

\* Left, out of retries, or send_leave failed.
leave_handler_done(g) ==
    /\ SaCallback(g, "leave", "ok") \/ SaCallback(g, "leave", "err")
    /\ query' = [query EXCEPT ![g] = NoQuery]
    /\ Goto(SAT, "top")
    /\ loc' = [loc EXCEPT ![SAT].grp = g]
    /\ UNCHANGED <<table, mgid, state, refcount, pending_list, active_list, members,
                   join_state, retries, memberVars, wq,
                   portVars, flush, saVars>>

\* The SA restarts without its records; IB_EVENT_CLIENT_REREGISTER follows.
sa_restart ==
    /\ removing = "no" /\ events < MaxEvents
    /\ sa' = [x \in Mgids |-> {}]
    /\ stale' = TRUE
    /\ events' = events + 1
    /\ UNCHANGED <<groupVars, memberVars, wq, threadVars, portVars, flush>>

-----------------------------------------------------------------------------
(* Events of the port, and its removal.                                    *)

\* atomic_inc(&group->refcount) for the work that an event queues.
EventTakesRef_not == 0
EventTakesRef == 1

mcast_groups_event(s) ==
    LET idle == {g \in table : NeedsServer(g)} IN
    /\ removing = "no"
    /\ \/ s = "GROUP_ERROR" /\ stale /\ UNCHANGED events
       \/ events < MaxEvents /\ events' = events + 1
    /\ stale' = (stale /\ s # "GROUP_ERROR")
    /\ refcount' = [g \in Groups |-> refcount[g] + IF g \in idle THEN EventTakesRef ELSE 0]
    /\ wq' = wq \o SetToSeq(idle \ Range(wq))
    /\ state' = [g \in Groups |-> IF g \in table /\ state[g] # "GROUP_ERROR"
                                  THEN s ELSE state[g]]
    /\ UNCHANGED <<table, mgid, pending_list, active_list, members, join_state,
                   query, retries, memberVars, threadVars,
                   portVars, flush, sa>>

\* mcast_remove_one: no more events, then flush_workqueue waits for what is queued.
\* Clients are removed in reverse order, so nobody joins any more.
mcast_remove_one ==
    /\ removing = "no"
    /\ \A m \in Members : upc[m] # "queue"
    /\ removing' = "flush"
    /\ flush' = Len(wq) + IF pc[WQ] = "idle" THEN 0 ELSE 1
    /\ UNCHANGED <<groupVars, memberVars, wq, threadVars, port_ref, saVars>>

remove_deref_port ==
    /\ removing = "flush" /\ flush = 0
    /\ removing' = "wait" /\ port_ref' = port_ref - 1
    /\ UNCHANGED <<groupVars, memberVars, wq, threadVars, flush, saVars>>

remove_wait ==
    /\ removing = "wait" /\ port_ref = 0
    /\ removing' = "done"
    /\ UNCHANGED <<groupVars, memberVars, wq, threadVars, port_ref, flush, saVars>>

-----------------------------------------------------------------------------
HandlerStep(t) ==
    \/ work_join(t) \/ send_join(t) \/ work_sent(t) \/ callback(t)
    \/ send_leave(t) \/ work_idle(t) \/ work_release(t)
    \/ error_out(t) \/ error_member(t) \/ error_done(t)

CallbackStep(g) ==
    \/ join_handler_ok(g) \/ join_handler_error(g)
    \/ leave_handler_retry(g) \/ leave_handler_done(g)

Next ==
    \/ \E m \in Members : \/ acquire_group(m) \/ queue_join(m) \/ ib_sa_free_multicast(m)
                          \/ free_release_group(m) \/ free_wait(m)
    \/ wq_start
    \/ \E t \in Threads : HandlerStep(t)
    \/ \E g \in Groups : sa_execute(g) \/ sa_refuse(g) \/ CallbackStep(g)
    \/ sa_restart
    \/ \E s \in {"GROUP_ERROR", "PKEY_EVENT"} : mcast_groups_event(s)
    \/ mcast_remove_one \/ remove_deref_port \/ remove_wait

Spec == Init /\ [][Next]_vars

-----------------------------------------------------------------------------
(* Properties.                                                             *)

Serves(t, g) == pc[t] # "idle" /\ loc[t].grp = g
Uses(t, m) == pc[t] \in {"sent", "cb", "freeing"} /\ loc[t].mem = m
HoldsGroup(m, g) == group[m] = g /\ upc[m] \in {"queue", "in", "free", "f_rel"}

\* The fields keep their types; in particular no reference count, and no count of the
\* members of a type, goes below zero.
TypeOK ==
    /\ table \subseteq Groups
    /\ state \in [Groups -> {"IDLE", "BUSY", "GROUP_ERROR", "PKEY_EVENT"}]
    /\ refcount \in [Groups -> Nat] /\ mref \in [Members -> Nat]
    /\ members \in [Groups -> [Types -> Nat]]
    /\ join_state \in [Groups -> SUBSET Types]
    /\ port_ref \in Nat

\* What group->state other than MCAST_IDLE stands for: the group has exactly one
\* server, which is a queued work, a running handler or a query of the SA.  An
\* idle group has none and needs none: no join waits in it, and the port has left
\* every type that has no member.
OneServer ==
    \A g \in table :
        LET n == Cardinality({i \in DOMAIN wq : wq[i] = g})
                 + Cardinality({t \in Threads : Serves(t, g) /\ pc[t] \notin {"sent", "release"}})
                 + IF query[g].phase # "none" THEN 1 ELSE 0
        IN  /\ n = IF state[g] = "IDLE" THEN 0 ELSE 1
            /\ state[g] = "IDLE" => pending_list[g] = << >> /\ get_leave_state(g) = {}

\* The reference count of a group counts its members' references and the one of
\* its server, and a group stays in port->table while it has any: nobody serves,
\* queues or asks the SA for a group that release_group has freed.
GroupRefs ==
    /\ \A g \in Groups :
          /\ g \in table => refcount[g] =
                Cardinality({m \in Members : HoldsGroup(m, g)})
                + Cardinality({t \in Threads : Serves(t, g) /\ pc[t] = "release"})
                + IF state[g] = "IDLE" THEN 0 ELSE 1
          /\ g \in table <=> refcount[g] > 0
          /\ g \notin table => /\ ~Contains(wq, g) /\ query[g].phase = "none"
                               /\ \A t \in Threads : Serves(t, g) => pc[t] = "sent"
    /\ port_ref = Cardinality(table) + IF removing \in {"wait", "done"} THEN 0 ELSE 1

\* ib_sa_free_multicast returns only when nobody will touch the member again: no
\* list has it, and no handler is about to call it back.
FreedQuietly ==
    \A m \in Members : upc[m] = "out" =>
        /\ \A t \in Threads : ~Uses(t, m)
        /\ \A g \in Groups : ~Contains(pending_list[g], m) /\ ~Contains(active_list[g], m)

\* The types of an active member are ones the SA has the port down for, although
\* members come and go while joins and leaves are under way: unless the SA has
\* restarted or an event says that the members must join again.
MemberIsJoined ==
    \A g \in table : \A i \in DOMAIN active_list[g] :
        \/ stale \/ state[g] = "GROUP_ERROR"
        \/ JoinState[active_list[g][i]] \subseteq sa[mgid[g]]

=============================================================================
