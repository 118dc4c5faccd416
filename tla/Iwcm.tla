-------------------------------- MODULE Iwcm --------------------------------
(***************************************************************************)
(* The iWARP connection manager (infiniband/core/iwcm.c).  Three parties   *)
(* share a cm_id: the client, which connects, listens, accepts, rejects,   *)
(* disconnects and destroys; the provider (the driver, external), which    *)
(* reports what happens to the connection through cm_event_handler; and    *)
(* the ordered work queue iwcm_wq, which runs cm_work_handler: it takes    *)
(* the events off work_list and calls the client back.                     *)
(*                                                                         *)
(* The elements of Ids are addresses: a freed cm_id may be allocated again *)
(* and an allocation with none left is -ENOMEM.  The client is a user of   *)
(* the interface as cma.c is one: it connects or listens once per cm_id,   *)
(* answers a request once, and does not use a cm_id that it destroyed or   *)
(* whose callback returned an error.  Addresses, the port mapper and       *)
(* private data are not modelled.                                          *)
(***************************************************************************)
EXTENDS Integers, Sequences, FiniteSets, Functions

CONSTANTS
    Ids,
    Connects, Listens, \* those that the client connects, and that it listens with
    Backlog,    \* the backlog of a listening cm_id
    None

ASSUME IwcmAssumption ==
    /\ Connects \subseteq Ids /\ Listens \subseteq Ids
    /\ None \notin Ids /\ Backlog \in Nat \ {0}

VARIABLES
    \* struct iwcm_id_private: state, IWCM_F_CONNECT_WAIT, IWCM_F_DROP_EVENTS, whether
    \* qp is set, the events on work_list, the number of works on work_free_list
    state, connect_wait, drop_events, refcount, qp, work_list, work_free,
    app,     \* what the client does with the cm_id
    dpc,     \* where a destroy_cm_id of it is: program counter, caller, its local qp
    qp_refs, \* references of cm_ids on the QP, by iw_add_ref and iw_rem_ref
    prov,    \* the provider's connection
    wq,      \* iwcm_wq: the cm_ids whose work is queued
    wk       \* cm_work_handler: program counter and locals

idVars == <<state, connect_wait, drop_events, refcount, qp, work_list, work_free>>
vars == <<idVars, app, dpc, qp_refs, prov, wq, wk>>

Idle == [pc |-> "idle", id |-> None, event |-> "none", empty |-> TRUE, child |-> None]
NoDestroy == [pc |-> "none", by |-> "app", qp |-> FALSE]

Init ==
    /\ state = [i \in Ids |-> "IDLE"]
    /\ connect_wait = [i \in Ids |-> FALSE] /\ drop_events = [i \in Ids |-> FALSE]
    /\ refcount = [i \in Ids |-> 0]
    /\ qp = [i \in Ids |-> FALSE] /\ qp_refs = [i \in Ids |-> 0]
    /\ work_list = [i \in Ids |-> << >>] /\ work_free = [i \in Ids |-> 0]
    /\ app = [i \in Ids |-> "none"] /\ dpc = [i \in Ids |-> NoDestroy]
    /\ prov = [i \in Ids |-> "none"]
    /\ wq = << >> /\ wk = Idle

-----------------------------------------------------------------------------
(* References and events.                                                  *)

\* n add_refs, or -n iwcm_deref_ids, of which the last one frees the cm_id: its fields
\* are cleared here instead of by the kzalloc of the next one at its address.
Refs(i, n, free) ==
    LET gone == refcount[i] + n = 0 IN
    /\ refcount' = [refcount EXCEPT ![i] = @ + n]
    /\ drop_events' = [drop_events EXCEPT ![i] = @ /\ ~gone]
    /\ work_free' = [work_free EXCEPT ![i] = IF gone THEN 0 ELSE free]

\* atomic_inc(&cm_id_priv->refcount) of an event.
EventRef_none == 0
EventRef == 1

\* The first event on work_list queues the work.
QueuesWork_always(i) == TRUE
QueuesWork(i) == work_list[i] = << >>

\* get_work finds work_free_list empty.
NoWork_never(i) == FALSE
NoWork(i) == work_free[i] = 0

\* An event that finds no free work is lost.  n is what the provider does to its own
\* reference after the event.
cm_event_handler(i, ev, n) ==
    IF NoWork(i)
    THEN Refs(i, n, work_free[i]) /\ UNCHANGED <<work_list, wq>>
    ELSE /\ Refs(i, EventRef + n, work_free[i] - 1)
         /\ work_list' = [work_list EXCEPT ![i] = Append(@, ev)]
         /\ wq' = IF QueuesWork(i) THEN Append(wq, i) ELSE wq

-----------------------------------------------------------------------------
(* The client.                                                             *)

iw_create_cm_id(i) ==
    /\ app[i] = "none" /\ refcount[i] = 0
    /\ refcount' = [refcount EXCEPT ![i] = 1]
    /\ state' = [state EXCEPT ![i] = "IDLE"]
    /\ app' = [app EXCEPT ![i] = "new"]
    /\ UNCHANGED <<connect_wait, drop_events, qp, work_list, work_free, dpc, qp_refs,
                   prov, wq, wk>>

\* The works are allocated; iw_create_listen fails or takes a reference.
iw_cm_listen(i) ==
    /\ app[i] = "new" /\ i \in Listens
    /\ work_free' = [work_free EXCEPT ![i] = Backlog]
    /\ app' = [app EXCEPT ![i] = "idle"]
    /\ \/ /\ state' = [state EXCEPT ![i] = "LISTEN"]
          /\ prov' = [prov EXCEPT ![i] = "listening"]
          /\ refcount' = [refcount EXCEPT ![i] = @ + 1]
       \/ UNCHANGED <<state, prov, refcount>>
    /\ UNCHANGED <<connect_wait, drop_events, qp, work_list, dpc, qp_refs, wq, wk>>

ActiveWorks == 4
PassiveWorks_short == 2
PassiveWorks == 3

\* Nobody else uses the cm_id until iw_connect, which takes a reference; an iw_connect
\* that fails restores the state, and so does a QP that is not found.
iw_cm_connect(i) ==
    /\ app[i] = "new" /\ i \in Connects
    /\ work_free' = [work_free EXCEPT ![i] = ActiveWorks]
    /\ app' = [app EXCEPT ![i] = "idle"]
    /\ \/ /\ state' = [state EXCEPT ![i] = "CONN_SENT"]
          /\ connect_wait' = [connect_wait EXCEPT ![i] = TRUE]
          /\ qp' = [qp EXCEPT ![i] = TRUE]
          /\ qp_refs' = [qp_refs EXCEPT ![i] = @ + 1]
          /\ prov' = [prov EXCEPT ![i] = "connecting"]
          /\ refcount' = [refcount EXCEPT ![i] = @ + 1]
       \/ UNCHANGED <<state, connect_wait, qp, qp_refs, prov, refcount>>
    /\ UNCHANGED <<drop_events, work_list, dpc, wq, wk>>

\* A request is accepted: iw_accept takes a reference, or fails; or the QP is not found.
iw_cm_accept(i) ==
    /\ app[i] = "request" /\ state[i] = "CONN_RECV"
    /\ \/ /\ connect_wait' = [connect_wait EXCEPT ![i] = TRUE]
          /\ qp' = [qp EXCEPT ![i] = TRUE]
          /\ qp_refs' = [qp_refs EXCEPT ![i] = @ + 1]
          /\ prov' = [prov EXCEPT ![i] = "accepted"]
          /\ refcount' = [refcount EXCEPT ![i] = @ + 1]
          /\ app' = [app EXCEPT ![i] = "idle"]
          /\ UNCHANGED state
       \/ /\ state' = [state EXCEPT ![i] = "IDLE"]
          /\ prov' = [prov EXCEPT ![i] = "none"]
          /\ app' = [app EXCEPT ![i] = "idle"]
          /\ UNCHANGED <<connect_wait, qp, qp_refs, refcount>>
    /\ UNCHANGED <<drop_events, work_list, work_free, dpc, wq, wk>>

iw_cm_reject(i) ==
    /\ app[i] = "request" /\ state[i] = "CONN_RECV"
    /\ state' = [state EXCEPT ![i] = "IDLE"]
    /\ prov' = [prov EXCEPT ![i] = "none"]
    /\ app' = [app EXCEPT ![i] = "idle"]
    /\ UNCHANGED <<connect_wait, drop_events, refcount, qp, work_list, work_free, dpc,
                   qp_refs, wq, wk>>

\* Waits while CONNECT_WAIT is set; the QP is modified after the lock is dropped.
MayPass_always(i) == TRUE
MayPass(i) == ~connect_wait[i]

iw_cm_disconnect(i) ==
    /\ app[i] = "idle" /\ MayPass(i)
    /\ state[i] = "ESTABLISHED"
    /\ state' = [state EXCEPT ![i] = "CLOSING"]
    /\ app' = [app EXCEPT ![i] = "modify"]
    /\ UNCHANGED <<connect_wait, drop_events, refcount, qp, work_list, work_free, dpc,
                   qp_refs, prov, wq, wk>>

\* To a QP in ERR or SQD the provider answers by closing its connection.
ModifyQp_not(i) == UNCHANGED prov
ModifyQp(i) ==
    prov' = [prov EXCEPT ![i] = IF @ = "connected" THEN "aborting" ELSE @]

disconnect_modify_qp(i) ==
    /\ app[i] = "modify"
    /\ ModifyQp(i)
    /\ app' = [app EXCEPT ![i] = "idle"]
    /\ UNCHANGED <<idVars, dpc, qp_refs, wq, wk>>

iw_destroy_cm_id(i) ==
    /\ app[i] \in {"new", "request", "idle"}
    /\ app' = [app EXCEPT ![i] = "destroy"]
    /\ dpc' = [dpc EXCEPT ![i] = [NoDestroy EXCEPT !.pc = "wait"]]
    /\ UNCHANGED <<idVars, qp_refs, prov, wq, wk>>

-----------------------------------------------------------------------------
(* destroy_cm_id, in the client's thread or in cm_work_handler.            *)

destroy_wait(i) ==
    /\ dpc[i].pc = "wait" /\ MayPass(i)
    /\ drop_events' = [drop_events EXCEPT ![i] = TRUE]
    /\ dpc' = [dpc EXCEPT ![i].pc = "lock"]
    /\ UNCHANGED <<state, connect_wait, refcount, qp, work_list, work_free, app, qp_refs,
                   prov, wq, wk>>

\* Under the lock; the local variable qp takes over the reference on the QP.
destroy_lock(i) ==
    /\ dpc[i].pc = "lock"
    /\ dpc' = [dpc EXCEPT ![i].pc = state[i], ![i].qp = qp[i]]
    /\ qp' = [qp EXCEPT ![i] = FALSE]
    /\ state' = [state EXCEPT ![i] = "DESTROYING"]
    /\ UNCHANGED <<connect_wait, drop_events, refcount, work_list, work_free, app, qp_refs,
                   prov, wq, wk>>

\* The call to the provider that the state asked for, the references on the QP and, last,
\* the reference of iw_create_cm_id (and the provider's, for a listening cm_id).
destroy_finish(i) ==
    LET s == dpc[i].pc IN
    /\ s \in {"LISTEN", "ESTABLISHED", "IDLE", "CLOSING", "CONN_RECV"}
    /\ CASE s = "ESTABLISHED" -> ModifyQp(i)
         [] s \in {"LISTEN", "CONN_RECV"} -> prov' = [prov EXCEPT ![i] = "none"]
         [] OTHER -> UNCHANGED prov
    /\ qp_refs' = [qp_refs EXCEPT ![i] = IF dpc[i].qp THEN @ - 1 ELSE @]
    /\ Refs(i, IF s = "LISTEN" THEN -2 ELSE -1, work_free[i])
    /\ dpc' = [dpc EXCEPT ![i] = NoDestroy]
    /\ IF dpc[i].by = "app" THEN app' = [app EXCEPT ![i] = "none"] /\ UNCHANGED wk
                            ELSE wk' = [wk EXCEPT !.pc = "deref"] /\ UNCHANGED app
    /\ UNCHANGED <<state, connect_wait, qp, work_list, wq>>

-----------------------------------------------------------------------------
(* The provider, external.  A connection that it began to set up is        *)
(* reported exactly once, then a DISCONNECT at most once, then one CLOSE,  *)
(* with which it drops its reference.                                      *)

\* A backlog that is used up, or no memory, and the provider rejects the request itself.
provider_request(i) ==
    /\ prov[i] = "listening"
    /\ cm_event_handler(i, "CONNECT_REQUEST", 0)
    /\ UNCHANGED <<state, connect_wait, qp, app, dpc, qp_refs, prov, wk>>

provider_reply(i) ==
    /\ prov[i] = "connecting"
    /\ \/ /\ cm_event_handler(i, "CONNECT_REPLY_OK", 0)
          /\ prov' = [prov EXCEPT ![i] = "connected"]
       \/ /\ cm_event_handler(i, "CONNECT_REPLY_ERR", -1)
          /\ prov' = [prov EXCEPT ![i] = "none"]
    /\ UNCHANGED <<state, connect_wait, qp, app, dpc, qp_refs, wk>>

provider_established(i) ==
    /\ prov[i] = "accepted"
    /\ cm_event_handler(i, "ESTABLISHED", 0)
    /\ prov' = [prov EXCEPT ![i] = "connected"]
    /\ UNCHANGED <<state, connect_wait, qp, app, dpc, qp_refs, wk>>

provider_disconnect(i) ==
    /\ prov[i] \in {"connected", "aborting"}
    /\ cm_event_handler(i, "DISCONNECT", 0)
    /\ prov' = [prov EXCEPT ![i] = "closing"]
    /\ UNCHANGED <<state, connect_wait, qp, app, dpc, qp_refs, wk>>

provider_close(i) ==
    /\ prov[i] \in {"connected", "aborting", "closing"}
    /\ cm_event_handler(i, "CLOSE", -1)
    /\ prov' = [prov EXCEPT ![i] = "none"]
    /\ UNCHANGED <<state, connect_wait, qp, app, dpc, qp_refs, wk>>

-----------------------------------------------------------------------------
(* cm_work_handler.                                                        *)

\* Started by iwcm_wq, or in its loop: the first event comes off the list and its work
\* goes back to the free list.
work_dequeue(i) ==
    /\ \/ wk.pc = "idle" /\ wq # << >> /\ i = Head(wq) /\ wq' = Tail(wq)
       \/ wk.pc = "loop" /\ i = wk.id /\ UNCHANGED wq
    /\ IF work_list[i] = << >> THEN wk' = Idle /\ UNCHANGED <<work_list, work_free>>
       ELSE /\ work_list' = [work_list EXCEPT ![i] = Tail(@)]
            /\ work_free' = [work_free EXCEPT ![i] = @ + 1]
            /\ wk' = [Idle EXCEPT !.pc = "test", !.id = i, !.event = Head(work_list[i]),
                                  !.empty = (Len(work_list[i]) = 1)]
    /\ UNCHANGED <<state, connect_wait, drop_events, refcount, qp, app, dpc, qp_refs, prov>>

work_test ==
    /\ wk.pc = "test"
    /\ wk' = [wk EXCEPT !.pc = IF drop_events[wk.id] THEN "deref" ELSE "process"]
    /\ UNCHANGED <<idVars, app, dpc, qp_refs, prov, wq>>

Processing(ev) == wk.pc = "process" /\ wk.event = ev

\* A new cm_id for the request: unless there is none, the listening one is going away, or
\* it has no works, when the new one is rejected and destroyed.
cm_conn_req_handler ==
    /\ Processing("CONNECT_REQUEST")
    /\ \/ \E c \in Ids :
             /\ refcount[c] = 0 /\ app[c] = "none" /\ state[wk.id] = "LISTEN"
             /\ refcount' = [refcount EXCEPT ![c] = 1]
             /\ state' = [state EXCEPT ![c] = "CONN_RECV"]
             /\ work_free' = [work_free EXCEPT ![c] = PassiveWorks]
             /\ prov' = [prov EXCEPT ![c] = "requested"]
             /\ wk' = [wk EXCEPT !.pc = "notify", !.child = c]
       \/ /\ wk' = [wk EXCEPT !.pc = "deref"]
          /\ UNCHANGED <<state, refcount, work_free, prov>>
    /\ UNCHANGED <<connect_wait, drop_events, qp, work_list, app, dpc, qp_refs, wq>>

\* The QP of a rejected connection is released before the callback.
cm_conn_rep_handler ==
    LET i == wk.id  ok == wk.event = "CONNECT_REPLY_OK" IN
    /\ Processing("CONNECT_REPLY_OK") \/ Processing("CONNECT_REPLY_ERR")
    /\ connect_wait' = [connect_wait EXCEPT ![i] = FALSE]
    /\ state' = [state EXCEPT ![i] = IF ok THEN "ESTABLISHED" ELSE "IDLE"]
    /\ qp' = [qp EXCEPT ![i] = ok /\ @]
    /\ qp_refs' = [qp_refs EXCEPT ![i] = IF ~ok /\ qp[i] THEN @ - 1 ELSE @]
    /\ wk' = [wk EXCEPT !.pc = "notify"]
    /\ UNCHANGED <<drop_events, refcount, work_list, work_free, app, dpc, prov, wq>>

cm_conn_est_handler ==
    /\ Processing("ESTABLISHED")
    /\ connect_wait' = [connect_wait EXCEPT ![wk.id] = FALSE]
    /\ state' = [state EXCEPT ![wk.id] = "ESTABLISHED"]
    /\ wk' = [wk EXCEPT !.pc = "notify"]
    /\ UNCHANGED <<drop_events, refcount, qp, work_list, work_free, app, dpc, qp_refs,
                   prov, wq>>

cm_disconnect_handler ==
    /\ Processing("DISCONNECT")
    /\ state' = [state EXCEPT ![wk.id] = IF @ = "ESTABLISHED" THEN "CLOSING" ELSE @]
    /\ wk' = [wk EXCEPT !.pc = "deref"]
    /\ UNCHANGED <<connect_wait, drop_events, refcount, qp, work_list, work_free, app, dpc,
                   qp_refs, prov, wq>>

\* cm_id_priv->qp = NULL: the reference on the QP is the handler's to release.
CloseTakesQp_not(i) == qp[i]
CloseTakesQp(i) == FALSE

cm_close_handler ==
    LET i == wk.id  notify_event == state[i] \in {"ESTABLISHED", "CLOSING"} IN
    /\ Processing("CLOSE")
    /\ qp' = [qp EXCEPT ![i] = CloseTakesQp(i)]
    /\ qp_refs' = [qp_refs EXCEPT ![i] = IF qp[i] THEN @ - 1 ELSE @]
    /\ state' = [state EXCEPT ![i] = IF notify_event THEN "IDLE" ELSE @]
    /\ wk' = [wk EXCEPT !.pc = IF notify_event THEN "notify" ELSE "deref"]
    /\ UNCHANGED <<connect_wait, drop_events, refcount, work_list, work_free, app, dpc,
                   prov, wq>>

\* The call of cm_handler; with a request the client gets to know the new cm_id.
work_notify ==
    /\ wk.pc = "notify"
    /\ wk' = [wk EXCEPT !.pc = "callback"]
    /\ app' = IF wk.child = None THEN app ELSE [app EXCEPT ![wk.child] = "request"]
    /\ UNCHANGED <<idVars, dpc, qp_refs, prov, wq>>

callback_ok ==
    /\ wk.pc = "callback"
    /\ wk' = [wk EXCEPT !.pc = "deref"]
    /\ UNCHANGED <<idVars, app, dpc, qp_refs, prov, wq>>

\* cm_handler returns an error: the cm_id is destroyed here.
callback_error ==
    /\ wk.pc = "callback" /\ wk.child = None /\ app[wk.id] = "idle"
    /\ app' = [app EXCEPT ![wk.id] = "none"]
    /\ dpc' = [dpc EXCEPT ![wk.id] = [pc |-> "wait", by |-> "wq", qp |-> FALSE]]
    /\ wk' = [wk EXCEPT !.pc = "destroying"]
    /\ UNCHANGED <<idVars, qp_refs, prov, wq>>

\* So is the cm_id of a request, after iw_cm_reject, before anybody else knows it.
callback_refuses ==
    LET c == wk.child IN
    /\ wk.pc = "callback" /\ c # None /\ app[c] = "request"
    /\ app' = [app EXCEPT ![c] = "none"]
    /\ Refs(c, -1, work_free[c])
    /\ state' = [state EXCEPT ![c] = "IDLE"]
    /\ prov' = [prov EXCEPT ![c] = "none"]
    /\ wk' = [wk EXCEPT !.pc = "deref"]
    /\ UNCHANGED <<connect_wait, qp, work_list, dpc, qp_refs, wq>>

work_deref ==
    LET i == wk.id IN
    /\ wk.pc = "deref"
    /\ Refs(i, -1, work_free[i])
    /\ wk' = IF refcount'[i] = 0 \/ wk.empty THEN Idle
           ELSE [Idle EXCEPT !.pc = "loop", !.id = i, !.empty = FALSE]
    /\ UNCHANGED <<state, connect_wait, qp, work_list, app, dpc, qp_refs, prov, wq>>

-----------------------------------------------------------------------------
Client(i) ==
    \/ iw_create_cm_id(i) \/ iw_cm_listen(i) \/ iw_cm_connect(i) \/ iw_cm_accept(i)
    \/ iw_cm_reject(i) \/ iw_cm_disconnect(i) \/ iw_destroy_cm_id(i)
Downcall(i) == disconnect_modify_qp(i) \/ destroy_wait(i) \/ destroy_lock(i) \/ destroy_finish(i)
Provider(i) ==
    \/ provider_request(i) \/ provider_reply(i) \/ provider_established(i)
    \/ provider_disconnect(i) \/ provider_close(i)
Worker ==
    \/ \E i \in Ids : work_dequeue(i)
    \/ work_test \/ cm_conn_req_handler \/ cm_conn_rep_handler \/ cm_conn_est_handler
    \/ cm_disconnect_handler \/ cm_close_handler \/ work_notify \/ callback_ok
    \/ callback_error \/ callback_refuses \/ work_deref

Next == Worker \/ \E i \in Ids : Client(i) \/ Downcall(i) \/ Provider(i)

\* iwcm_wq and the threads inside a downcall run; the provider answers iw_connect and
\* iw_accept, and closes a connection whose QP is in error or whose peer disconnected.
Fairness ==
    /\ WF_vars(Worker)
    /\ \A i \in Ids :
          /\ WF_vars(Downcall(i))
          /\ WF_vars(provider_reply(i) \/ provider_established(i))
          /\ WF_vars(prov[i] \in {"aborting", "closing"} /\ provider_close(i))

Spec == Init /\ [][Next]_vars /\ Fairness

-----------------------------------------------------------------------------
(* Properties.                                                             *)

\* The fields of a cm_id keep their types: the reference count never goes below zero, nor
\* does the number of free works.
TypeOK ==
    /\ state \in [Ids -> {"IDLE", "LISTEN", "CONN_RECV", "CONN_SENT", "ESTABLISHED",
                          "CLOSING", "DESTROYING"}]
    /\ refcount \in [Ids -> Nat] /\ work_free \in [Ids -> Nat]
    /\ Range(wq) \subseteq Ids

\* None of the BUG_ONs of iwcm.c is reached: the event that the handler is about to
\* process is one its state allows, destroy_cm_id and iw_cm_disconnect get past CONNECT_WAIT only in a
\* state they handle, and the last reference finds work_list empty.
NoBug ==
    /\ Processing("CONNECT_REPLY_OK") \/ Processing("CONNECT_REPLY_ERR")
          => state[wk.id] = "CONN_SENT"
    /\ Processing("ESTABLISHED") => state[wk.id] = "CONN_RECV"
    /\ Processing("CLOSE") => state[wk.id] \in {"ESTABLISHED", "CLOSING", "DESTROYING"}
    /\ \A i \in Ids :
          /\ dpc[i].pc = "lock" => state[i] \notin {"CONN_SENT", "DESTROYING"}
          /\ app[i] = "idle" /\ ~connect_wait[i] => state[i] \notin {"CONN_SENT", "DESTROYING"}
          /\ refcount[i] = 0 => work_list[i] = << >>

\* A cm_id lives as long as somebody uses it: its reference count is that of the client's
\* handle, the provider's connection, the events on work_list and the one the work handler
\* processes, and a freed one is with none of them.
RefCounts ==
    \A i \in Ids : refcount[i] =
        (IF app[i] # "none" \/ dpc[i].pc # "none" \/ (wk.pc = "notify" /\ wk.child = i) THEN 1 ELSE 0)
        + (IF prov[i] \in {"none", "requested"} THEN 0 ELSE 1)
        + Len(work_list[i])
        + (IF wk.pc \notin {"idle", "loop"} /\ wk.id = i THEN 1 ELSE 0)

\* The QP of a connection is released exactly once, whether the close event, a rejected
\* connection or destroy_cm_id comes first: it is held while cm_id_priv->qp or the local
\* variable of destroy_cm_id points to it, and at no other time.
QpRefs ==
    \A i \in Ids : qp_refs[i] = (IF qp[i] THEN 1 ELSE 0) + (IF dpc[i].qp THEN 1 ELSE 0)

\* The pre-allocated works suffice: an event of a connection always finds one, so it is
\* never lost.
WorksSuffice ==
    \A i \in Ids :
        prov[i] \in {"connecting", "accepted", "connected", "aborting", "closing"}
            => work_free[i] > 0

\* An event on work_list has cm_work_handler coming for it, exactly once: its cm_id is
\* queued once in iwcm_wq, or the handler will go round its loop again.
Scheduled ==
    \A i \in Ids :
        Cardinality({k \in DOMAIN wq : wq[k] = i})
        + (IF wk.id = i /\ ~wk.empty THEN 1 ELSE 0)
            = IF work_list[i] = << >> THEN 0 ELSE 1

\* A cm_id that the client destroys, or that a callback gives up, is freed in the end:
\* provided that cm_work_handler returns again and again, because while connection
\* requests arrive faster than it takes them it stays in the loop for their cm_id and the
\* events of every other one wait.
DestroyFrees ==
    []<>(wk.pc = "idle") => \A i \in Ids : dpc[i].pc # "none" ~> refcount[i] = 0

\* iw_cm.h of iw_destroy_cm_id: no callback for a cm_id is made after it returned.
NoEventAfterDestroy ==
    [][wk.pc = "notify" /\ wk'.pc = "callback" /\ wk.child = None => app[wk.id] # "none"]_vars
=============================================================================
