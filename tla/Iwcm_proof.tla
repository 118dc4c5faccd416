----------------------------- MODULE Iwcm_proof -----------------------------
(***************************************************************************)
(* The iWARP connection manager: the safety invariants of module Iwcm, for *)
(* any set of cm_ids and any backlog, from an inductive invariant.         *)
(*                                                                         *)
(* What the events of a connection still on their way (on work_list, or    *)
(* taken off it and not processed) say about its state is the heart of the *)
(* invariant: CONNECT_WAIT is set exactly until the first one of them is   *)
(* processed, and CLOSE is the last one.                                   *)
(***************************************************************************)
EXTENDS Iwcm, FiniteSetTheorems, TLAPS

States == {"IDLE", "LISTEN", "CONN_RECV", "CONN_SENT", "ESTABLISHED", "CLOSING", "DESTROYING"}
Events == {"CONNECT_REQUEST", "CONNECT_REPLY_OK", "CONNECT_REPLY_ERR", "ESTABLISHED",
           "DISCONNECT", "CLOSE"}
Firsts == {"CONNECT_REPLY_OK", "CONNECT_REPLY_ERR", "ESTABLISHED"}
Linked == {"connecting", "accepted", "connected", "aborting", "closing"}
Locked == {"LISTEN", "ESTABLISHED", "IDLE", "CLOSING", "CONN_RECV"}

Uses == {"none", "new", "idle", "request", "modify", "destroy"}
DestroyRecs == [pc : {"none", "wait", "lock"} \cup Locked, by : {"app", "wq"}, qp : BOOLEAN]
Provs == {"none", "listening", "requested"} \cup Linked
WorkRecs ==
    [pc : {"idle", "loop", "test", "process", "notify", "callback", "destroying", "deref"},
     id : Ids \cup {None}, event : Events \cup {"none"}, empty : BOOLEAN,
     child : Ids \cup {None}]

Types ==
    /\ state \in [Ids -> States] /\ app \in [Ids -> Uses]
    /\ connect_wait \in [Ids -> BOOLEAN] /\ drop_events \in [Ids -> BOOLEAN]
    /\ refcount \in [Ids -> Int] /\ qp_refs \in [Ids -> Int] /\ qp \in [Ids -> BOOLEAN]
    /\ work_list \in [Ids -> Seq(Events)] /\ work_free \in [Ids -> Nat]
    /\ dpc \in [Ids -> DestroyRecs] /\ prov \in [Ids -> Provs]
    /\ wq \in Seq(Ids) /\ wk \in WorkRecs

\* What the work handler has to do with a cm_id.
Busy(i) == wk.id = i /\ wk.pc \notin {"idle", "loop"}
Takes(i) == wk.id = i /\ wk.pc \in {"test", "process"}
Child(i) == wk.pc = "notify" /\ wk.child = i
Destroys(i) == wk.id = i /\ wk.pc = "destroying"

\* The number of events on work_list.
Queued(i) == Len(work_list[i])

\* An event of i is still to be processed.
Coming(i, evs) ==
    \/ Takes(i) /\ wk.event \in evs
    \/ \E k \in 1..Len(work_list[i]) : work_list[i][k] \in evs

\* Who has the cm_id, and what that says of its fields.
OwnerInv(i) ==
    /\ app[i] \in {"new", "request"} => ~qp[i] /\ ~connect_wait[i] /\ ~drop_events[i]
    /\ app[i] = "new" => state[i] = "IDLE" /\ prov[i] = "none"
    /\ app[i] = "request" => state[i] = "CONN_RECV" /\ prov[i] = "requested"
    /\ Child(i) => /\ app[i] = "none" /\ dpc[i].pc = "none"
                   /\ state[i] = "CONN_RECV" /\ prov[i] = "requested"
                   /\ ~qp[i] /\ ~connect_wait[i] /\ ~drop_events[i]
    /\ prov[i] = "requested" =>
          app[i] = "request" \/ Child(i) \/ dpc[i].pc \in {"wait", "lock", "CONN_RECV"}
    /\ dpc[i].pc = "none" <=> ~Destroys(i) /\ app[i] # "destroy"
    /\ Destroys(i) => app[i] = "none" /\ dpc[i].by = "wq"
    /\ app[i] = "destroy" => dpc[i].by = "app"
    /\ dpc[i].pc \in {"none", "wait", "lock"} => ~dpc[i].qp
    /\ qp[i] => app[i] \in {"idle", "modify"} \/ dpc[i].pc \in {"wait", "lock"}
    /\ refcount[i] = 0 => ~drop_events[i]

\* No event before the connection is set up, and then a bounded number of them.
EventBound(i) ==
    /\ app[i] \in {"new", "request"} \/ Child(i) \/ prov[i] \in {"requested", "connecting", "accepted"}
          => work_list[i] = << >> /\ ~Busy(i)
    /\ prov[i] \in {"connected", "aborting"} => Queued(i) <= 1
    /\ prov[i] = "closing" => Queued(i) <= 2
    /\ prov[i] \in Linked \cup {"requested"} => work_free[i] + Queued(i) >= 3

\* The first event of a connection comes before all others; CLOSE and a rejection are last.
ListOrder(i) ==
    /\ \A k \in 1..Len(work_list[i]) :
          /\ work_list[i][k] \in Firsts => k = 1 /\ ~Takes(i)
          /\ work_list[i][k] \in {"CLOSE", "CONNECT_REPLY_ERR"} => k = Len(work_list[i])
    /\ Takes(i) /\ wk.event \in {"CLOSE", "CONNECT_REPLY_ERR"} => work_list[i] = << >>

\* An event that is still to be processed finds the state that its handler expects.
EventState(i) ==
    /\ Coming(i, {"CLOSE", "CONNECT_REPLY_ERR"}) => prov[i] = "none"
    /\ Coming(i, {"CONNECT_REPLY_OK", "CONNECT_REPLY_ERR"}) \/ prov[i] = "connecting"
          => state[i] = "CONN_SENT" /\ connect_wait[i]
    /\ Coming(i, {"ESTABLISHED"}) \/ prov[i] = "accepted"
          => state[i] = "CONN_RECV" /\ connect_wait[i]
    /\ Coming(i, {"CLOSE"}) \/ prov[i] \in {"connected", "aborting", "closing"}
          => connect_wait[i] \/ state[i] \in {"ESTABLISHED", "CLOSING", "DESTROYING"}

\* CONNECT_WAIT is set while the first event is awaited, and nobody destroys meanwhile.
WaitInv(i) ==
    /\ connect_wait[i] => /\ prov[i] \in {"connecting", "accepted"} \/ Coming(i, Firsts)
                          /\ app[i] = "idle" \/ dpc[i].pc = "wait"
                          /\ ~drop_events[i]
    /\ state[i] = "CONN_SENT" => connect_wait[i]
    /\ state[i] = "CONN_RECV" => connect_wait[i] \/ prov[i] = "requested"
    /\ state[i] = "LISTEN" \/ dpc[i].pc = "LISTEN" => prov[i] = "listening"
    /\ dpc[i].pc = "CONN_RECV" => prov[i] = "requested"
    /\ prov[i] = "requested" => state[i] = "CONN_RECV" \/ dpc[i].pc = "CONN_RECV"
    /\ state[i] = "DESTROYING" => dpc[i].pc \in Locked \cup {"none"} /\ app[i] \in {"none", "destroy"}
    /\ dpc[i].pc \in Locked => state[i] = "DESTROYING"

\* cm_work_handler is queued once for the events of a cm_id, or loops.
QueueInv ==
    /\ \A k, l \in 1..Len(wq) : wq[k] = wq[l] => k = l
    /\ \A k \in 1..Len(wq) : work_list[wq[k]] # << >> /\ (wk.id = wq[k] => wk.empty)
    /\ \A i \in Ids : /\ wk.id = i /\ ~wk.empty => work_list[i] # << >>
                      /\ work_list[i] # << >> =>
                            (\E k \in 1..Len(wq) : wq[k] = i) \/ (wk.id = i /\ ~wk.empty)
    /\ wk.pc = "idle" => wk = Idle
    /\ wk.pc # "idle" => wk.id \in Ids
    /\ wk.pc = "loop" => ~wk.empty
    /\ wk.pc = "notify" => wk.child # wk.id
    /\ wk.pc \in {"idle", "loop", "test", "process"} => wk.child = None

\* The references on a cm_id, and those that it has on its QP.
Handle(i) == app[i] # "none" \/ dpc[i].pc # "none" \/ Child(i)
CountInv(i) ==
    /\ refcount[i] = (IF Handle(i) THEN 1 ELSE 0)
                     + (IF prov[i] \in {"none", "requested"} THEN 0 ELSE 1)
                     + Queued(i) + (IF Busy(i) THEN 1 ELSE 0)
    /\ qp_refs[i] = (IF qp[i] THEN 1 ELSE 0) + (IF dpc[i].qp THEN 1 ELSE 0)

FieldInv(i) == OwnerInv(i) /\ EventBound(i) /\ EventState(i) /\ WaitInv(i) /\ CountInv(i)
IdInv(i) == FieldInv(i) /\ ListOrder(i)

IwcmInv == Types /\ QueueInv /\ \A i \in Ids : IdInv(i)

-----------------------------------------------------------------------------
(* What a step leaves alone.                                               *)

\* The fields of a cm_id, and what the work handler has to do with it.
SameFields(j) ==
    /\ state'[j] = state[j] /\ connect_wait'[j] = connect_wait[j]
    /\ drop_events'[j] = drop_events[j] /\ refcount'[j] = refcount[j] /\ qp'[j] = qp[j]
    /\ work_list'[j] = work_list[j] /\ work_free'[j] = work_free[j]
    /\ app'[j] = app[j] /\ dpc'[j] = dpc[j] /\ prov'[j] = prov[j] /\ qp_refs'[j] = qp_refs[j]
SameWork(j) ==
    /\ (Busy(j)' <=> Busy(j)) /\ (Takes(j)' <=> Takes(j)) /\ (Destroys(j)' <=> Destroys(j))
    /\ (Child(j)' <=> Child(j))
    /\ Takes(j) => wk'.event = wk.event

\* The numbers that a cm_id holds are numbers.
LEMMA Numbers ==
    ASSUME Types, NEW i \in Ids
    PROVE  /\ refcount[i] \in Int /\ qp_refs[i] \in Int /\ work_free[i] \in Nat
           /\ work_list[i] \in Seq(Events) /\ Queued(i) \in Nat
           /\ Queued(i) = Len(work_list[i]) /\ (Queued(i) = 0 <=> work_list[i] = << >>)
BY DEF Types, Queued

\* Nothing is coming for a cm_id with no events.
LEMMA Quiet ==
    ASSUME Types, NEW i \in Ids, work_list[i] = << >>, ~Busy(i)
    PROVE  \A evs : ~Coming(i, evs)
BY DEF Coming, Takes, Busy

\* Nobody has to do with a cm_id whose reference count is zero.
LEMMA Unreferenced ==
    ASSUME Types, NEW i \in Ids, IdInv(i), refcount[i] = 0
    PROVE  /\ app[i] = "none" /\ dpc[i].pc = "none" /\ ~Child(i) /\ ~Busy(i) /\ ~Destroys(i)
           /\ prov[i] = "none" /\ work_list[i] = << >> /\ Queued(i) = 0
           /\ ~qp[i] /\ ~connect_wait[i] /\ ~drop_events[i] /\ ~dpc[i].qp /\ qp_refs[i] = 0
           /\ \A evs : ~Coming(i, evs)
<1>1. /\ app[i] = "none" /\ dpc[i].pc = "none" /\ ~Child(i) /\ ~Busy(i)
      /\ prov[i] \in {"none", "requested"} /\ Queued(i) = 0
  BY Numbers DEF IdInv, FieldInv, CountInv, Handle
<1>2. ~Destroys(i) /\ ~Takes(i)
  BY Zenon, <1>1 DEF Destroys, Takes, Busy
<1>3. prov[i] = "none" /\ ~qp[i] /\ ~drop_events[i] /\ ~dpc[i].qp
  BY Zenon, <1>1 DEF IdInv, FieldInv, OwnerInv
<1>4. ~connect_wait[i] /\ qp_refs[i] = 0
  BY <1>1, <1>3 DEF IdInv, FieldInv, WaitInv, CountInv
<1> QED BY Zenon, <1>1, <1>2, <1>3, <1>4, Numbers, Quiet

\* A cm_id that was created, or that a request brought, and not used yet.
LEMMA Fresh ==
    ASSUME Types, NEW i \in Ids, IdInv(i), app[i] \in {"new", "request"}
    PROVE  /\ dpc[i].pc = "none" /\ ~Child(i) /\ ~Busy(i) /\ ~Destroys(i)
           /\ work_list[i] = << >> /\ Queued(i) = 0 /\ refcount[i] = 1
           /\ ~qp[i] /\ ~connect_wait[i] /\ ~drop_events[i] /\ ~dpc[i].qp /\ qp_refs[i] = 0
           /\ \A evs : ~Coming(i, evs)
           /\ app[i] = "new" => state[i] = "IDLE" /\ prov[i] = "none"
           /\ app[i] = "request" => /\ state[i] = "CONN_RECV" /\ prov[i] = "requested"
                                    /\ work_free[i] >= 3
<1>1. /\ ~Child(i) /\ ~qp[i] /\ ~connect_wait[i] /\ ~drop_events[i]
      /\ app[i] = "new" => state[i] = "IDLE" /\ prov[i] = "none"
      /\ app[i] = "request" => state[i] = "CONN_RECV" /\ prov[i] = "requested"
  BY Zenon DEF IdInv, FieldInv, OwnerInv
<1>2. /\ work_list[i] = << >> /\ Queued(i) = 0 /\ ~Busy(i)
      /\ app[i] = "request" => work_free[i] >= 3
  BY <1>1, Numbers DEF IdInv, FieldInv, EventBound
<1>3. dpc[i].pc = "none" /\ ~dpc[i].qp /\ ~Destroys(i)
  BY Zenon, <1>2 DEF IdInv, FieldInv, OwnerInv, Destroys, Busy
<1>4. refcount[i] = 1 /\ qp_refs[i] = 0
  BY <1>1, <1>2, <1>3 DEF IdInv, FieldInv, CountInv, Handle
<1> QED BY Zenon, <1>1, <1>2, <1>3, <1>4, Quiet

\* A cm_id that a step does not touch keeps its invariant.
LEMMA IdFrame ==
    ASSUME NEW j \in Ids, IdInv(j), SameFields(j), SameWork(j)
    PROVE  IdInv(j)'
<1>1. \A evs : Coming(j, evs)' <=> Coming(j, evs)
  BY Zenon DEF Coming, SameFields, SameWork
<1>2. OwnerInv(j)'
  BY DEF OwnerInv, IdInv, FieldInv, SameFields, SameWork
<1>3. EventBound(j)'
  BY Zenon DEF EventBound, Queued, IdInv, FieldInv, SameFields, SameWork
<1>4. EventState(j)'
  BY Zenon, <1>1 DEF EventState, IdInv, FieldInv, SameFields
<1>5. WaitInv(j)'
  BY <1>1 DEF WaitInv, IdInv, FieldInv, SameFields
<1>6. CountInv(j)'
  BY Zenon DEF CountInv, Queued, Handle, IdInv, FieldInv, SameFields, SameWork
<1>7. ListOrder(j)'
  BY Zenon DEF ListOrder, IdInv, SameFields, SameWork
<1> QED BY Zenon, <1>2, <1>3, <1>4, <1>5, <1>6, <1>7 DEF IdInv, FieldInv

\* A step that does not touch the work handler, the events or the queue.
LEMMA WorkFrame ==
    ASSUME UNCHANGED <<wk, wq, work_list>>, NEW i \in Ids
    PROVE  /\ QueueInv => QueueInv'
           /\ SameWork(i) /\ Queued(i)' = Queued(i)
           /\ \A evs : Coming(i, evs)' <=> Coming(i, evs)
           /\ ListOrder(i) => ListOrder(i)'
BY Zenon DEF Queued, QueueInv, SameWork, Busy, Takes, Destroys, Child, Coming, Idle, ListOrder

\* A step that touches the fields of one cm_id need only keep the invariant of that one.
LEMMA OneId ==
    ASSUME IwcmInv, NEW i \in Ids,
           \A j \in Ids : j # i => SameFields(j) /\ SameWork(j),
           Types', QueueInv', FieldInv(i)', ListOrder(i)'
    PROVE  IwcmInv'
<1>1. ASSUME NEW j \in Ids, j # i PROVE IdInv(j)'
  BY Zenon, <1>1, IdFrame DEF IwcmInv
<1> QED BY Zenon, <1>1 DEF IwcmInv, IdInv

\* The same for one that does not touch the work handler, the events or the queue.
LEMMA OneIdQuiet ==
    ASSUME IwcmInv, UNCHANGED <<wk, wq, work_list>>, NEW i \in Ids,
           \A j \in Ids : j # i => SameFields(j), Types', FieldInv(i)'
    PROVE  IwcmInv'
<1>1. QueueInv' /\ ListOrder(i)' /\ \A j \in Ids : SameWork(j)
  BY Zenon, WorkFrame DEF IwcmInv, IdInv
<1> QED BY Zenon, <1>1, OneId

-----------------------------------------------------------------------------
(* The client.                                                             *)

\* iw_create_cm_id allocates a cm_id that nobody refers to.
LEMMA Step_iw_create_cm_id ==
    ASSUME IwcmInv, NEW i \in Ids, iw_create_cm_id(i)
    PROVE  IwcmInv'
<1>1. Types /\ QueueInv /\ IdInv(i)
  BY Zenon DEF IwcmInv
<1>2. Types'
  <2>1. state' \in [Ids -> States]
    BY Zenon, <1>1 DEF Types, States, iw_create_cm_id
  <2>2. app' \in [Ids -> Uses]
    BY Zenon, <1>1 DEF Types, Uses, iw_create_cm_id
  <2>3. refcount' \in [Ids -> Int]
    BY <1>1 DEF Types, iw_create_cm_id
  <2> QED BY Zenon, <1>1, <2>1, <2>2, <2>3 DEF Types, iw_create_cm_id
<1>3. /\ app[i] = "none" /\ refcount[i] = 0
      /\ state'[i] = "IDLE" /\ app'[i] = "new" /\ refcount'[i] = 1
      /\ UNCHANGED <<connect_wait, drop_events, qp, work_list, work_free, dpc,
                     qp_refs, prov, wq, wk>>
  BY Zenon, <1>1 DEF Types, DestroyRecs, iw_create_cm_id
<1>4. \A j \in Ids : j # i => SameFields(j)
  BY Zenon, <1>1 DEF SameFields, Types, iw_create_cm_id
<1> HIDE DEF iw_create_cm_id
<1>5. SameWork(i) /\ Queued(i)' = Queued(i) /\ \A evs : Coming(i, evs)' <=> Coming(i, evs)
  BY Zenon, <1>3, WorkFrame
<1>6. /\ dpc[i].pc = "none" /\ ~Child(i) /\ ~Busy(i) /\ ~Destroys(i)
      /\ work_list[i] = << >> /\ Queued(i) = 0 /\ ~qp[i] /\ ~connect_wait[i]
      /\ ~drop_events[i] /\ ~dpc[i].qp /\ qp_refs[i] = 0 /\ \A evs : ~Coming(i, evs)
      /\ prov[i] = "none"
  BY Zenon, <1>1, <1>3, Unreferenced, Numbers
<1>7. OwnerInv(i)'
  BY Zenon, <1>3, <1>5, <1>6 DEF OwnerInv, SameWork
<1>8. EventBound(i)'
  BY Zenon, <1>3, <1>5, <1>6 DEF EventBound, SameWork, Linked
<1>9. EventState(i)'
  BY Zenon, <1>3, <1>5, <1>6 DEF EventState
<1>10. WaitInv(i)'
  BY Zenon, <1>3, <1>5, <1>6 DEF WaitInv, Locked
<1>11. CountInv(i)'
  BY <1>3, <1>5, <1>6 DEF CountInv, Handle, SameWork
<1> QED
  BY Zenon, <1>2, <1>3, <1>4, <1>7, <1>8, <1>9, <1>10, <1>11, OneIdQuiet DEF FieldInv

\* iw_cm_listen, and the provider's reference if it succeeds.
LEMMA Step_iw_cm_listen ==
    ASSUME IwcmInv, NEW i \in Ids, iw_cm_listen(i)
    PROVE  IwcmInv'
<1>1. Types /\ QueueInv /\ IdInv(i)
  BY Zenon DEF IwcmInv
<1>2. Types'
  <2>1. state' \in [Ids -> States]
    BY Zenon, <1>1 DEF Types, States, iw_cm_listen
  <2>2. app' \in [Ids -> Uses]
    BY Zenon, <1>1 DEF Types, Uses, iw_cm_listen
  <2>3. refcount' \in [Ids -> Int]
    BY <1>1 DEF Types, iw_cm_listen
  <2>4. work_free' \in [Ids -> Nat]
    BY Zenon, <1>1, IwcmAssumption DEF Types, iw_cm_listen
  <2>5. prov' \in [Ids -> Provs]
    BY Zenon, <1>1 DEF Types, Provs, Linked, iw_cm_listen
  <2> QED BY Zenon, <1>1, <2>1, <2>2, <2>3, <2>4, <2>5 DEF Types, iw_cm_listen
<1>3. /\ app[i] = "new" /\ app'[i] = "idle" /\ work_free'[i] = Backlog
      /\ \/ /\ state'[i] = "LISTEN" /\ prov'[i] = "listening"
            /\ refcount'[i] = refcount[i] + 1
         \/ UNCHANGED <<state, prov, refcount>>
      /\ UNCHANGED <<connect_wait, drop_events, qp, work_list, dpc, qp_refs, wq,
                     wk>>
  BY <1>1 DEF Types, DestroyRecs, iw_cm_listen
<1>4. \A j \in Ids : j # i => SameFields(j)
  BY <1>1 DEF SameFields, Types, iw_cm_listen
<1> HIDE DEF iw_cm_listen
<1>5. SameWork(i) /\ Queued(i)' = Queued(i) /\ \A evs : Coming(i, evs)' <=> Coming(i, evs)
  BY Zenon, <1>3, WorkFrame
<1>6. /\ state[i] = "IDLE" /\ prov[i] = "none" /\ refcount[i] = 1
      /\ dpc[i].pc = "none" /\ ~Child(i) /\ ~Busy(i) /\ ~Destroys(i)
      /\ work_list[i] = << >> /\ Queued(i) = 0 /\ ~qp[i] /\ ~connect_wait[i]
      /\ ~drop_events[i] /\ ~dpc[i].qp /\ qp_refs[i] = 0 /\ \A evs : ~Coming(i, evs)
  BY Zenon, <1>1, <1>3, Fresh, Numbers
<1>7. OwnerInv(i)'
  BY Zenon, <1>3, <1>5, <1>6 DEF OwnerInv, SameWork
<1>8. EventBound(i)'
  BY Zenon, <1>3, <1>5, <1>6 DEF EventBound, SameWork, Linked
<1>9. EventState(i)'
  BY Zenon, <1>3, <1>5, <1>6 DEF EventState
<1>10. WaitInv(i)'
  BY Zenon, <1>3, <1>5, <1>6 DEF WaitInv, Locked
<1>11. CountInv(i)'
  BY <1>3, <1>5, <1>6 DEF CountInv, Handle, SameWork
<1> QED
  BY Zenon, <1>2, <1>3, <1>4, <1>7, <1>8, <1>9, <1>10, <1>11, OneIdQuiet DEF FieldInv

\* iw_cm_connect: CONNECT_WAIT, the QP and the provider's reference come together.
LEMMA Step_iw_cm_connect ==
    ASSUME IwcmInv, NEW i \in Ids, iw_cm_connect(i)
    PROVE  IwcmInv'
<1>1. Types /\ QueueInv /\ IdInv(i)
  BY Zenon DEF IwcmInv
<1>2. Types'
  <2>1. state' \in [Ids -> States]
    BY Zenon, <1>1 DEF Types, States, iw_cm_connect, ActiveWorks
  <2>2. app' \in [Ids -> Uses]
    BY Zenon, <1>1 DEF Types, Uses, iw_cm_connect, ActiveWorks
  <2>3. connect_wait' \in [Ids -> BOOLEAN]
    BY Zenon, <1>1 DEF Types, iw_cm_connect, ActiveWorks
  <2>4. refcount' \in [Ids -> Int]
    BY <1>1 DEF Types, iw_cm_connect, ActiveWorks
  <2>5. qp_refs' \in [Ids -> Int]
    BY <1>1 DEF Types, iw_cm_connect, ActiveWorks
  <2>6. qp' \in [Ids -> BOOLEAN]
    BY Zenon, <1>1 DEF Types, iw_cm_connect, ActiveWorks
  <2>7. work_free' \in [Ids -> Nat]
    BY Zenon, <1>1 DEF Types, iw_cm_connect, ActiveWorks
  <2>8. prov' \in [Ids -> Provs]
    BY Zenon, <1>1 DEF Types, Provs, Linked, iw_cm_connect, ActiveWorks
  <2> QED BY Zenon, <1>1, <2>1, <2>2, <2>3, <2>4, <2>5, <2>6, <2>7, <2>8 DEF Types, iw_cm_connect, ActiveWorks
<1>3. /\ app[i] = "new" /\ app'[i] = "idle" /\ work_free'[i] = 4
      /\ \/ /\ state'[i] = "CONN_SENT" /\ prov'[i] = "connecting" /\ connect_wait'[i] /\ qp'[i]
            /\ refcount'[i] = refcount[i] + 1 /\ qp_refs'[i] = qp_refs[i] + 1
         \/ UNCHANGED <<state, connect_wait, qp, qp_refs, prov, refcount>>
      /\ UNCHANGED <<drop_events, work_list, dpc, wq, wk>>
  BY <1>1 DEF Types, DestroyRecs, iw_cm_connect, ActiveWorks
<1>4. \A j \in Ids : j # i => SameFields(j)
  BY <1>1 DEF SameFields, Types, iw_cm_connect, ActiveWorks
<1> HIDE DEF iw_cm_connect
<1>5. SameWork(i) /\ Queued(i)' = Queued(i) /\ \A evs : Coming(i, evs)' <=> Coming(i, evs)
  BY Zenon, <1>3, WorkFrame
<1>6. /\ state[i] = "IDLE" /\ prov[i] = "none" /\ refcount[i] = 1
      /\ dpc[i].pc = "none" /\ ~Child(i) /\ ~Busy(i) /\ ~Destroys(i)
      /\ work_list[i] = << >> /\ Queued(i) = 0 /\ ~qp[i] /\ ~connect_wait[i]
      /\ ~drop_events[i] /\ ~dpc[i].qp /\ qp_refs[i] = 0 /\ \A evs : ~Coming(i, evs)
  BY Zenon, <1>1, <1>3, Fresh, Numbers
<1>7. OwnerInv(i)'
  BY Zenon, <1>3, <1>5, <1>6 DEF OwnerInv, SameWork
<1>8. EventBound(i)'
  BY <1>3, <1>5, <1>6 DEF EventBound, SameWork, Linked
<1>9. EventState(i)'
  BY Zenon, <1>3, <1>5, <1>6 DEF EventState
<1>10. WaitInv(i)'
  BY Zenon, <1>3, <1>5, <1>6 DEF WaitInv, Locked
<1>11. CountInv(i)'
  BY <1>3, <1>5, <1>6 DEF CountInv, Handle, SameWork
<1> QED
  BY Zenon, <1>2, <1>3, <1>4, <1>7, <1>8, <1>9, <1>10, <1>11, OneIdQuiet DEF FieldInv

\* iw_cm_accept of a request, or its failure.
LEMMA Step_iw_cm_accept ==
    ASSUME IwcmInv, NEW i \in Ids, iw_cm_accept(i)
    PROVE  IwcmInv'
<1>1. Types /\ QueueInv /\ IdInv(i)
  BY Zenon DEF IwcmInv
<1>2. Types'
  <2>1. state' \in [Ids -> States]
    <3>1. state' = state \/ state' = [state EXCEPT ![i] = "IDLE"]
      BY Zenon DEF iw_cm_accept
    <3> QED BY Zenon, <1>1, <3>1 DEF Types, States
  <2>2. app' \in [Ids -> Uses]
    <3>1. app' = [app EXCEPT ![i] = "idle"]
      BY Zenon DEF iw_cm_accept
    <3> QED BY Zenon, <1>1, <3>1 DEF Types, Uses
  <2>3. connect_wait' \in [Ids -> BOOLEAN]
    BY Zenon, <1>1 DEF Types, iw_cm_accept
  <2>4. refcount' \in [Ids -> Int]
    BY <1>1 DEF Types, iw_cm_accept
  <2>5. qp_refs' \in [Ids -> Int]
    BY <1>1 DEF Types, iw_cm_accept
  <2>6. qp' \in [Ids -> BOOLEAN]
    BY Zenon, <1>1 DEF Types, iw_cm_accept
  <2>7. prov' \in [Ids -> Provs]
    BY Zenon, <1>1 DEF Types, Provs, Linked, iw_cm_accept
  <2> QED BY Zenon, <1>1, <2>1, <2>2, <2>3, <2>4, <2>5, <2>6, <2>7 DEF Types, iw_cm_accept
<1>3. /\ app[i] = "request" /\ app'[i] = "idle"
      /\ \/ /\ prov'[i] = "accepted" /\ connect_wait'[i] /\ qp'[i] /\ UNCHANGED state
            /\ refcount'[i] = refcount[i] + 1 /\ qp_refs'[i] = qp_refs[i] + 1
         \/ /\ state'[i] = "IDLE" /\ prov'[i] = "none"
            /\ UNCHANGED <<connect_wait, qp, qp_refs, refcount>>
      /\ UNCHANGED <<drop_events, work_list, work_free, dpc, wq, wk>>
  BY <1>1 DEF Types, DestroyRecs, iw_cm_accept
<1>4. \A j \in Ids : j # i => SameFields(j)
  BY <1>1 DEF SameFields, Types, iw_cm_accept
<1> HIDE DEF iw_cm_accept
<1>5. SameWork(i) /\ Queued(i)' = Queued(i) /\ \A evs : Coming(i, evs)' <=> Coming(i, evs)
  BY Zenon, <1>3, WorkFrame
<1>6. /\ state[i] = "CONN_RECV" /\ prov[i] = "requested" /\ refcount[i] = 1
      /\ work_free[i] >= 3 /\ work_free[i] \in Nat
      /\ dpc[i].pc = "none" /\ ~Child(i) /\ ~Busy(i) /\ ~Destroys(i)
      /\ work_list[i] = << >> /\ Queued(i) = 0 /\ ~qp[i] /\ ~connect_wait[i]
      /\ ~drop_events[i] /\ ~dpc[i].qp /\ qp_refs[i] = 0 /\ \A evs : ~Coming(i, evs)
  BY Zenon, <1>1, <1>3, Fresh, Numbers
<1>7. OwnerInv(i)'
  BY Zenon, <1>3, <1>5, <1>6 DEF OwnerInv, SameWork
<1>8. EventBound(i)'
  BY <1>3, <1>5, <1>6 DEF EventBound, SameWork, Linked
<1>9. EventState(i)'
  BY Zenon, <1>3, <1>5, <1>6 DEF EventState
<1>10. WaitInv(i)'
  BY Zenon, <1>3, <1>5, <1>6 DEF WaitInv, Locked
<1>11. CountInv(i)'
  BY <1>3, <1>5, <1>6 DEF CountInv, Handle, SameWork
<1> QED
  BY Zenon, <1>2, <1>3, <1>4, <1>7, <1>8, <1>9, <1>10, <1>11, OneIdQuiet DEF FieldInv

\* iw_cm_reject of a request.
LEMMA Step_iw_cm_reject ==
    ASSUME IwcmInv, NEW i \in Ids, iw_cm_reject(i)
    PROVE  IwcmInv'
<1>1. Types /\ QueueInv /\ IdInv(i)
  BY Zenon DEF IwcmInv
<1>2. Types'
  <2>1. state' \in [Ids -> States]
    BY Zenon, <1>1 DEF Types, States, iw_cm_reject
  <2>2. app' \in [Ids -> Uses]
    BY Zenon, <1>1 DEF Types, Uses, iw_cm_reject
  <2>3. prov' \in [Ids -> Provs]
    BY Zenon, <1>1 DEF Types, Provs, Linked, iw_cm_reject
  <2> QED BY Zenon, <1>1, <2>1, <2>2, <2>3 DEF Types, iw_cm_reject
<1>3. /\ app[i] = "request" /\ app'[i] = "idle" /\ state'[i] = "IDLE" /\ prov'[i] = "none"
      /\ UNCHANGED <<connect_wait, drop_events, refcount, qp, work_list,
                     work_free, dpc, qp_refs, wq, wk>>
  BY Zenon, <1>1 DEF Types, DestroyRecs, iw_cm_reject
<1>4. \A j \in Ids : j # i => SameFields(j)
  BY Zenon, <1>1 DEF SameFields, Types, iw_cm_reject
<1> HIDE DEF iw_cm_reject
<1>5. SameWork(i) /\ Queued(i)' = Queued(i) /\ \A evs : Coming(i, evs)' <=> Coming(i, evs)
  BY Zenon, <1>3, WorkFrame
<1>6. /\ state[i] = "CONN_RECV" /\ prov[i] = "requested" /\ refcount[i] = 1
      /\ work_free[i] >= 3 /\ work_free[i] \in Nat
      /\ dpc[i].pc = "none" /\ ~Child(i) /\ ~Busy(i) /\ ~Destroys(i)
      /\ work_list[i] = << >> /\ Queued(i) = 0 /\ ~qp[i] /\ ~connect_wait[i]
      /\ ~drop_events[i] /\ ~dpc[i].qp /\ qp_refs[i] = 0 /\ \A evs : ~Coming(i, evs)
  BY Zenon, <1>1, <1>3, Fresh, Numbers
<1>7. OwnerInv(i)'
  BY Zenon, <1>3, <1>5, <1>6 DEF OwnerInv, SameWork
<1>8. EventBound(i)'
  BY Zenon, <1>3, <1>5, <1>6 DEF EventBound, SameWork, Linked
<1>9. EventState(i)'
  BY Zenon, <1>3, <1>5, <1>6 DEF EventState
<1>10. WaitInv(i)'
  BY Zenon, <1>3, <1>5, <1>6 DEF WaitInv, Locked
<1>11. CountInv(i)'
  BY <1>3, <1>5, <1>6 DEF CountInv, Handle, SameWork
<1> QED
  BY Zenon, <1>2, <1>3, <1>4, <1>7, <1>8, <1>9, <1>10, <1>11, OneIdQuiet DEF FieldInv

\* iw_cm_disconnect after CONNECT_WAIT.
LEMMA Step_iw_cm_disconnect ==
    ASSUME IwcmInv, NEW i \in Ids, iw_cm_disconnect(i)
    PROVE  IwcmInv'
<1>1. Types /\ QueueInv /\ IdInv(i)
  BY Zenon DEF IwcmInv
<1>2. Types'
  <2>1. state' \in [Ids -> States]
    BY Zenon, <1>1 DEF Types, States, iw_cm_disconnect, MayPass
  <2>2. app' \in [Ids -> Uses]
    BY Zenon, <1>1 DEF Types, Uses, iw_cm_disconnect, MayPass
  <2> QED BY Zenon, <1>1, <2>1, <2>2 DEF Types, iw_cm_disconnect, MayPass
<1>3. /\ app[i] = "idle" /\ app'[i] = "modify" /\ ~connect_wait[i]
      /\ state[i] = "ESTABLISHED" /\ state'[i] = "CLOSING"
      /\ UNCHANGED <<connect_wait, drop_events, refcount, qp, work_list,
                     work_free, dpc, qp_refs, prov, wq, wk>>
  BY Zenon, <1>1 DEF Types, DestroyRecs, iw_cm_disconnect, MayPass
<1>4. \A j \in Ids : j # i => SameFields(j)
  BY Zenon, <1>1 DEF SameFields, Types, iw_cm_disconnect, MayPass
<1> HIDE DEF iw_cm_disconnect
<1>5. SameWork(i) /\ Queued(i)' = Queued(i) /\ \A evs : Coming(i, evs)' <=> Coming(i, evs)
  BY Zenon, <1>3, WorkFrame
<1>6. /\ OwnerInv(i) /\ EventBound(i) /\ EventState(i) /\ WaitInv(i) /\ CountInv(i)
      /\ app[i] # "none" \/ dpc[i].pc # "none" => ~Child(i) /\ refcount[i] # 0
  BY <1>1, Numbers DEF IdInv, FieldInv, OwnerInv, CountInv, Handle
<1>7. OwnerInv(i)'
  BY Zenon, <1>3, <1>5, <1>6 DEF OwnerInv, WaitInv, SameWork, Locked
<1>8. EventBound(i)'
  BY Zenon, <1>1, <1>3, <1>5, <1>6, Numbers DEF EventBound, SameWork, Linked
<1>9. EventState(i)'
  BY Zenon, <1>3, <1>5, <1>6 DEF EventState, OwnerInv, WaitInv
<1>10. WaitInv(i)'
  BY Zenon, <1>3, <1>5, <1>6 DEF WaitInv, OwnerInv, Locked
<1>11. CountInv(i)'
  BY Zenon, <1>1, <1>3, <1>5, <1>6, Numbers DEF CountInv, Handle, SameWork, OwnerInv, Locked
<1> QED
  BY Zenon, <1>2, <1>3, <1>4, <1>7, <1>8, <1>9, <1>10, <1>11, OneIdQuiet DEF FieldInv

\* The provider is told to close the connection.
LEMMA Step_disconnect_modify_qp ==
    ASSUME IwcmInv, NEW i \in Ids, disconnect_modify_qp(i)
    PROVE  IwcmInv'
<1>1. Types /\ QueueInv /\ IdInv(i)
  BY Zenon DEF IwcmInv
<1>2. Types'
  <2>1. app' \in [Ids -> Uses]
    BY Zenon, <1>1 DEF Types, Uses, disconnect_modify_qp, ModifyQp, idVars
  <2>2. prov' \in [Ids -> Provs]
    BY Zenon, <1>1 DEF Types, Provs, Linked, disconnect_modify_qp, ModifyQp, idVars
  <2> QED BY Zenon, <1>1, <2>1, <2>2 DEF Types, disconnect_modify_qp, ModifyQp, idVars
<1>3. /\ app[i] = "modify" /\ app'[i] = "idle"
      /\ prov'[i] = IF prov[i] = "connected" THEN "aborting" ELSE prov[i]
      /\ UNCHANGED <<state, connect_wait, drop_events, refcount, qp, work_list,
                     work_free, dpc, qp_refs, wq, wk>>
  BY Zenon, <1>1 DEF Types, DestroyRecs, disconnect_modify_qp, ModifyQp, idVars
<1>4. \A j \in Ids : j # i => SameFields(j)
  BY Zenon, <1>1 DEF SameFields, Types, disconnect_modify_qp, ModifyQp, idVars
<1> HIDE DEF disconnect_modify_qp
<1>5. SameWork(i) /\ Queued(i)' = Queued(i) /\ \A evs : Coming(i, evs)' <=> Coming(i, evs)
  BY Zenon, <1>3, WorkFrame
<1>6. /\ OwnerInv(i) /\ EventBound(i) /\ EventState(i) /\ WaitInv(i) /\ CountInv(i)
      /\ app[i] # "none" \/ dpc[i].pc # "none" => ~Child(i) /\ refcount[i] # 0
  BY <1>1, Numbers DEF IdInv, FieldInv, OwnerInv, CountInv, Handle
<1>7. OwnerInv(i)'
  BY Zenon, <1>3, <1>5, <1>6 DEF OwnerInv, WaitInv, SameWork, Locked
<1>8. EventBound(i)'
  BY Zenon, <1>1, <1>3, <1>5, <1>6, Numbers DEF EventBound, SameWork, Linked
<1>9. EventState(i)'
  BY Zenon, <1>3, <1>5, <1>6 DEF EventState, OwnerInv, WaitInv
<1>10. WaitInv(i)'
  BY Zenon, <1>3, <1>5, <1>6 DEF WaitInv, OwnerInv, Locked
<1>11. CountInv(i)'
  BY Zenon, <1>1, <1>3, <1>5, <1>6, Numbers DEF CountInv, Handle, SameWork, OwnerInv, Locked
<1> QED
  BY Zenon, <1>2, <1>3, <1>4, <1>7, <1>8, <1>9, <1>10, <1>11, OneIdQuiet DEF FieldInv

\* iw_destroy_cm_id begins.
LEMMA Step_iw_destroy_cm_id ==
    ASSUME IwcmInv, NEW i \in Ids, iw_destroy_cm_id(i)
    PROVE  IwcmInv'
<1>1. Types /\ QueueInv /\ IdInv(i)
  BY Zenon DEF IwcmInv
<1>2. Types'
  <2>1. app' \in [Ids -> Uses]
    BY Zenon, <1>1 DEF Types, Uses, iw_destroy_cm_id, NoDestroy, idVars
  <2>2. dpc' \in [Ids -> DestroyRecs]
    BY Zenon, <1>1 DEF Types, DestroyRecs, Locked, iw_destroy_cm_id, NoDestroy, idVars
  <2> QED BY Zenon, <1>1, <2>1, <2>2 DEF Types, iw_destroy_cm_id, NoDestroy, idVars
<1>3. /\ app[i] \in {"new", "request", "idle"} /\ app'[i] = "destroy"
      /\ dpc'[i].pc = "wait" /\ dpc'[i].by = "app" /\ ~dpc'[i].qp
      /\ UNCHANGED <<state, connect_wait, drop_events, refcount, qp, work_list,
                     work_free, qp_refs, prov, wq, wk>>
  BY Zenon, <1>1 DEF Types, DestroyRecs, iw_destroy_cm_id, NoDestroy, idVars
<1>4. \A j \in Ids : j # i => SameFields(j)
  BY Zenon, <1>1 DEF SameFields, Types, iw_destroy_cm_id, NoDestroy, idVars
<1> HIDE DEF iw_destroy_cm_id
<1>5. SameWork(i) /\ Queued(i)' = Queued(i) /\ \A evs : Coming(i, evs)' <=> Coming(i, evs)
  BY Zenon, <1>3, WorkFrame
<1>6. /\ OwnerInv(i) /\ EventBound(i) /\ EventState(i) /\ WaitInv(i) /\ CountInv(i)
      /\ app[i] # "none" \/ dpc[i].pc # "none" => ~Child(i) /\ refcount[i] # 0
  BY <1>1, Numbers DEF IdInv, FieldInv, OwnerInv, CountInv, Handle
<1>7. OwnerInv(i)'
  BY Zenon, <1>3, <1>5, <1>6 DEF OwnerInv, WaitInv, SameWork, Locked
<1>8. EventBound(i)'
  BY Zenon, <1>1, <1>3, <1>5, <1>6, Numbers DEF EventBound, SameWork, Linked
<1>9. EventState(i)'
  BY Zenon, <1>3, <1>5, <1>6 DEF EventState, OwnerInv, WaitInv
<1>10. WaitInv(i)'
  BY Zenon, <1>3, <1>5, <1>6 DEF WaitInv, OwnerInv, Locked
<1>11. CountInv(i)'
  BY Zenon, <1>1, <1>3, <1>5, <1>6, Numbers DEF CountInv, Handle, SameWork, OwnerInv, Locked
<1> QED
  BY Zenon, <1>2, <1>3, <1>4, <1>7, <1>8, <1>9, <1>10, <1>11, OneIdQuiet DEF FieldInv

\* destroy_cm_id gets past CONNECT_WAIT.
LEMMA Step_destroy_wait ==
    ASSUME IwcmInv, NEW i \in Ids, destroy_wait(i)
    PROVE  IwcmInv'
<1>1. Types /\ QueueInv /\ IdInv(i)
  BY Zenon DEF IwcmInv
<1>2. Types'
  <2>1. drop_events' \in [Ids -> BOOLEAN]
    BY Zenon, <1>1 DEF Types, destroy_wait, MayPass
  <2>2. dpc' \in [Ids -> DestroyRecs]
    <3>1. dpc[i] \in DestroyRecs /\ dpc' = [dpc EXCEPT ![i].pc = "lock"]
      BY Zenon, <1>1 DEF Types, destroy_wait, MayPass
    <3>2. [dpc[i] EXCEPT !.pc = "lock"] \in DestroyRecs
      BY Zenon, <3>1 DEF DestroyRecs
    <3> QED BY Zenon, <1>1, <3>1, <3>2 DEF Types
  <2> QED BY Zenon, <1>1, <2>1, <2>2 DEF Types, destroy_wait, MayPass
<1>3. /\ dpc[i].pc = "wait" /\ dpc'[i].pc = "lock" /\ ~connect_wait[i] /\ drop_events'[i]
      /\ dpc'[i].by = dpc[i].by /\ dpc'[i].qp = dpc[i].qp
      /\ UNCHANGED <<state, connect_wait, refcount, qp, work_list, work_free,
                     app, qp_refs, prov, wq, wk>>
  BY <1>1 DEF Types, DestroyRecs, destroy_wait, MayPass
<1>4. \A j \in Ids : j # i => SameFields(j)
  BY Zenon, <1>1 DEF SameFields, Types, destroy_wait, MayPass
<1> HIDE DEF destroy_wait
<1>5. SameWork(i) /\ Queued(i)' = Queued(i) /\ \A evs : Coming(i, evs)' <=> Coming(i, evs)
  BY Zenon, <1>3, WorkFrame
<1>6. /\ OwnerInv(i) /\ EventBound(i) /\ EventState(i) /\ WaitInv(i) /\ CountInv(i)
      /\ app[i] # "none" \/ dpc[i].pc # "none" => ~Child(i) /\ refcount[i] # 0
  BY <1>1, Numbers DEF IdInv, FieldInv, OwnerInv, CountInv, Handle
<1>7. OwnerInv(i)'
  BY Zenon, <1>3, <1>5, <1>6 DEF OwnerInv, WaitInv, SameWork, Locked
<1>8. EventBound(i)'
  BY Zenon, <1>1, <1>3, <1>5, <1>6, Numbers DEF EventBound, SameWork, Linked
<1>9. EventState(i)'
  BY Zenon, <1>3, <1>5, <1>6 DEF EventState, OwnerInv, WaitInv
<1>10. WaitInv(i)'
  BY Zenon, <1>3, <1>5, <1>6 DEF WaitInv, OwnerInv, Locked
<1>11. CountInv(i)'
  BY Zenon, <1>1, <1>3, <1>5, <1>6, Numbers DEF CountInv, Handle, SameWork, OwnerInv, Locked
<1> QED
  BY Zenon, <1>2, <1>3, <1>4, <1>7, <1>8, <1>9, <1>10, <1>11, OneIdQuiet DEF FieldInv

\* destroy_cm_id takes the state and the QP over.
LEMMA Step_destroy_lock ==
    ASSUME IwcmInv, NEW i \in Ids, destroy_lock(i)
    PROVE  IwcmInv'
<1>1. Types /\ QueueInv /\ IdInv(i)
  BY Zenon DEF IwcmInv
<1>0. state[i] \in Locked
  BY Zenon, <1>1 DEF Types, States, Locked, IdInv, FieldInv, WaitInv, OwnerInv, destroy_lock
<1>2. Types'
  <2>1. state' \in [Ids -> States]
    BY Zenon, <1>1 DEF Types, States, destroy_lock
  <2>2. qp' \in [Ids -> BOOLEAN]
    BY Zenon, <1>1 DEF Types, destroy_lock
  <2>3. dpc' \in [Ids -> DestroyRecs]
    <3>1. [dpc[i] EXCEPT !.pc = state[i], !.qp = qp[i]] \in DestroyRecs
      BY Zenon, <1>1, <1>0 DEF Types, DestroyRecs
    <3>2. dpc' = [dpc EXCEPT ![i] = [dpc[i] EXCEPT !.pc = state[i], !.qp = qp[i]]]
      BY Zenon, <1>1 DEF Types, DestroyRecs, destroy_lock
    <3> QED BY Zenon, <1>1, <3>1, <3>2 DEF Types
  <2> QED BY Zenon, <1>1, <2>1, <2>2, <2>3 DEF Types, destroy_lock
<1>3. /\ dpc[i].pc = "lock" /\ dpc'[i].pc = state[i] /\ state'[i] = "DESTROYING"
      /\ dpc'[i].by = dpc[i].by /\ dpc'[i].qp = qp[i] /\ ~qp'[i]
      /\ UNCHANGED <<connect_wait, drop_events, refcount, work_list, work_free,
                     app, qp_refs, prov, wq, wk>>
  BY <1>1 DEF Types, DestroyRecs, destroy_lock
<1>4. \A j \in Ids : j # i => SameFields(j)
  BY <1>1 DEF SameFields, Types, destroy_lock
<1> HIDE DEF destroy_lock
<1>5. SameWork(i) /\ Queued(i)' = Queued(i) /\ \A evs : Coming(i, evs)' <=> Coming(i, evs)
  BY Zenon, <1>3, WorkFrame
<1>6. /\ OwnerInv(i) /\ EventBound(i) /\ EventState(i) /\ WaitInv(i) /\ CountInv(i)
      /\ app[i] # "none" \/ dpc[i].pc # "none" => ~Child(i) /\ refcount[i] # 0
  BY <1>1, Numbers DEF IdInv, FieldInv, OwnerInv, CountInv, Handle
<1>7. OwnerInv(i)'
  BY Zenon, <1>3, <1>0, <1>5, <1>6 DEF OwnerInv, WaitInv, SameWork, Locked
<1>8. EventBound(i)'
  BY Zenon, <1>1, <1>3, <1>5, <1>6, Numbers DEF EventBound, SameWork, Linked
<1>9. EventState(i)'
  BY Zenon, <1>3, <1>5, <1>6 DEF EventState, OwnerInv, WaitInv
<1>10. WaitInv(i)'
  BY Zenon, <1>3, <1>0, <1>5, <1>6 DEF WaitInv, OwnerInv, Locked
<1>11. CountInv(i)'
  BY <1>1, <1>3, <1>0, <1>5, <1>6, Numbers DEF CountInv, Handle, SameWork, OwnerInv, Locked
<1> QED
  BY Zenon, <1>2, <1>3, <1>4, <1>7, <1>8, <1>9, <1>10, <1>11, OneIdQuiet DEF FieldInv

\* destroy_cm_id returns to the client or to the work handler.  A provider's connection
\* outlives it, with its reference.
LEMMA Step_destroy_finish ==
    ASSUME IwcmInv, NEW i \in Ids, destroy_finish(i)
    PROVE  IwcmInv'
<1>1. Types /\ QueueInv /\ IdInv(i)
  BY Zenon DEF IwcmInv
<1>2. /\ OwnerInv(i) /\ EventBound(i) /\ EventState(i) /\ WaitInv(i) /\ CountInv(i)
      /\ ListOrder(i)
  BY Zenon, <1>1 DEF IdInv, FieldInv
<1>3. PICK s : s = dpc[i].pc
  OBVIOUS
<1>4. /\ s \in Locked /\ state[i] = "DESTROYING" /\ app[i] \in {"none", "destroy"}
      /\ ~Child(i) /\ ~connect_wait[i] /\ ~qp[i] /\ Handle(i)
      /\ s = "LISTEN" => prov[i] = "listening"
      /\ prov[i] = "requested" <=> s = "CONN_RECV"
      /\ app[i] = "destroy" => dpc[i].by = "app" /\ ~Destroys(i)
      /\ app[i] = "none" => dpc[i].by = "wq" /\ Destroys(i)
  BY Zenon, <1>2, <1>3 DEF OwnerInv, WaitInv, Locked, Handle, destroy_finish
<1>5. PICK n : n = IF s = "LISTEN" THEN -2 ELSE -1
  OBVIOUS
<1>6. PICK p : p = IF s = "ESTABLISHED" /\ prov[i] = "connected" THEN "aborting"
                   ELSE IF s \in {"LISTEN", "CONN_RECV"} THEN "none" ELSE prov[i]
  OBVIOUS
<1>7. /\ Refs(i, n, work_free[i]) /\ prov' = [prov EXCEPT ![i] = p]
      /\ qp_refs' = [qp_refs EXCEPT ![i] = IF dpc[i].qp THEN @ - 1 ELSE @]
      /\ dpc' = [dpc EXCEPT ![i] = NoDestroy]
      /\ app' = [app EXCEPT ![i] = "none"]
      /\ UNCHANGED <<state, connect_wait, qp, work_list, wq>>
  <2>1. Refs(i, n, work_free[i])
    BY Zenon, <1>3, <1>5 DEF destroy_finish
  <2>2. prov' = [prov EXCEPT ![i] = p]
    BY Zenon, <1>1, <1>3, <1>4, <1>6 DEF destroy_finish, ModifyQp, Types, Locked
  <2>3. app' = [app EXCEPT ![i] = "none"]
    BY Zenon, <1>1, <1>4 DEF destroy_finish, Types
  <2> QED BY Zenon, <2>1, <2>2, <2>3 DEF destroy_finish
<1>8. IF app[i] = "destroy" THEN wk' = wk ELSE wk' = [wk EXCEPT !.pc = "deref"]
  BY Zenon, <1>4 DEF destroy_finish
<1>9. n \in Int /\ p \in Provs
  BY <1>1, <1>5, <1>6 DEF Types, Provs, Linked
<1> HIDE DEF destroy_finish
<1>10. Types'
  <2>1. refcount' \in [Ids -> Int] /\ drop_events' \in [Ids -> BOOLEAN]
    BY <1>1, <1>7, <1>9 DEF Types, Refs
  <2>2. work_free' \in [Ids -> Nat]
    BY Zenon, <1>1, <1>7, <1>9 DEF Types, Refs
  <2>3. prov' \in [Ids -> Provs] /\ qp_refs' \in [Ids -> Int]
    BY <1>1, <1>7, <1>9 DEF Types
  <2>4. dpc' \in [Ids -> DestroyRecs]
    BY Zenon, <1>1, <1>7 DEF Types, DestroyRecs, NoDestroy
  <2>5. app' \in [Ids -> Uses]
    BY Zenon, <1>1, <1>7 DEF Types, Uses
  <2>6. wk' \in WorkRecs
    BY Zenon, <1>1, <1>8 DEF Types, WorkRecs
  <2> QED BY Zenon, <1>1, <1>7, <2>1, <2>2, <2>3, <2>4, <2>5, <2>6 DEF Types
<1>11. \A j \in Ids : j # i => SameFields(j)
  BY Zenon, <1>1, <1>7 DEF Types, SameFields, Refs
<1>12. /\ wk'.id = wk.id /\ wk'.empty = wk.empty /\ wk'.event = wk.event
       /\ wk'.child = wk.child
       /\ wk'.pc = wk.pc \/ (wk.id = i /\ wk.pc = "destroying" /\ wk'.pc = "deref")
       /\ app[i] = "destroy" => wk' = wk
       /\ app[i] # "destroy" => wk'.pc = "deref" /\ wk.id = i
  BY Zenon, <1>1, <1>4, <1>8 DEF Types, WorkRecs, Destroys
<1>13. QueueInv'
  <2>1. UNCHANGED <<wq, work_list>> /\ wk'.id = wk.id /\ wk'.empty = wk.empty
    BY Zenon, <1>7, <1>12
  <2>2. CASE app[i] = "destroy"
    BY Zenon, <1>1, <1>12, <2>1, <2>2 DEF QueueInv
  <2>3. CASE app[i] # "destroy"
    <3>1. wk'.pc = "deref" /\ wk.id = i
      BY Zenon, <1>12, <2>3
    <3> QED BY Zenon, <1>1, <2>1, <3>1 DEF QueueInv
  <2> QED BY Zenon, <2>2, <2>3
<1>14. \A j \in Ids : j # i => SameWork(j)
  BY Zenon, <1>12 DEF SameWork, Busy, Takes, Child, Destroys
<1>15. /\ (Busy(i)' <=> Busy(i)) /\ ~Destroys(i)' /\ ~Child(i)'
       /\ (Takes(i)' <=> Takes(i)) /\ Queued(i)' = Queued(i)
       /\ \A evs : Coming(i, evs)' <=> Coming(i, evs)
       /\ ListOrder(i)'
  <2>1. (Busy(i)' <=> Busy(i)) /\ ~Destroys(i)' /\ ~Child(i)' /\ (Takes(i)' <=> Takes(i))
    BY Zenon, <1>4, <1>12 DEF Busy, Takes, Child, Destroys
  <2>2. Queued(i)' = Queued(i) /\ \A evs : Coming(i, evs)' <=> Coming(i, evs)
    BY Zenon, <2>1, <1>7, <1>12 DEF Queued, Coming
  <2> QED BY Zenon, <1>2, <1>7, <1>12, <2>1, <2>2 DEF ListOrder
<1>16. /\ refcount'[i] = refcount[i] + n /\ prov'[i] = p /\ dpc'[i].pc = "none"
       /\ ~dpc'[i].qp /\ dpc'[i].by = "app" /\ app'[i] = "none"
       /\ refcount'[i] = 0 => ~drop_events'[i]
       /\ ~drop_events[i] => ~drop_events'[i]
       /\ refcount'[i] # 0 => work_free'[i] = work_free[i]
       /\ qp_refs'[i] = IF dpc[i].qp THEN qp_refs[i] - 1 ELSE qp_refs[i]
       /\ UNCHANGED <<state, connect_wait, qp, work_list>>
  BY Zenon, <1>1, <1>7 DEF Types, Refs, NoDestroy
<1>17. CountInv(i)'
  <2>1. ~Handle(i)'
    BY Zenon, <1>15, <1>16 DEF Handle
  <2>2. /\ prov[i] \notin {"none", "requested"} /\ s = "LISTEN" => n = -2 /\ p = "none"
        /\ s # "LISTEN" => /\ n = -1
                           /\ p \in {"none", "requested"} <=> prov[i] \in {"none", "requested"}
        /\ s = "LISTEN" => prov[i] \notin {"none", "requested"}
    BY Zenon, <1>4, <1>5, <1>6
  <2>3. refcount[i] \in Int /\ Queued(i) \in Nat /\ qp_refs[i] \in Int
    BY Zenon, <1>1, Numbers
  <2>4. PICK r \in Int, q \in Nat, b \in {0, 1} :
            r = refcount[i] /\ q = Queued(i) /\ b = IF Busy(i) THEN 1 ELSE 0
    BY Zenon, <2>3
  <2>5. r = 1 + (IF prov[i] \in {"none", "requested"} THEN 0 ELSE 1) + q + b
    BY Zenon, <1>2, <1>4, <2>4 DEF CountInv
  <2>6. r + n = 0 + (IF p \in {"none", "requested"} THEN 0 ELSE 1) + q + b
    <3>1. CASE s = "LISTEN"
      BY <2>2, <2>5, <3>1
    <3>2. CASE s # "LISTEN"
      BY <2>2, <2>5, <3>2
    <3> QED BY Zenon, <3>1, <3>2
  <2>7. refcount'[i] = (IF Handle(i)' THEN 1 ELSE 0)
                       + (IF prov'[i] \in {"none", "requested"} THEN 0 ELSE 1)
                       + Queued(i)' + (IF Busy(i)' THEN 1 ELSE 0)
    BY Zenon, <1>15, <1>16, <2>1, <2>4, <2>6
  <2>8. qp_refs'[i] = (IF qp'[i] THEN 1 ELSE 0) + (IF dpc'[i].qp THEN 1 ELSE 0)
    BY <1>2, <1>4, <1>16, <2>3 DEF CountInv
  <2> QED BY Zenon, <2>7, <2>8 DEF CountInv
<1>18. OwnerInv(i)'
  BY Zenon, <1>4, <1>6, <1>15, <1>16 DEF OwnerInv
<1>19. EventBound(i)'
  <2>1. refcount'[i] # 0 \/ prov'[i] \in {"none", "requested"}
    <3>1. PICK q \in Nat : q = Queued(i)'
      BY Zenon, <1>1, <1>15, Numbers
    <3>2. \A b \in {0, 1} : 0 + 1 + q + b # 0
      OBVIOUS
    <3>3. ~Handle(i)'
      BY Zenon, <1>15, <1>16 DEF Handle
    <3> QED BY Zenon, <1>17, <3>1, <3>2, <3>3 DEF CountInv
  <2> QED BY Zenon, <1>1, <1>2, <1>4, <1>6, <1>15, <1>16, <2>1, Numbers DEF EventBound, Linked
<1>20. EventState(i)'
  BY Zenon, <1>2, <1>4, <1>6, <1>15, <1>16 DEF EventState
<1>21. WaitInv(i)'
  BY Zenon, <1>4, <1>6, <1>15, <1>16 DEF WaitInv, Locked
<1> QED
  BY Zenon, <1>10, <1>11, <1>13, <1>14, <1>15, <1>17, <1>18, <1>19, <1>20, <1>21, OneId DEF FieldInv

-----------------------------------------------------------------------------
(* The provider.                                                           *)

\* Append and Tail, position by position.
LEMMA AppendFacts ==
    ASSUME NEW S, NEW q \in Seq(S), NEW e \in S
    PROVE  /\ Append(q, e) \in Seq(S) /\ Append(q, e) # << >>
           /\ Len(q) \in Nat /\ Len(Append(q, e)) = Len(q) + 1
           /\ \A k \in 1..Len(q) : Append(q, e)[k] = q[k] /\ q[k] \in S
           /\ Append(q, e)[Len(q) + 1] = e
OBVIOUS

\* What is left of a queue when its first element is taken.
LEMMA TailFacts ==
    ASSUME NEW S, NEW q \in Seq(S), q # << >>
    PROVE  /\ Tail(q) \in Seq(S) /\ Head(q) \in S /\ Head(q) = q[1]
           /\ Len(q) \in Nat \ {0} /\ Len(Tail(q)) = Len(q) - 1
           /\ \A k \in 1..Len(q) - 1 : Tail(q)[k] = q[k + 1]
           /\ Len(q) = 1 <=> Tail(q) = << >>
<1>1. /\ Tail(q) \in Seq(S) /\ Head(q) \in S /\ Head(q) = q[1]
      /\ Len(q) \in Nat \ {0} /\ Len(Tail(q)) = Len(q) - 1
      /\ \A k \in 1..Len(q) - 1 : Tail(q)[k] = q[k + 1]
  OBVIOUS
<1>2. Tail(q) = << >> <=> Len(Tail(q)) = 0
  BY <1>1
<1> QED BY <1>1, <1>2

\* The elements of a sequence, and what is left of one without repetitions.
LEMMA ElementType ==
    ASSUME NEW S, NEW q \in Seq(S), NEW k \in 1..Len(q)
    PROVE  q[k] \in S
OBVIOUS

Once(q) == \A k, l \in 1..Len(q) : q[k] = q[l] => k = l
Remainder(q, t, x) ==
    /\ \A k \in 1..Len(t) : t[k] # x /\ \E l \in 1..Len(q) : t[k] = q[l]
    /\ \A k, l \in 1..Len(t) : t[k] = t[l] => k = l
    /\ \A k \in 1..Len(q) : q[k] # x => \E l \in 1..Len(t) : t[l] = q[k]
    /\ \E k \in 1..Len(q) : q[k] = x

\* Taking the first element of a queue that has each element once leaves it out.
LEMMA TailOnce ==
    ASSUME NEW S, NEW q \in Seq(S), q # << >>, Once(q)
    PROVE  Remainder(q, Tail(q), Head(q))
<1>0. PICK t, x : t = Tail(q) /\ x = Head(q)
  BY Zenon
<1>1. /\ Len(q) \in Nat \ {0} /\ Len(t) = Len(q) - 1 /\ x = q[1]
      /\ \A k \in 1..Len(q) - 1 : t[k] = q[k + 1]
  BY <1>0, TailFacts
<1>2. ASSUME NEW k \in 1..Len(t)
      PROVE  k + 1 \in 1..Len(q) /\ t[k] = q[k + 1] /\ k + 1 # 1
  BY <1>1
<1>3. 1 \in 1..Len(q)
  BY <1>1
<1>4. \A k \in 1..Len(t) : t[k] # x /\ \E l \in 1..Len(q) : t[k] = q[l]
  BY Zenon, <1>1, <1>2, <1>3 DEF Once
<1>5. ASSUME NEW k \in 1..Len(t), NEW l \in 1..Len(t), t[k] = t[l]
      PROVE  k = l
  <2>1. k + 1 = l + 1
    BY Zenon, <1>2, <1>5 DEF Once
  <2> QED BY <2>1
<1>6. ASSUME NEW k \in 1..Len(q), q[k] # x
      PROVE  \E l \in 1..Len(t) : t[l] = q[k]
  <2>1. k - 1 \in 1..Len(q) - 1 /\ k - 1 \in 1..Len(t) /\ (k - 1) + 1 = k
    BY <1>1, <1>6
  <2> QED BY Zenon, <1>1, <2>1
<1>7. Remainder(q, t, x)
  BY Zenon, <1>1, <1>3, <1>4, <1>5, <1>6 DEF Remainder
<1> QED BY Zenon, <1>0, <1>7

\* An event that finds a free work: it is appended, takes a reference and a work, and
\* queues cm_work_handler if it is the only one.
EventQueued(i, ev, n) ==
    /\ refcount' \in [Ids -> Int] /\ drop_events' \in [Ids -> BOOLEAN]
    /\ work_free' \in [Ids -> Nat] /\ work_list' \in [Ids -> Seq(Events)]
    /\ wq' \in Seq(Ids)
    /\ refcount'[i] = refcount[i] + 1 + n /\ drop_events' = drop_events
    /\ work_free'[i] = work_free[i] - 1 /\ Queued(i)' = Queued(i) + 1
    /\ \A evs : Coming(i, evs)' <=> Coming(i, evs) \/ ev \in evs
    /\ \A j \in Ids : j # i => /\ refcount'[j] = refcount[j] /\ work_free'[j] = work_free[j]
                               /\ work_list'[j] = work_list[j]
    /\ QueueInv'
    /\ (ev \in Firsts => work_list[i] = << >> /\ ~Takes(i))
          /\ ~Coming(i, {"CLOSE", "CONNECT_REPLY_ERR"}) => ListOrder(i)'

\* cm_event_handler queues an event so when it finds a work.
LEMMA EventEffect ==
    ASSUME IwcmInv, NEW i \in Ids, NEW ev \in Events, NEW n \in {0, -1},
           cm_event_handler(i, ev, n), work_free[i] > 0, refcount[i] > 0, UNCHANGED wk
    PROVE  EventQueued(i, ev, n)
<1>1. Types /\ QueueInv /\ ListOrder(i)
  BY Zenon DEF IwcmInv, IdInv
<1>2. Refs(i, 1 + n, work_free[i] - 1)
  BY <1>1 DEF cm_event_handler, NoWork, EventRef, Types
<1>3. /\ work_list' = [work_list EXCEPT ![i] = Append(work_list[i], ev)]
      /\ wq' = IF work_list[i] = << >> THEN Append(wq, i) ELSE wq
  BY <1>1 DEF cm_event_handler, NoWork, QueuesWork, Types
<1> HIDE DEF cm_event_handler
<1>4. refcount[i] + (1 + n) # 0 /\ refcount[i] \in Int
  BY <1>1 DEF Types
<1>5. /\ refcount' \in [Ids -> Int] /\ work_free' \in [Ids -> Nat]
      /\ refcount'[i] = refcount[i] + 1 + n /\ work_free'[i] = work_free[i] - 1
      /\ \A j \in Ids : j # i => refcount'[j] = refcount[j] /\ work_free'[j] = work_free[j]
  BY <1>1, <1>2, <1>4 DEF Refs, Types
<1>6. drop_events' = drop_events
  BY Zenon, <1>1, <1>2, <1>4 DEF Refs, Types
<1>7. /\ work_list' \in [Ids -> Seq(Events)] /\ wq' \in Seq(Ids)
      /\ work_list'[i] = Append(work_list[i], ev)
      /\ \A j \in Ids : j # i => work_list'[j] = work_list[j]
  BY <1>1, <1>3 DEF Types
<1>8. /\ work_list[i] \in Seq(Events) /\ Len(work_list'[i]) = Len(work_list[i]) + 1
      /\ \A k \in 1..Len(work_list[i]) : work_list'[i][k] = work_list[i][k]
      /\ work_list'[i][Len(work_list[i]) + 1] = ev
      /\ work_list'[i] # << >>
  <2>1. work_list[i] \in Seq(Events)
    BY Zenon, <1>1 DEF Types
  <2>2. /\ Len(Append(work_list[i], ev)) = Len(work_list[i]) + 1
        /\ \A k \in 1..Len(work_list[i]) : Append(work_list[i], ev)[k] = work_list[i][k]
        /\ Append(work_list[i], ev)[Len(work_list[i]) + 1] = ev
        /\ Append(work_list[i], ev) # << >>
    BY <2>1, AppendFacts
  <2>3. work_list'[i] = Append(work_list[i], ev)
    BY Zenon, <1>7
  <2> QED BY Zenon, <2>1, <2>2, <2>3
<1>9. \A evs : Coming(i, evs)' <=> Coming(i, evs) \/ ev \in evs
  <2> SUFFICES ASSUME NEW evs PROVE Coming(i, evs)' <=> Coming(i, evs) \/ ev \in evs
    OBVIOUS
  <2>1. (Takes(i)' <=> Takes(i))
    BY Zenon DEF Takes
  <2>2. Len(work_list[i]) \in Nat
    BY <1>8
  <2>3. (\E k \in 1..Len(work_list'[i]) : work_list'[i][k] \in evs)
            <=> (\E k \in 1..Len(work_list[i]) : work_list[i][k] \in evs) \/ ev \in evs
    <3>1. ASSUME NEW k \in 1..Len(work_list'[i]), k \notin 1..Len(work_list[i])
          PROVE  k = Len(work_list[i]) + 1
      BY <1>8, <2>2, <3>1
    <3>2. /\ Len(work_list[i]) + 1 \in 1..Len(work_list'[i])
          /\ \A k \in 1..Len(work_list[i]) : k \in 1..Len(work_list'[i])
      BY <1>8, <2>2
    <3> QED BY Zenon, <1>8, <3>1, <3>2
  <2> QED BY Zenon, <2>1, <2>3 DEF Coming
<1>10. QueueInv'
  <2>0. Len(wq) \in Nat /\ \A k \in 1..Len(wq) : wq[k] \in Ids
    BY <1>1 DEF Types
  <2>1. CASE work_list[i] # << >>
    <3>1. wq' = wq
      BY Zenon, <1>3, <2>1
    <3>2. \A j \in Ids : work_list'[j] # << >> <=> work_list[j] # << >>
      BY Zenon, <1>7, <1>8, <2>1
    <3> QED BY Zenon, <1>1, <2>0, <3>1, <3>2 DEF QueueInv, Idle
  <2>2. CASE work_list[i] = << >>
    <3>1. wq' = Append(wq, i) /\ wq \in Seq(Ids)
      BY Zenon, <1>1, <1>3, <2>2 DEF Types
    <3>2. /\ Len(wq) \in Nat /\ Len(wq') = Len(wq) + 1
          /\ \A k \in 1..Len(wq) : wq'[k] = wq[k] /\ wq[k] \in Ids
          /\ wq'[Len(wq) + 1] = i
      BY <3>1, AppendFacts
    <3>3. \A k \in 1..Len(wq) : wq[k] # i
      BY Zenon, <1>1, <2>2 DEF QueueInv
    <3>4. \A k, l \in 1..Len(wq') : wq'[k] = wq'[l] => k = l
      BY <1>1, <3>2, <3>3 DEF QueueInv
    <3>5. \A k \in 1..Len(wq') : work_list'[wq'[k]] # << >> /\ (wk'.id = wq'[k] => wk'.empty)
      <4> SUFFICES ASSUME NEW k \in 1..Len(wq')
                   PROVE  work_list'[wq'[k]] # << >> /\ (wk.id = wq'[k] => wk.empty)
        OBVIOUS
      <4>1. CASE k \in 1..Len(wq)
        <5>1. wq'[k] = wq[k] /\ wq[k] \in Ids /\ wq[k] # i
          BY Zenon, <3>2, <3>3, <4>1
        <5>2. work_list[wq[k]] # << >> /\ (wk.id = wq[k] => wk.empty)
          BY Zenon, <1>1, <4>1 DEF QueueInv
        <5> QED BY Zenon, <1>7, <5>1, <5>2
      <4>2. CASE k = Len(wq) + 1
        BY Zenon, <1>1, <1>8, <2>2, <3>2, <4>2 DEF QueueInv
      <4> QED BY <3>2, <4>1, <4>2
    <3>6. ASSUME NEW j \in Ids
          PROVE  /\ wk'.id = j /\ ~wk'.empty => work_list'[j] # << >>
                 /\ work_list'[j] # << >> =>
                      (\E k \in 1..Len(wq') : wq'[k] = j) \/ (wk'.id = j /\ ~wk'.empty)
      <4>1. CASE j = i
        <5>1. Len(wq) + 1 \in 1..Len(wq')
          BY <3>2
        <5> QED BY Zenon, <1>8, <3>2, <4>1, <5>1
      <4>2. CASE j # i
        <5>1. work_list'[j] = work_list[j]
          BY Zenon, <1>7, <4>2
        <5>2. ASSUME NEW k \in 1..Len(wq), wq[k] = j PROVE \E l \in 1..Len(wq') : wq'[l] = j
          <6>1. k \in 1..Len(wq')
            BY <3>2
          <6> QED BY Zenon, <3>2, <5>2, <6>1
        <5> QED BY Zenon, <1>1, <5>1, <5>2 DEF QueueInv
      <4> QED BY Zenon, <4>1, <4>2
    <3> QED BY Zenon, <1>1, <3>4, <3>5, <3>6 DEF QueueInv, Idle
  <2> QED BY Zenon, <2>1, <2>2
<1>11. ASSUME ev \in Firsts => work_list[i] = << >> /\ ~Takes(i),
              ~Coming(i, {"CLOSE", "CONNECT_REPLY_ERR"})
       PROVE  ListOrder(i)'
  <2>1. (Takes(i)' <=> Takes(i)) /\ Len(work_list[i]) \in Nat
    BY <1>8 DEF Takes
  <2>2. /\ ~(Takes(i) /\ wk.event \in {"CLOSE", "CONNECT_REPLY_ERR"})
        /\ \A k \in 1..Len(work_list[i]) :
              work_list[i][k] \notin {"CLOSE", "CONNECT_REPLY_ERR"}
    BY Zenon, <1>11 DEF Coming
  <2>3. ev \in Firsts => Len(work_list[i]) = 0 /\ ~Takes(i)
    BY <1>11, <1>8
  <2>4. ASSUME NEW k \in 1..Len(work_list'[i])
        PROVE  /\ work_list'[i][k] \in Firsts => k = 1 /\ ~Takes(i)'
               /\ work_list'[i][k] \in {"CLOSE", "CONNECT_REPLY_ERR"} => k = Len(work_list'[i])
    <3>1. CASE k = Len(work_list[i]) + 1
      BY <1>8, <2>1, <2>3, <3>1
    <3>2. CASE k \in 1..Len(work_list[i])
      BY Zenon, <1>1, <1>8, <2>1, <2>2, <3>2 DEF ListOrder
    <3> QED BY <1>8, <2>1, <3>1, <3>2
  <2> QED BY Zenon, <2>1, <2>2, <2>4 DEF ListOrder
<1> QED BY Zenon, <1>1, <1>5, <1>6, <1>7, <1>8, <1>9, <1>10, <1>11 DEF Queued, Types, EventQueued

\* The provider's connection has a reference, and a free work for its next event.
LEMMA LinkedFacts ==
    ASSUME IwcmInv, NEW i \in Ids, prov[i] \in Linked
    PROVE  work_free[i] > 0 /\ refcount[i] > 0
<1>1. Types /\ EventBound(i) /\ CountInv(i)
  BY Zenon DEF IwcmInv, IdInv, FieldInv
<1>2. /\ refcount[i] \in Int /\ work_free[i] \in Nat /\ Queued(i) \in Nat
      /\ (Queued(i) = 0 <=> work_list[i] = << >>)
  BY Zenon, <1>1, Numbers
<1>3. Queued(i) <= 2
  BY <1>1, <1>2 DEF EventBound, Linked
<1>4. work_free[i] + Queued(i) >= 3
  BY Zenon, <1>1 DEF EventBound
<1>5. prov[i] \notin {"none", "requested"}
  BY Zenon DEF Linked
<1> QED BY <1>1, <1>2, <1>3, <1>4, <1>5 DEF CountInv

\* What is common to the events of a provider.
LEMMA ProviderEvent ==
    ASSUME IwcmInv, NEW i \in Ids, NEW ev \in Events, NEW n \in {0, -1}, NEW p \in Provs,
           cm_event_handler(i, ev, n), work_free[i] > 0, refcount[i] > 0,
           UNCHANGED <<state, connect_wait, qp, app, dpc, qp_refs, wk>>,
           prov' = [prov EXCEPT ![i] = p],
           ev \in Firsts => work_list[i] = << >> /\ ~Takes(i),
           ~Coming(i, {"CLOSE", "CONNECT_REPLY_ERR"}),
           p \in {"none", "requested"} <=> n = -1 \/ prov[i] \in {"none", "requested"},
           prov[i] \notin {"none", "requested"},
           p # "requested", EventBound(i)', EventState(i)', WaitInv(i)'
    PROVE  IwcmInv'
<1>0. EventQueued(i, ev, n)
  BY Zenon, EventEffect
<1>1. /\ Types /\ QueueInv /\ OwnerInv(i) /\ CountInv(i)
  BY Zenon DEF IwcmInv, IdInv, FieldInv
<1>2. Types'
  <2>1. prov' \in [Ids -> Provs]
    BY Zenon, <1>1 DEF Types
  <2> QED BY Zenon, <1>0, <1>1, <2>1 DEF Types, EventQueued
<1>3. QueueInv' /\ ListOrder(i)'
  BY Zenon, <1>0 DEF EventQueued
<1>4. /\ refcount'[i] = refcount[i] + 1 + n /\ prov'[i] = p /\ drop_events' = drop_events
      /\ Queued(i)' = Queued(i) + 1
      /\ \A j \in Ids : j # i => /\ refcount'[j] = refcount[j] /\ work_free'[j] = work_free[j]
                                 /\ work_list'[j] = work_list[j] /\ prov'[j] = prov[j]
  BY Zenon, <1>0, <1>1 DEF Types, EventQueued
<1>5. \A j \in Ids : SameWork(j)
  BY Zenon DEF SameWork, Busy, Takes, Destroys, Child
<1>6. \A j \in Ids : j # i => SameFields(j)
  BY Zenon, <1>4 DEF SameFields
<1>7. CountInv(i)'
  <2>1. (Handle(i)' <=> Handle(i)) /\ (Busy(i)' <=> Busy(i))
    BY Zenon, <1>5 DEF Handle, SameWork
  <2>2. PICK r \in Int, q \in Nat : r = refcount[i] /\ q = Queued(i)
    BY Zenon, <1>1, Numbers
  <2>3. refcount'[i] = r + 1 + n /\ Queued(i)' = q + 1
    BY Zenon, <1>4, <2>2
  <2>4. p \in {"none", "requested"} <=> n = -1
    OBVIOUS
  <2>5. /\ r = (IF Handle(i) THEN 1 ELSE 0) + 1 + q + (IF Busy(i) THEN 1 ELSE 0)
        /\ qp_refs[i] = (IF qp[i] THEN 1 ELSE 0) + (IF dpc[i].qp THEN 1 ELSE 0)
    BY Zenon, <1>1, <2>2 DEF CountInv
  <2>6. r + 1 + n = (IF Handle(i) THEN 1 ELSE 0) + (IF p \in {"none", "requested"} THEN 0 ELSE 1)
                    + (q + 1) + (IF Busy(i) THEN 1 ELSE 0)
    BY <2>4, <2>5
  <2> QED BY Zenon, <1>4, <2>1, <2>3, <2>5, <2>6 DEF CountInv
<1>8. OwnerInv(i)'
  <2>1. refcount'[i] # 0
    <3>1. PICK r \in Int : r = refcount[i]
      BY Zenon, <1>1, Numbers
    <3>2. r > 0 => r + 1 + n # 0
      OBVIOUS
    <3> QED BY Zenon, <1>4, <3>1, <3>2
  <2>2. app[i] \notin {"new", "request"} /\ ~Child(i)
    BY Zenon, <1>1 DEF OwnerInv
  <2> QED BY Zenon, <1>1, <1>4, <1>5, <2>1, <2>2 DEF OwnerInv, SameWork
<1> QED BY Zenon, <1>2, <1>3, <1>5, <1>6, <1>7, <1>8, OneId DEF FieldInv

\* A connection request for a listening cm_id, or one that finds the backlog used up.
LEMMA Step_provider_request ==
    ASSUME IwcmInv, NEW i \in Ids, provider_request(i)
    PROVE  IwcmInv'
<1>1. /\ Types /\ QueueInv /\ IdInv(i) /\ OwnerInv(i) /\ EventBound(i) /\ EventState(i)
      /\ WaitInv(i) /\ CountInv(i)
  BY Zenon DEF IwcmInv, IdInv, FieldInv
<1>2. /\ prov[i] = "listening" /\ cm_event_handler(i, "CONNECT_REQUEST", 0)
      /\ UNCHANGED <<state, connect_wait, qp, app, dpc, qp_refs, prov, wk>>
  BY Zenon DEF provider_request
<1>3. refcount[i] > 0
  BY <1>1, <1>2, Numbers DEF CountInv
<1>4. CASE work_free[i] = 0
  <2>1. Refs(i, 0, work_free[i]) /\ UNCHANGED <<work_list, wq>>
    BY Zenon, <1>2, <1>4 DEF cm_event_handler, NoWork
  <2>2. refcount[i] + 0 = refcount[i] /\ refcount[i] # 0
    BY <1>1, <1>3, Numbers
  <2>3. refcount' = refcount /\ drop_events' = drop_events /\ work_free' = work_free
    BY Zenon, <1>1, <2>1, <2>2 DEF Refs, Types
  <2>4. Types'
    BY Zenon, <1>1, <1>2, <2>1, <2>3 DEF Types
  <2>5. \A j \in Ids : SameFields(j)
    BY Zenon, <1>2, <2>1, <2>3 DEF SameFields
  <2> QED BY Zenon, <1>1, <1>2, <2>1, <2>4, <2>5, IdFrame, WorkFrame, OneIdQuiet DEF IdInv
<1>5. CASE work_free[i] > 0
  <2>1. /\ Queued(i)' = Queued(i) + 1 /\ work_free'[i] = work_free[i] - 1
        /\ drop_events' = drop_events
        /\ \A evs : Coming(i, evs)' <=> Coming(i, evs) \/ "CONNECT_REQUEST" \in evs
    <3>1. EventQueued(i, "CONNECT_REQUEST", 0)
      BY Zenon, <1>2, <1>3, <1>5, EventEffect DEF Events
    <3> QED BY Zenon, <3>1 DEF EventQueued
  <2>2. ~Coming(i, {"CLOSE", "CONNECT_REPLY_ERR"})
    BY Zenon, <1>1, <1>2 DEF EventState
  <2>3. EventBound(i)'
    BY Zenon, <1>1, <1>2 DEF EventBound, OwnerInv, Linked, Child
  <2>4. EventState(i)'
    BY Zenon, <1>1, <1>2, <2>1, <2>2 DEF EventState
  <2>5. WaitInv(i)'
    BY Zenon, <1>1, <1>2, <2>1 DEF WaitInv, Firsts
  <2>6. prov' = [prov EXCEPT ![i] = "listening"]
    BY Zenon, <1>1, <1>2 DEF Types
  <2>7. "CONNECT_REQUEST" \in Events /\ "CONNECT_REQUEST" \notin Firsts /\ "listening" \in Provs
    BY Zenon DEF Events, Firsts, Provs
  <2>8. PICK ev \in Events, n \in {0, -1}, p \in Provs :
            /\ ev \notin Firsts /\ n = 0 /\ p = "listening"
            /\ cm_event_handler(i, ev, n) /\ prov' = [prov EXCEPT ![i] = p]
    BY Zenon, <1>2, <2>6, <2>7
  <2>9. /\ p \in {"none", "requested"} <=> n = -1 \/ prov[i] \in {"none", "requested"}
        /\ prov[i] \notin {"none", "requested"} /\ p # "requested"
    BY <1>2, <2>8
  <2> QED BY Zenon, <1>2, <1>3, <1>5, <2>2, <2>3, <2>4, <2>5, <2>8, <2>9, ProviderEvent
<1> QED BY <1>1, <1>4, <1>5, Numbers

\* The answer to iw_connect, while nothing else can be on its way.
LEMMA Step_provider_reply ==
    ASSUME IwcmInv, NEW i \in Ids, provider_reply(i)
    PROVE  IwcmInv'
<1>1. /\ Types /\ IdInv(i) /\ OwnerInv(i) /\ EventBound(i) /\ EventState(i) /\ WaitInv(i)
  BY Zenon DEF IwcmInv, IdInv, FieldInv
<1>2. /\ prov[i] = "connecting"
      /\ UNCHANGED <<state, connect_wait, qp, app, dpc, qp_refs, wk>>
  BY Zenon DEF provider_reply
<1>3. work_free[i] > 0 /\ refcount[i] > 0 /\ work_free[i] \in Nat
  BY Zenon, <1>1, <1>2, LinkedFacts, Numbers DEF Linked
<1>4. /\ work_list[i] = << >> /\ ~Busy(i) /\ Queued(i) = 0 /\ ~Takes(i) /\ work_free[i] >= 3
      /\ \A evs : ~Coming(i, evs)
  <2>1. work_list[i] = << >> /\ ~Busy(i) /\ Queued(i) = 0 /\ ~Takes(i)
    BY Zenon, <1>1, <1>2, Numbers DEF EventBound, Takes, Busy
  <2>2. work_free[i] + 0 >= 3
    BY Zenon, <1>1, <1>2, <2>1 DEF EventBound, Linked
  <2>3. work_free[i] >= 3
    BY <1>3, <2>2
  <2> QED BY Zenon, <1>1, <2>1, <2>3, Quiet
<1>5. state[i] = "CONN_SENT" /\ connect_wait[i]
  BY Zenon, <1>1, <1>2 DEF EventState
<1>6. app[i] \notin {"new", "request"} /\ ~Child(i) /\ ~Child(i)' /\ (Busy(i)' <=> Busy(i))
  BY Zenon, <1>1, <1>2 DEF OwnerInv, Child, Busy
<1>7. ASSUME NEW ev \in {"CONNECT_REPLY_OK", "CONNECT_REPLY_ERR"}, NEW n \in {0, -1},
             NEW p \in {"connected", "none"},
             cm_event_handler(i, ev, n), prov' = [prov EXCEPT ![i] = p],
             ev = "CONNECT_REPLY_ERR" <=> p = "none", p = "none" <=> n = -1
      PROVE  IwcmInv'
  <2>1. ev \in Events /\ ev \in Firsts /\ p \in Provs /\ prov'[i] = p
    BY Zenon, <1>1, <1>7 DEF Events, Firsts, Provs, Linked, Types
  <2>2. /\ Queued(i)' = 1 /\ work_free'[i] = work_free[i] - 1 /\ drop_events' = drop_events
        /\ \A evs : Coming(i, evs)' <=> ev \in evs
    <3>1. EventQueued(i, ev, n)
      BY Zenon, <1>2, <1>3, <1>7, <2>1, EventEffect
    <3>2. 0 + 1 = 1
      OBVIOUS
    <3> QED BY Zenon, <1>4, <3>1, <3>2 DEF EventQueued
  <2>3. EventBound(i)'
    <3>1. Queued(i)' <= 1 /\ work_free'[i] + Queued(i)' >= 3
      BY <1>3, <1>4, <2>2
    <3> QED BY Zenon, <1>2, <1>6, <2>1, <3>1 DEF EventBound
  <2>4. EventState(i)'
    BY Zenon, <1>2, <1>5, <1>7, <2>1, <2>2 DEF EventState
  <2>5. WaitInv(i)'
    BY Zenon, <1>1, <1>2, <1>5, <2>1, <2>2 DEF WaitInv
  <2> QED BY Zenon, <1>2, <1>3, <1>4, <1>7, <2>1, <2>3, <2>4, <2>5, ProviderEvent
<1> QED BY <1>7 DEF provider_reply

\* The peer's answer to iw_accept.
LEMMA Step_provider_established ==
    ASSUME IwcmInv, NEW i \in Ids, provider_established(i)
    PROVE  IwcmInv'
<1>1. /\ Types /\ IdInv(i) /\ OwnerInv(i) /\ EventBound(i) /\ EventState(i) /\ WaitInv(i)
  BY Zenon DEF IwcmInv, IdInv, FieldInv
<1>2. /\ prov[i] = "accepted" /\ cm_event_handler(i, "ESTABLISHED", 0)
      /\ prov' = [prov EXCEPT ![i] = "connected"]
      /\ UNCHANGED <<state, connect_wait, qp, app, dpc, qp_refs, wk>>
  BY Zenon DEF provider_established
<1>3. work_free[i] > 0 /\ refcount[i] > 0 /\ work_free[i] \in Nat /\ prov'[i] = "connected"
  BY Zenon, <1>1, <1>2, LinkedFacts, Numbers DEF Linked, Types
<1>4. /\ work_list[i] = << >> /\ ~Busy(i) /\ Queued(i) = 0 /\ ~Takes(i) /\ work_free[i] >= 3
      /\ \A evs : ~Coming(i, evs)
  <2>1. work_list[i] = << >> /\ ~Busy(i) /\ Queued(i) = 0 /\ ~Takes(i)
    BY Zenon, <1>1, <1>2, Numbers DEF EventBound, Takes, Busy
  <2>2. work_free[i] + 0 >= 3
    BY Zenon, <1>1, <1>2, <2>1 DEF EventBound, Linked
  <2>3. work_free[i] >= 3
    BY <1>3, <2>2
  <2> QED BY Zenon, <1>1, <2>1, <2>3, Quiet
<1>5. state[i] = "CONN_RECV" /\ connect_wait[i]
  BY Zenon, <1>1, <1>2 DEF EventState
<1>6. app[i] \notin {"new", "request"} /\ ~Child(i) /\ ~Child(i)' /\ (Busy(i)' <=> Busy(i))
  BY Zenon, <1>1, <1>2 DEF OwnerInv, Child, Busy
<1>7. "ESTABLISHED" \in Events /\ "ESTABLISHED" \in Firsts /\ "connected" \in Provs
  BY Zenon DEF Events, Firsts, Provs, Linked
<1>8. /\ Queued(i)' = 1 /\ work_free'[i] = work_free[i] - 1 /\ drop_events' = drop_events
      /\ \A evs : Coming(i, evs)' <=> "ESTABLISHED" \in evs
  <2>1. EventQueued(i, "ESTABLISHED", 0)
    BY Zenon, <1>2, <1>3, <1>7, EventEffect
  <2>2. 0 + 1 = 1
    OBVIOUS
  <2> QED BY Zenon, <1>4, <2>1, <2>2 DEF EventQueued
<1>9. EventBound(i)'
  <2>1. Queued(i)' <= 1 /\ work_free'[i] + Queued(i)' >= 3
    BY <1>3, <1>4, <1>8
  <2> QED BY Zenon, <1>2, <1>3, <1>6, <2>1 DEF EventBound
<1>10. EventState(i)'
  BY Zenon, <1>2, <1>3, <1>5, <1>8 DEF EventState
<1>11. WaitInv(i)'
  BY Zenon, <1>1, <1>2, <1>3, <1>5, <1>7, <1>8 DEF WaitInv
<1>12. PICK ev \in Events, n \in {0, -1}, p \in Provs :
            /\ ev = "ESTABLISHED" /\ n = 0 /\ p = "connected"
            /\ cm_event_handler(i, ev, n) /\ prov' = [prov EXCEPT ![i] = p]
  BY Zenon, <1>2, <1>7
<1>13. /\ p \in {"none", "requested"} <=> n = -1 \/ prov[i] \in {"none", "requested"}
       /\ prov[i] \notin {"none", "requested"} /\ p # "requested"
       /\ ~Coming(i, {"CLOSE", "CONNECT_REPLY_ERR"})
  <2>1. n # -1
    BY <1>12
  <2> QED BY Zenon, <1>2, <1>4, <1>12, <2>1
<1> QED BY Zenon, <1>2, <1>3, <1>4, <1>9, <1>10, <1>11, <1>12, <1>13, ProviderEvent

\* The peer's DISCONNECT, and CLOSE, after which the provider reports nothing.
LEMMA Step_provider_closing ==
    ASSUME IwcmInv, NEW i \in Ids, provider_disconnect(i) \/ provider_close(i)
    PROVE  IwcmInv'
<1>1. /\ Types /\ IdInv(i) /\ OwnerInv(i) /\ EventBound(i) /\ EventState(i) /\ WaitInv(i)
  BY Zenon DEF IwcmInv, IdInv, FieldInv
<1>2. ASSUME NEW ev \in {"DISCONNECT", "CLOSE"}, NEW n \in {0, -1}, NEW p \in {"closing", "none"},
             prov[i] \in {"connected", "aborting", "closing"},
             cm_event_handler(i, ev, n), prov' = [prov EXCEPT ![i] = p],
             UNCHANGED <<state, connect_wait, qp, app, dpc, qp_refs, wk>>,
             p = "none" <=> n = -1, ev = "CLOSE" <=> n = -1,
             prov[i] = "closing" => p = "none"
      PROVE  IwcmInv'
  <2>1. /\ work_free[i] > 0 /\ refcount[i] > 0 /\ work_free[i] \in Nat /\ prov'[i] = p
        /\ Queued(i) \in Nat
    BY Zenon, <1>1, <1>2, LinkedFacts, Numbers DEF Linked, Types
  <2>2. ev \in Events /\ ev \notin Firsts /\ p \in Provs
    BY Zenon DEF Events, Firsts, Provs, Linked
  <2>3. /\ Queued(i)' = Queued(i) + 1 /\ work_free'[i] = work_free[i] - 1
        /\ drop_events' = drop_events
        /\ \A evs : Coming(i, evs)' <=> Coming(i, evs) \/ ev \in evs
    <3>1. EventQueued(i, ev, n)
      BY Zenon, <1>2, <2>1, <2>2, EventEffect
    <3> QED BY Zenon, <3>1 DEF EventQueued
  <2>4. ~Coming(i, {"CLOSE", "CONNECT_REPLY_ERR"}) /\ ~Coming(i, {"CLOSE"})
    BY Zenon, <1>1, <1>2 DEF EventState, Coming
  <2>5. app[i] \notin {"new", "request"} /\ ~Child(i) /\ ~Child(i)' /\ (Busy(i)' <=> Busy(i))
    BY Zenon, <1>1, <1>2 DEF OwnerInv, Child, Busy
  <2>6. EventBound(i)'
    <3>1. /\ Queued(i) <= 1 => Queued(i) + 1 <= 2
          /\ work_free[i] + Queued(i) >= 3 => (work_free[i] - 1) + (Queued(i) + 1) >= 3
      BY <2>1
    <3> QED BY Zenon, <1>1, <1>2, <2>1, <2>3, <2>5, <3>1 DEF EventBound, Linked
  <2>7. EventState(i)'
    BY Zenon, <1>1, <1>2, <2>1, <2>3, <2>4 DEF EventState
  <2>8. WaitInv(i)'
    BY Zenon, <1>1, <1>2, <2>1, <2>2, <2>3 DEF WaitInv
  <2> QED BY Zenon, <1>2, <2>1, <2>2, <2>4, <2>6, <2>7, <2>8, ProviderEvent
<1>3. CASE provider_disconnect(i)
  BY <1>2, <1>3 DEF provider_disconnect
<1>4. CASE provider_close(i)
  BY Zenon, <1>2, <1>4 DEF provider_close
<1> QED BY Zenon, <1>3, <1>4

-----------------------------------------------------------------------------
(* The work handler.                                                       *)

\* What its steps have in common between taking an event and dropping the reference: the
\* event counts as processed once the handler for it ran.
HandlerEffect(i, pc, c) ==
    /\ wk' \in WorkRecs /\ QueueInv'
    /\ \A j \in Ids : j # i /\ (Child(j)' <=> Child(j)) => SameWork(j)
    /\ Busy(i) /\ Busy(i)' /\ wk'.id = i /\ wk'.event = wk.event
    /\ Takes(i)' <=> pc = "process"
    /\ Destroys(i)' <=> pc = "destroying"
    /\ \A j \in Ids : (Child(j)' <=> pc = "notify" /\ c = j) /\ Queued(j)' = Queued(j)
    /\ \A evs : Coming(i, evs)' => Coming(i, evs)
    /\ \A evs : ~Takes(i) \/ wk.event \notin evs \/ pc = "process" =>
                   (Coming(i, evs)' <=> Coming(i, evs))
    /\ ListOrder(i) => ListOrder(i)'

\* cm_work_handler goes on so from one of its steps to the next.
LEMMA HandlerStep ==
    ASSUME Types, QueueInv, NEW i \in Ids, i = wk.id, wk.pc \notin {"idle", "loop"},
           NEW pc \in {"process", "notify", "callback", "destroying", "deref"},
           NEW c \in Ids \cup {None}, wk' = [wk EXCEPT !.pc = pc, !.child = c],
           pc = "notify" => c # i, pc = "process" => c = None /\ wk.pc = "test",
           UNCHANGED <<wq, work_list>>
    PROVE  HandlerEffect(i, pc, c)
<1>1. /\ wk.id \in Ids /\ wk.child \in Ids \cup {None} /\ wk.empty \in BOOLEAN
  BY Zenon DEF QueueInv, Types, WorkRecs
<1>2. wk' \in WorkRecs
  BY Zenon DEF Types, WorkRecs
<1>3. /\ wk'.pc = pc /\ wk'.id = wk.id /\ wk'.empty = wk.empty /\ wk'.event = wk.event
      /\ wk'.child = c
  BY Zenon DEF Types, WorkRecs
<1>4. QueueInv'
  BY <1>1, <1>3 DEF QueueInv
<1>5. \A j \in Ids : j # i /\ (Child(j)' <=> Child(j)) => SameWork(j)
  BY Zenon, <1>3 DEF SameWork, Busy, Takes, Destroys
<1>6. /\ Busy(i) /\ Busy(i)'
      /\ Takes(i)' <=> pc = "process"
      /\ Destroys(i)' <=> pc = "destroying"
      /\ \A j \in Ids : (Child(j)' <=> pc = "notify" /\ c = j) /\ Queued(j)' = Queued(j)
  BY Zenon, <1>3 DEF Busy, Takes, Destroys, Child, Queued
<1>7. Takes(i)' => Takes(i)
  BY Zenon, <1>3, <1>6 DEF Takes
<1>8. \A evs : Coming(i, evs)' => Coming(i, evs)
  BY Zenon, <1>3, <1>7 DEF Coming
<1>9. \A evs : ~Takes(i) \/ wk.event \notin evs \/ pc = "process" =>
                  (Coming(i, evs)' <=> Coming(i, evs))
  BY Zenon, <1>3, <1>6, <1>7 DEF Coming
<1>10. ListOrder(i) => ListOrder(i)'
  BY <1>3, <1>7 DEF ListOrder
<1> QED BY Zenon, <1>1, <1>2, <1>3, <1>4, <1>5, <1>6, <1>8, <1>9, <1>10 DEF HandlerEffect

\* The handler's steps that leave the fields of every cm_id alone.
LEMMA HandlerFrame ==
    ASSUME IwcmInv, NEW i \in Ids, i = wk.id, wk.pc \notin {"idle", "loop", "test", "process"},
           NEW pc \in {"callback", "deref"}, wk.pc \notin {"notify", "destroying"},
           wk' = [wk EXCEPT !.pc = pc],
           UNCHANGED <<idVars, app, dpc, qp_refs, prov, wq>>
    PROVE  IwcmInv'
<1>1. Types /\ QueueInv /\ \A j \in Ids : IdInv(j)
  BY Zenon DEF IwcmInv
<1>2. PICK c \in Ids \cup {None} : wk' = [wk EXCEPT !.pc = pc, !.child = c]
  <2>1. wk' = [wk EXCEPT !.pc = pc, !.child = wk.child] /\ wk.child \in Ids \cup {None}
    BY Zenon, <1>1 DEF Types, WorkRecs
  <2> QED BY Zenon, <2>1
<1>3. /\ wk' \in WorkRecs /\ QueueInv' /\ Busy(i) /\ Busy(i)' /\ ~Takes(i)' /\ ~Destroys(i)'
      /\ \A j \in Ids : ~Child(j)'
      /\ \A j \in Ids : j # i /\ (Child(j)' <=> Child(j)) => SameWork(j)
  <2>1. UNCHANGED <<wq, work_list>> /\ pc # "notify" /\ pc # "process" /\ pc # "destroying"
    BY Zenon DEF idVars
  <2>2. HandlerEffect(i, pc, c)
    <3>1. pc \in {"process", "notify", "callback", "destroying", "deref"}
      BY Zenon
    <3> QED BY Zenon, <1>1, <1>2, <2>1, <3>1, HandlerStep
  <2> QED BY Zenon, <2>1, <2>2 DEF HandlerEffect
<1>4. ~Takes(i) /\ ~Destroys(i) /\ \A j \in Ids : ~Child(j)
  BY Zenon, <1>1 DEF Takes, Destroys, Child, Types, WorkRecs
<1>5. \A j \in Ids : SameWork(j) /\ SameFields(j)
  BY Zenon, <1>3, <1>4 DEF SameWork, SameFields, idVars
<1>6. Types'
  BY Zenon, <1>1, <1>3 DEF Types, idVars
<1> QED BY Zenon, <1>1, <1>3, <1>5, <1>6, IdFrame DEF IwcmInv

\* cm_handler returned, and the reference of the event is next.
LEMMA Step_callback_ok ==
    ASSUME IwcmInv, callback_ok
    PROVE  IwcmInv'
BY Zenon, HandlerFrame DEF callback_ok, IwcmInv, QueueInv

\* cm_work_handler tests DROP_EVENTS.  A cm_id that is being destroyed is past its first
\* event, so the event that is dropped here is not the one that CONNECT_WAIT waits for.
LEMMA Step_work_test ==
    ASSUME IwcmInv, work_test
    PROVE  IwcmInv'
<1>1. PICK i \in Ids : i = wk.id
  BY Zenon DEF IwcmInv, QueueInv, work_test
<1>2. /\ Types /\ QueueInv /\ OwnerInv(i) /\ EventBound(i) /\ EventState(i) /\ WaitInv(i)
      /\ CountInv(i) /\ ListOrder(i)
  BY Zenon DEF IwcmInv, IdInv, FieldInv
<1>3. PICK pc \in {"deref", "process"} : pc = IF drop_events[i] THEN "deref" ELSE "process"
  OBVIOUS
<1>4. /\ wk.pc = "test" /\ wk' = [wk EXCEPT !.pc = pc, !.child = None]
      /\ UNCHANGED <<state, connect_wait, drop_events, refcount, qp, work_list, work_free,
                     app, dpc, qp_refs, prov, wq>>
  <2>1. wk.pc = "test" /\ wk.child = None /\ wk' = [wk EXCEPT !.pc = pc]
    BY Zenon, <1>1, <1>2, <1>3 DEF work_test, QueueInv
  <2>2. wk' = [wk EXCEPT !.pc = pc, !.child = None]
    BY Zenon, <1>2, <2>1 DEF Types, WorkRecs
  <2> QED BY Zenon, <2>1, <2>2 DEF work_test, idVars
<1> HIDE DEF work_test
<1>5. /\ wk' \in WorkRecs /\ QueueInv' /\ Busy(i) /\ Busy(i)' /\ ~Destroys(i)'
      /\ Takes(i)' <=> pc = "process"
      /\ \A j \in Ids : ~Child(j)' /\ Queued(j)' = Queued(j)
      /\ \A j \in Ids : j # i /\ (Child(j)' <=> Child(j)) => SameWork(j)
      /\ \A evs : Coming(i, evs)' => Coming(i, evs)
      /\ pc = "process" => \A evs : Coming(i, evs)' <=> Coming(i, evs)
      /\ ListOrder(i)'
  <2>1. HandlerEffect(i, pc, None)
    BY Zenon, <1>1, <1>2, <1>4, HandlerStep
  <2> QED BY Zenon, <1>2, <2>1 DEF HandlerEffect
<1>6. Takes(i) /\ ~Destroys(i) /\ \A j \in Ids : ~Child(j)
  BY Zenon, <1>1, <1>4 DEF Takes, Destroys, Child
<1>7. \A j \in Ids : j # i => SameFields(j) /\ SameWork(j)
  BY Zenon, <1>4, <1>5, <1>6 DEF SameFields
<1>8. Types'
  BY Zenon, <1>2, <1>4, <1>5 DEF Types
<1>9. CountInv(i)'
  BY Zenon, <1>2, <1>4, <1>5, <1>6 DEF CountInv, Handle
<1>10. OwnerInv(i)'
  BY Zenon, <1>2, <1>4, <1>5, <1>6 DEF OwnerInv
<1>11. EventBound(i)'
  BY Zenon, <1>2, <1>4, <1>5, <1>6 DEF EventBound
<1>12. EventState(i)'
  BY Zenon, <1>2, <1>4, <1>5 DEF EventState
<1>13. WaitInv(i)'
  BY Zenon, <1>2, <1>3, <1>4, <1>5 DEF WaitInv
<1> QED BY Zenon, <1>5, <1>7, <1>8, <1>9, <1>10, <1>11, <1>12, <1>13, OneId DEF FieldInv

\* The fields of the cm_id that the handler processes an event for.
LEMMA ProcessingFacts ==
    ASSUME IwcmInv, wk.pc = "process"
    PROVE  \E i \in Ids :
              /\ i = wk.id /\ Takes(i) /\ Busy(i) /\ ~Destroys(i) /\ wk.child = None
              /\ \A j \in Ids : ~Child(j)
              /\ Types /\ QueueInv /\ OwnerInv(i) /\ EventBound(i) /\ EventState(i)
              /\ WaitInv(i) /\ CountInv(i) /\ ListOrder(i)
              /\ refcount[i] > 0 /\ app[i] \notin {"new", "request"}
              /\ prov[i] \notin {"requested", "connecting", "accepted"}
              /\ \A evs : wk.event \in evs => Coming(i, evs)
<1>1. PICK i \in Ids : i = wk.id
  BY Zenon DEF IwcmInv, QueueInv
<1>2. /\ Types /\ QueueInv /\ OwnerInv(i) /\ EventBound(i) /\ EventState(i)
      /\ WaitInv(i) /\ CountInv(i) /\ ListOrder(i)
  BY Zenon DEF IwcmInv, IdInv, FieldInv
<1>3. /\ Takes(i) /\ Busy(i) /\ ~Destroys(i) /\ wk.child = None
      /\ \A j \in Ids : ~Child(j)
  BY Zenon, <1>1, <1>2 DEF Takes, Busy, Destroys, Child, QueueInv
<1>4. refcount[i] > 0
  BY <1>2, <1>3, Numbers DEF CountInv
<1>5. app[i] \notin {"new", "request"} /\ prov[i] \notin {"requested", "connecting", "accepted"}
  BY Zenon, <1>2, <1>3 DEF EventBound
<1>6. \A evs : wk.event \in evs => Coming(i, evs)
  BY Zenon, <1>3 DEF Coming
<1> QED BY Zenon, <1>1, <1>2, <1>3, <1>4, <1>5, <1>6

\* A handler that processes an event of a connection: it touches no other cm_id.
LEMMA EventHandled ==
    ASSUME IwcmInv, wk.pc = "process", NEW i \in Ids, i = wk.id,
           NEW pc \in {"notify", "deref"}, wk' = [wk EXCEPT !.pc = pc],
           \A j \in Ids : j # i => SameFields(j),
           UNCHANGED <<drop_events, refcount, work_list, work_free, app, dpc, prov, wq>>,
           state' \in [Ids -> States], connect_wait' \in [Ids -> BOOLEAN],
           qp' \in [Ids -> BOOLEAN], qp_refs' \in [Ids -> Int]
    PROVE  /\ Queued(i)' = Queued(i) /\ ~Child(i)' /\ ~Destroys(i)'
           /\ \A evs : Coming(i, evs)' => Coming(i, evs)
           /\ \A evs : wk.event \notin evs => (Coming(i, evs)' <=> Coming(i, evs))
           /\ wk.event \in Firsts => ~Coming(i, Firsts)'
           /\ wk.event \in {"CLOSE", "CONNECT_REPLY_ERR"} => \A evs : ~Coming(i, evs)'
           /\ (qp'[i] => qp[i] \/ app[i] \in {"idle", "modify"} \/ dpc[i].pc \in {"wait", "lock"})
                 => OwnerInv(i)'
           /\ EventBound(i)'
           /\ WaitInv(i)' /\ EventState(i)' /\ OwnerInv(i)' /\ CountInv(i)' => IwcmInv'
<1>1. /\ Takes(i) /\ Busy(i) /\ ~Destroys(i) /\ wk.child = None /\ \A j \in Ids : ~Child(j)
      /\ Types /\ QueueInv /\ OwnerInv(i) /\ EventBound(i) /\ ListOrder(i)
      /\ app[i] \notin {"new", "request"}
      /\ prov[i] \notin {"requested", "connecting", "accepted"}
  BY Zenon, ProcessingFacts
<1>2. wk' = [wk EXCEPT !.pc = pc, !.child = None] /\ None \notin Ids
  BY Zenon, <1>1, IwcmAssumption DEF Types, WorkRecs
<1>3. /\ wk' \in WorkRecs /\ QueueInv' /\ Busy(i)' /\ ~Takes(i)' /\ ~Destroys(i)'
      /\ \A j \in Ids : ~Child(j)' /\ Queued(j)' = Queued(j)
      /\ \A j \in Ids : j # i /\ (Child(j)' <=> Child(j)) => SameWork(j)
      /\ \A evs : Coming(i, evs)' => Coming(i, evs)
      /\ \A evs : wk.event \notin evs => (Coming(i, evs)' <=> Coming(i, evs))
      /\ ListOrder(i)'
  <2>1. pc = "notify" => None # i
    BY Zenon, <1>2
  <2>2. pc # "process" /\ pc # "destroying"
    OBVIOUS
  <2>3. wk.pc \notin {"idle", "loop"} /\ UNCHANGED <<wq, work_list>> /\ Types /\ QueueInv
    BY Zenon, <1>1
  <2>4. PICK c \in Ids \cup {None} : c = None /\ wk' = [wk EXCEPT !.pc = pc, !.child = c]
    BY Zenon, <1>2
  <2>5. /\ wk' \in WorkRecs /\ QueueInv' /\ Busy(i)' /\ (Takes(i)' <=> pc = "process")
        /\ Destroys(i)' <=> pc = "destroying"
        /\ \A j \in Ids : (Child(j)' <=> pc = "notify" /\ c = j) /\ Queued(j)' = Queued(j)
        /\ \A j \in Ids : j # i /\ (Child(j)' <=> Child(j)) => SameWork(j)
        /\ \A evs : Coming(i, evs)' => Coming(i, evs)
        /\ \A evs : ~Takes(i) \/ wk.event \notin evs \/ pc = "process" =>
                          (Coming(i, evs)' <=> Coming(i, evs))
        /\ ListOrder(i) => ListOrder(i)'
    <3>1. /\ pc \in {"process", "notify", "callback", "destroying", "deref"}
          /\ pc = "notify" => c # i
          /\ wk' = [wk EXCEPT !.pc = pc, !.child = c]
      BY Zenon, <2>1, <2>4
    <3>2. HandlerEffect(i, pc, c)
      BY Zenon, <2>2, <2>3, <3>1, HandlerStep
    <3> QED BY Zenon, <3>2 DEF HandlerEffect
  <2> QED BY Zenon, <1>1, <1>2, <2>2, <2>4, <2>5
<1>4. wk.event \in Firsts => ~Coming(i, Firsts)'
  BY Zenon, <1>1, <1>3 DEF Coming, ListOrder
<1>5. wk.event \in {"CLOSE", "CONNECT_REPLY_ERR"} => \A evs : ~Coming(i, evs)'
  <2>1. wk.event \in {"CLOSE", "CONNECT_REPLY_ERR"} => work_list'[i] = << >>
    BY Zenon, <1>1 DEF ListOrder
  <2> QED BY <1>3, <2>1 DEF Coming
<1>6. (qp'[i] => qp[i] \/ app[i] \in {"idle", "modify"} \/ dpc[i].pc \in {"wait", "lock"})
         => OwnerInv(i)'
  BY Zenon, <1>1, <1>3 DEF OwnerInv
<1>7. EventBound(i)'
  BY Zenon, <1>1, <1>3 DEF EventBound
<1>8. Types'
  BY Zenon, <1>1, <1>3 DEF Types
<1>9. \A j \in Ids : j # i => SameWork(j)
  BY Zenon, <1>1, <1>3
<1> QED BY Zenon, <1>3, <1>4, <1>5, <1>6, <1>7, <1>8, <1>9, OneId DEF FieldInv

\* The answer to iw_connect ends CONNECT_WAIT; that of a rejected one gives the QP back.
LEMMA Step_cm_conn_rep_handler ==
    ASSUME IwcmInv, cm_conn_rep_handler
    PROVE  IwcmInv'
<1>1. wk.pc = "process" /\ wk.event \in {"CONNECT_REPLY_OK", "CONNECT_REPLY_ERR"}
  BY Zenon DEF cm_conn_rep_handler, Processing
<1>2. PICK i \in Ids :
          /\ i = wk.id /\ Types /\ OwnerInv(i) /\ EventState(i) /\ WaitInv(i) /\ CountInv(i)
          /\ Busy(i) /\ \A evs : wk.event \in evs => Coming(i, evs)
  BY Zenon, <1>1, ProcessingFacts
<1>3. state[i] = "CONN_SENT" /\ connect_wait[i]
  BY Zenon, <1>1, <1>2 DEF EventState
<1>4. PICK s \in States : s = IF wk.event = "CONNECT_REPLY_OK" THEN "ESTABLISHED" ELSE "IDLE"
  BY Zenon DEF States
<1>5. /\ connect_wait' = [connect_wait EXCEPT ![i] = FALSE]
      /\ state' = [state EXCEPT ![i] = s]
      /\ qp' = [qp EXCEPT ![i] = wk.event = "CONNECT_REPLY_OK" /\ @]
      /\ qp_refs' = [qp_refs EXCEPT ![i] = IF wk.event # "CONNECT_REPLY_OK" /\ qp[i]
                                           THEN @ - 1 ELSE @]
      /\ wk' = [wk EXCEPT !.pc = "notify"]
      /\ UNCHANGED <<drop_events, refcount, work_list, work_free, app, dpc, prov, wq>>
  BY Zenon, <1>2, <1>4 DEF cm_conn_rep_handler
<1> HIDE DEF cm_conn_rep_handler
<1>6. /\ state' \in [Ids -> States] /\ connect_wait' \in [Ids -> BOOLEAN]
      /\ qp' \in [Ids -> BOOLEAN] /\ qp_refs' \in [Ids -> Int]
  BY <1>2, <1>5 DEF Types
<1>7. /\ ~connect_wait'[i] /\ state'[i] = s /\ (qp'[i] => qp[i])
      /\ wk.event = "CONNECT_REPLY_OK" => (qp'[i] <=> qp[i]) /\ qp_refs'[i] = qp_refs[i]
      /\ wk.event # "CONNECT_REPLY_OK" =>
            ~qp'[i] /\ qp_refs'[i] = IF qp[i] THEN qp_refs[i] - 1 ELSE qp_refs[i]
  BY Zenon, <1>2, <1>5 DEF Types
<1>8. \A j \in Ids : j # i => SameFields(j)
  BY Zenon, <1>2, <1>5 DEF Types, SameFields
<1>9. /\ Queued(i)' = Queued(i) /\ ~Child(i)' /\ OwnerInv(i)' /\ Busy(i)'
      /\ \A evs : Coming(i, evs)' => Coming(i, evs)
      /\ ~Coming(i, Firsts)'
      /\ wk.event = "CONNECT_REPLY_ERR" => \A evs : ~Coming(i, evs)'
      /\ WaitInv(i)' /\ EventState(i)' /\ OwnerInv(i)' /\ CountInv(i)' => IwcmInv'
  <2>1. PICK pc \in {"notify", "deref"} : pc = "notify" /\ wk' = [wk EXCEPT !.pc = pc]
    BY Zenon, <1>5
  <2>2. Busy(i)'
    BY Zenon, <1>2, <1>5 DEF Busy, Types, WorkRecs
  <2>3. wk.event \in Firsts
    BY Zenon, <1>1 DEF Firsts
  <2> QED BY Zenon, <1>1, <1>2, <1>5, <1>6, <1>7, <1>8, <2>1, <2>2, <2>3, EventHandled
<1>10. \A evs : evs \subseteq Firsts => ~Coming(i, evs)'
  BY Zenon, <1>9 DEF Coming
<1>11. EventState(i)'
  <2>1. /\ ~Coming(i, {"CONNECT_REPLY_OK", "CONNECT_REPLY_ERR"})' /\ ~Coming(i, {"ESTABLISHED"})'
    BY Zenon, <1>10 DEF Firsts
  <2>2. prov[i] \notin {"connecting", "accepted"} /\ prov' = prov
    BY Zenon, <1>1, <1>5, ProcessingFacts, <1>2
  <2>3. wk.event = "CONNECT_REPLY_ERR" => prov[i] = "none"
    BY Zenon, <1>2 DEF EventState
  <2> QED BY Zenon, <1>1, <1>2, <1>4, <1>7, <1>9, <2>1, <2>2, <2>3 DEF EventState
<1>12. WaitInv(i)'
  BY <1>2, <1>3, <1>4, <1>5, <1>7 DEF WaitInv
<1>13. CountInv(i)'
  <2>1. ~Child(i)
    BY Zenon, <1>1, ProcessingFacts
  <2>2. qp_refs[i] \in Int /\ (Handle(i)' <=> Handle(i))
    BY Zenon, <1>2, <1>5, <1>9, <2>1, Numbers DEF Handle
  <2> QED BY <1>2, <1>5, <1>7, <1>9, <2>2 DEF CountInv
<1> QED BY Zenon, <1>9, <1>11, <1>12, <1>13

\* ESTABLISHED ends CONNECT_WAIT on the passive side.
LEMMA Step_cm_conn_est_handler ==
    ASSUME IwcmInv, cm_conn_est_handler
    PROVE  IwcmInv'
<1>1. wk.pc = "process" /\ wk.event = "ESTABLISHED"
  BY Zenon DEF cm_conn_est_handler, Processing
<1>2. PICK i \in Ids :
          /\ i = wk.id /\ Types /\ OwnerInv(i) /\ EventState(i) /\ WaitInv(i) /\ CountInv(i)
          /\ Busy(i) /\ ~Child(i) /\ prov[i] \notin {"requested", "connecting", "accepted"}
          /\ \A evs : wk.event \in evs => Coming(i, evs)
  BY Zenon, <1>1, ProcessingFacts
<1>3. state[i] = "CONN_RECV" /\ connect_wait[i]
  BY Zenon, <1>1, <1>2 DEF EventState
<1>4. /\ connect_wait' = [connect_wait EXCEPT ![i] = FALSE]
      /\ state' = [state EXCEPT ![i] = "ESTABLISHED"]
      /\ wk' = [wk EXCEPT !.pc = "notify"]
      /\ UNCHANGED <<drop_events, refcount, qp, work_list, work_free, app, dpc, qp_refs,
                     prov, wq>>
  BY Zenon, <1>2 DEF cm_conn_est_handler
<1> HIDE DEF cm_conn_est_handler
<1>5. /\ state' \in [Ids -> States] /\ connect_wait' \in [Ids -> BOOLEAN]
      /\ qp' \in [Ids -> BOOLEAN] /\ qp_refs' \in [Ids -> Int]
  BY Zenon, <1>2, <1>4 DEF Types, States
<1>6. /\ ~connect_wait'[i] /\ state'[i] = "ESTABLISHED"
      /\ \A j \in Ids : j # i => SameFields(j)
  BY Zenon, <1>2, <1>4 DEF Types, SameFields
<1>7. /\ Queued(i)' = Queued(i) /\ ~Child(i)' /\ OwnerInv(i)' /\ Busy(i)'
      /\ \A evs : Coming(i, evs)' => Coming(i, evs)
      /\ ~Coming(i, Firsts)'
      /\ WaitInv(i)' /\ EventState(i)' /\ OwnerInv(i)' /\ CountInv(i)' => IwcmInv'
  <2>1. PICK pc \in {"notify", "deref"} : pc = "notify" /\ wk' = [wk EXCEPT !.pc = pc]
    BY Zenon, <1>4
  <2>2. Busy(i)'
    BY Zenon, <1>2, <1>4 DEF Busy, Types, WorkRecs
  <2>3. wk.event \in Firsts
    BY Zenon, <1>1 DEF Firsts
  <2> QED BY Zenon, <1>1, <1>2, <1>4, <1>5, <1>6, <2>1, <2>2, <2>3, EventHandled
<1>8. EventState(i)'
  <2>1. /\ ~Coming(i, {"CONNECT_REPLY_OK", "CONNECT_REPLY_ERR"})' /\ ~Coming(i, {"ESTABLISHED"})'
    BY Zenon, <1>7 DEF Firsts, Coming
  <2> QED BY Zenon, <1>2, <1>4, <1>6, <1>7, <2>1 DEF EventState
<1>9. WaitInv(i)'
  BY Zenon, <1>2, <1>3, <1>4, <1>6 DEF WaitInv
<1>10. CountInv(i)'
  BY Zenon, <1>2, <1>4, <1>7 DEF CountInv, Handle
<1> QED BY Zenon, <1>7, <1>8, <1>9, <1>10

\* DISCONNECT is for the record: a connection that is being destroyed, or that the client
\* closes, stays as it is.
LEMMA Step_cm_disconnect_handler ==
    ASSUME IwcmInv, cm_disconnect_handler
    PROVE  IwcmInv'
<1>1. wk.pc = "process" /\ wk.event = "DISCONNECT"
  BY Zenon DEF cm_disconnect_handler, Processing
<1>2. PICK i \in Ids :
          /\ i = wk.id /\ Types /\ OwnerInv(i) /\ EventState(i) /\ WaitInv(i) /\ CountInv(i)
          /\ Busy(i) /\ ~Child(i)
  BY Zenon, <1>1, ProcessingFacts
<1>3. PICK s \in States : s = IF state[i] = "ESTABLISHED" THEN "CLOSING" ELSE state[i]
  BY Zenon, <1>2 DEF States, Types
<1>4. /\ state' = [state EXCEPT ![i] = s] /\ wk' = [wk EXCEPT !.pc = "deref"]
      /\ UNCHANGED <<connect_wait, drop_events, refcount, qp, work_list, work_free, app, dpc,
                     qp_refs, prov, wq>>
  BY Zenon, <1>2, <1>3 DEF cm_disconnect_handler
<1> HIDE DEF cm_disconnect_handler
<1>5. /\ state' \in [Ids -> States] /\ connect_wait' \in [Ids -> BOOLEAN]
      /\ qp' \in [Ids -> BOOLEAN] /\ qp_refs' \in [Ids -> Int]
  BY Zenon, <1>2, <1>4 DEF Types
<1>6. state'[i] = s /\ \A j \in Ids : j # i => SameFields(j)
  BY Zenon, <1>2, <1>4 DEF Types, SameFields
<1>7. /\ Queued(i)' = Queued(i) /\ ~Child(i)' /\ OwnerInv(i)' /\ Busy(i)'
      /\ \A evs : Coming(i, evs)' => Coming(i, evs)
      /\ \A evs : wk.event \notin evs => (Coming(i, evs)' <=> Coming(i, evs))
      /\ WaitInv(i)' /\ EventState(i)' /\ OwnerInv(i)' /\ CountInv(i)' => IwcmInv'
  <2>1. PICK pc \in {"notify", "deref"} : pc = "deref" /\ wk' = [wk EXCEPT !.pc = pc]
    BY Zenon, <1>4
  <2>2. Busy(i)'
    BY Zenon, <1>2, <1>4 DEF Busy, Types, WorkRecs
  <2> QED BY Zenon, <1>1, <1>2, <1>4, <1>5, <1>6, <2>1, <2>2, EventHandled
<1>8. EventState(i)'
  BY Zenon, <1>2, <1>3, <1>4, <1>6, <1>7 DEF EventState
<1>9. WaitInv(i)'
  <2>1. Coming(i, Firsts)' <=> Coming(i, Firsts)
    BY Zenon, <1>1, <1>7 DEF Firsts
  <2> QED BY <1>2, <1>3, <1>4, <1>6, <2>1 DEF WaitInv, Locked
<1>10. CountInv(i)'
  BY Zenon, <1>2, <1>4, <1>7 DEF CountInv, Handle
<1> QED BY Zenon, <1>7, <1>8, <1>9, <1>10

\* CLOSE is the last event; it gives the QP back unless destroy_cm_id took it.
LEMMA Step_cm_close_handler ==
    ASSUME IwcmInv, cm_close_handler
    PROVE  IwcmInv'
<1>1. wk.pc = "process" /\ wk.event = "CLOSE"
  BY Zenon DEF cm_close_handler, Processing
<1>2. PICK i \in Ids :
          /\ i = wk.id /\ Types /\ OwnerInv(i) /\ EventState(i) /\ WaitInv(i) /\ CountInv(i)
          /\ Busy(i) /\ ~Child(i) /\ ListOrder(i) /\ Takes(i)
          /\ \A evs : wk.event \in evs => Coming(i, evs)
  BY Zenon, <1>1, ProcessingFacts
<1>3. prov[i] = "none" /\ work_list[i] = << >>
  BY Zenon, <1>1, <1>2 DEF EventState, ListOrder
<1>4. ~connect_wait[i] /\ state[i] \in {"ESTABLISHED", "CLOSING", "DESTROYING"}
  <2>1. ~Coming(i, Firsts)
    BY <1>1, <1>2, <1>3 DEF Coming, Firsts
  <2> QED BY Zenon, <1>1, <1>2, <1>3, <2>1 DEF WaitInv, EventState
<1>5. PICK s \in States : s = IF state[i] = "DESTROYING" THEN "DESTROYING" ELSE "IDLE"
  BY Zenon DEF States
<1>6. PICK pc \in {"notify", "deref"} : pc = IF state[i] = "DESTROYING" THEN "deref" ELSE "notify"
  OBVIOUS
<1>7. /\ state' = [state EXCEPT ![i] = s] /\ wk' = [wk EXCEPT !.pc = pc]
      /\ qp' = [qp EXCEPT ![i] = FALSE]
      /\ qp_refs' = [qp_refs EXCEPT ![i] = IF qp[i] THEN @ - 1 ELSE @]
      /\ UNCHANGED <<connect_wait, drop_events, refcount, work_list, work_free, app, dpc,
                     prov, wq>>
  <2>1. /\ state[i] \in {"ESTABLISHED", "CLOSING"} <=> state[i] # "DESTROYING"
    BY Zenon, <1>4
  <2>2. state' = [state EXCEPT ![i] = s]
    BY Zenon, <1>2, <1>5, <2>1 DEF cm_close_handler, Types
  <2>3. wk' = [wk EXCEPT !.pc = pc]
    BY Zenon, <1>2, <1>6, <2>1 DEF cm_close_handler
  <2> QED BY Zenon, <1>2, <2>2, <2>3 DEF cm_close_handler, CloseTakesQp
<1> HIDE DEF cm_close_handler
<1>8. /\ state' \in [Ids -> States] /\ connect_wait' \in [Ids -> BOOLEAN]
      /\ qp' \in [Ids -> BOOLEAN] /\ qp_refs' \in [Ids -> Int]
  BY <1>2, <1>7 DEF Types
<1>9. /\ state'[i] = s /\ ~qp'[i] /\ \A j \in Ids : j # i => SameFields(j)
      /\ qp_refs'[i] = IF qp[i] THEN qp_refs[i] - 1 ELSE qp_refs[i]
  BY Zenon, <1>2, <1>7 DEF Types, SameFields
<1>10. /\ Queued(i)' = Queued(i) /\ ~Child(i)' /\ OwnerInv(i)' /\ Busy(i)'
       /\ \A evs : ~Coming(i, evs)'
       /\ WaitInv(i)' /\ EventState(i)' /\ OwnerInv(i)' /\ CountInv(i)' => IwcmInv'
  <2>1. Busy(i)'
    BY Zenon, <1>2, <1>7 DEF Busy, Types, WorkRecs
  <2>2. wk.event \in {"CLOSE", "CONNECT_REPLY_ERR"}
    BY Zenon, <1>1
  <2> QED BY Zenon, <1>1, <1>2, <1>7, <1>8, <1>9, <2>1, <2>2, EventHandled
<1>11. EventState(i)'
  BY Zenon, <1>3, <1>7, <1>10 DEF EventState
<1>12. WaitInv(i)'
  BY <1>2, <1>3, <1>4, <1>5, <1>7, <1>9 DEF WaitInv, Locked
<1>13. CountInv(i)'
  <2>1. qp_refs[i] \in Int /\ (Handle(i)' <=> Handle(i))
    BY Zenon, <1>2, <1>7, <1>10, Numbers DEF Handle
  <2> QED BY <1>2, <1>7, <1>9, <1>10, <2>1 DEF CountInv
<1> QED BY Zenon, <1>10, <1>11, <1>12, <1>13

\* A request brings a new cm_id, known to nobody until the callback, or is dropped.
LEMMA Step_cm_conn_req_handler ==
    ASSUME IwcmInv, cm_conn_req_handler
    PROVE  IwcmInv'
<1>1. wk.pc = "process" /\ wk.event = "CONNECT_REQUEST"
  BY Zenon DEF cm_conn_req_handler, Processing
<1>2. PICK i \in Ids :
          /\ i = wk.id /\ Types /\ QueueInv /\ OwnerInv(i) /\ EventBound(i) /\ EventState(i)
          /\ WaitInv(i) /\ CountInv(i) /\ ListOrder(i) /\ Takes(i) /\ Busy(i) /\ ~Destroys(i)
          /\ (\A j \in Ids : ~Child(j)) /\ wk.child = None /\ refcount[i] > 0
  BY Zenon, <1>1, ProcessingFacts
<1>3. UNCHANGED <<connect_wait, drop_events, qp, work_list, app, dpc, qp_refs, wq>>
  BY Zenon DEF cm_conn_req_handler
<1>4. CASE wk' = [wk EXCEPT !.pc = "deref"] /\ UNCHANGED <<state, refcount, work_free, prov>>
  <2>1. /\ state' \in [Ids -> States] /\ connect_wait' \in [Ids -> BOOLEAN]
        /\ qp' \in [Ids -> BOOLEAN] /\ qp_refs' \in [Ids -> Int]
    BY Zenon, <1>2, <1>3, <1>4 DEF Types
  <2>2. \A j \in Ids : j # i => SameFields(j)
    BY Zenon, <1>3, <1>4 DEF SameFields
  <2>3. PICK pc \in {"notify", "deref"} : pc = "deref" /\ wk' = [wk EXCEPT !.pc = pc]
    BY Zenon, <1>4
  <2>4. /\ Queued(i)' = Queued(i) /\ ~Child(i)' /\ OwnerInv(i)'
        /\ \A evs : wk.event \notin evs => (Coming(i, evs)' <=> Coming(i, evs))
        /\ WaitInv(i)' /\ EventState(i)' /\ OwnerInv(i)' /\ CountInv(i)' => IwcmInv'
    BY Zenon, <1>1, <1>2, <1>3, <1>4, <2>1, <2>2, <2>3, EventHandled
  <2>5. Busy(i)'
    BY Zenon, <1>2, <1>4 DEF Busy, Types, WorkRecs
  <2>6. EventState(i)'
    BY Zenon, <1>1, <1>2, <1>3, <1>4, <2>4 DEF EventState
  <2>7. WaitInv(i)'
    <3>1. Coming(i, Firsts)' <=> Coming(i, Firsts)
      BY Zenon, <1>1, <2>4 DEF Firsts
    <3> QED BY Zenon, <1>2, <1>3, <1>4, <3>1 DEF WaitInv
  <2>8. CountInv(i)'
    BY Zenon, <1>2, <1>3, <1>4, <2>4, <2>5 DEF CountInv, Handle
  <2> QED BY Zenon, <2>4, <2>6, <2>7, <2>8
<1>5. ASSUME NEW c \in Ids, refcount[c] = 0,
             refcount' = [refcount EXCEPT ![c] = 1],
             state' = [state EXCEPT ![c] = "CONN_RECV"],
             work_free' = [work_free EXCEPT ![c] = PassiveWorks],
             prov' = [prov EXCEPT ![c] = "requested"],
             wk' = [wk EXCEPT !.pc = "notify", !.child = c]
      PROVE  IwcmInv'
  <2>1. /\ c # i
        /\ app[c] = "none" /\ dpc[c].pc = "none" /\ ~Busy(c) /\ ~Destroys(c)
        /\ work_list[c] = << >> /\ Queued(c) = 0
        /\ ~qp[c] /\ ~connect_wait[c] /\ ~drop_events[c] /\ ~dpc[c].qp /\ qp_refs[c] = 0
        /\ \A evs : ~Coming(c, evs)
    BY Zenon, <1>2, <1>5, Unreferenced DEF IwcmInv
  <2>2. /\ wk' \in WorkRecs /\ QueueInv' /\ Busy(i)' /\ ~Takes(i)' /\ ~Destroys(i)'
        /\ wk'.id = i
        /\ \A j \in Ids : (Child(j)' <=> c = j) /\ Queued(j)' = Queued(j)
        /\ \A j \in Ids : j # i /\ (Child(j)' <=> Child(j)) => SameWork(j)
        /\ \A evs : wk.event \notin evs => (Coming(i, evs)' <=> Coming(i, evs))
        /\ ListOrder(i)'
    <3>1. PICK pc \in {"process", "notify", "callback", "destroying", "deref"} :
              pc = "notify" /\ wk' = [wk EXCEPT !.pc = pc, !.child = c]
      BY Zenon, <1>5
    <3>2. c \in Ids \cup {None} /\ c # i /\ wk.pc \notin {"idle", "loop"} /\ pc # "process"
      BY Zenon, <1>1, <2>1, <3>1
    <3>3. /\ wk' \in WorkRecs /\ QueueInv' /\ Busy(i)' /\ (Takes(i)' <=> pc = "process")
          /\ Destroys(i)' <=> pc = "destroying"
          /\ wk'.id = i
          /\ \A j \in Ids : (Child(j)' <=> pc = "notify" /\ c = j) /\ Queued(j)' = Queued(j)
          /\ \A j \in Ids : j # i /\ (Child(j)' <=> Child(j)) => SameWork(j)
          /\ \A evs : ~Takes(i) \/ wk.event \notin evs \/ pc = "process" =>
                          (Coming(i, evs)' <=> Coming(i, evs))
          /\ ListOrder(i) => ListOrder(i)'
      <4>1. HandlerEffect(i, pc, c)
        BY Zenon, <1>2, <1>3, <3>1, <3>2, HandlerStep
      <4> QED BY Zenon, <4>1 DEF HandlerEffect
    <3> QED BY Zenon, <1>2, <3>1, <3>3
  <2>3. Types'
    <3>1. refcount' \in [Ids -> Int] /\ work_free' \in [Ids -> Nat]
      BY <1>2, <1>5 DEF Types, PassiveWorks
    <3>2. state' \in [Ids -> States] /\ prov' \in [Ids -> Provs]
      BY Zenon, <1>2, <1>5 DEF Types, States, Provs
    <3> QED BY Zenon, <1>2, <1>3, <2>2, <3>1, <3>2 DEF Types
  <2>4. /\ refcount'[c] = 1 /\ state'[c] = "CONN_RECV" /\ work_free'[c] = 3
        /\ prov'[c] = "requested"
        /\ \A j \in Ids : j # c => SameFields(j)
    BY Zenon, <1>2, <1>3, <1>5 DEF Types, SameFields, PassiveWorks
  <2>5. IdInv(i)'
    <3>1. /\ state'[i] = state[i] /\ refcount'[i] = refcount[i] /\ prov'[i] = prov[i]
          /\ work_free'[i] = work_free[i]
      BY Zenon, <2>1, <2>4 DEF SameFields
    <3>2. OwnerInv(i)'
      BY Zenon, <1>2, <1>3, <2>1, <2>2, <3>1 DEF OwnerInv
    <3>3. EventBound(i)'
      BY Zenon, <1>2, <1>3, <2>1, <2>2, <3>1 DEF EventBound
    <3>4. EventState(i)'
      BY Zenon, <1>1, <1>2, <1>3, <2>2, <3>1 DEF EventState
    <3>5. WaitInv(i)'
      <4>1. Coming(i, Firsts)' <=> Coming(i, Firsts)
        BY Zenon, <1>1, <2>2 DEF Firsts
      <4> QED BY Zenon, <1>2, <1>3, <3>1, <4>1 DEF WaitInv
    <3>6. CountInv(i)'
      BY Zenon, <1>2, <1>3, <2>1, <2>2, <3>1 DEF CountInv, Handle
    <3> QED BY Zenon, <2>2, <3>2, <3>3, <3>4, <3>5, <3>6 DEF IdInv, FieldInv
  <2>6. IdInv(c)'
    <3>1. ~Busy(c)' /\ ~Destroys(c)' /\ Child(c)' /\ ~Takes(c)'
      BY Zenon, <2>1, <2>2 DEF Busy, Destroys, Takes
    <3>2. \A evs : ~Coming(c, evs)'
      BY Zenon, <1>3, <2>1, <2>3, <3>1 DEF Coming
    <3>3. OwnerInv(c)'
      BY Zenon, <1>3, <2>1, <2>4, <3>1 DEF OwnerInv
    <3>4. EventBound(c)'
      <4>1. work_list'[c] = << >>
        BY Zenon, <1>3, <2>1
      <4>2. work_free'[c] + Queued(c)' >= 3
        <5>1. Queued(c)' = 0
          BY Zenon, <2>1, <2>2
        <5>2. 3 + 0 >= 3
          OBVIOUS
        <5> QED BY Zenon, <2>4, <5>1, <5>2
      <4>3. prov'[c] \notin {"connected", "aborting", "closing"}
        BY Zenon, <2>4
      <4> QED BY Zenon, <3>1, <4>1, <4>2, <4>3 DEF EventBound
    <3>5. EventState(c)'
      BY Zenon, <2>4, <3>2 DEF EventState
    <3>6. WaitInv(c)'
      BY Zenon, <1>3, <2>1, <2>4 DEF WaitInv, Locked
    <3>7. CountInv(c)'
      BY <1>3, <2>1, <2>2, <2>4, <3>1 DEF CountInv, Handle
    <3>8. ListOrder(c)'
      BY <1>3, <2>1, <3>1 DEF ListOrder
    <3> QED BY Zenon, <3>3, <3>4, <3>5, <3>6, <3>7, <3>8 DEF IdInv, FieldInv
  <2>7. ASSUME NEW j \in Ids, j # i, j # c PROVE IdInv(j)'
    BY Zenon, <1>2, <2>2, <2>4, <2>7, IdFrame DEF IwcmInv
  <2> QED BY Zenon, <2>2, <2>3, <2>5, <2>6, <2>7 DEF IwcmInv
<1> QED BY Zenon, <1>4, <1>5 DEF cm_conn_req_handler

\* The callback: from now on the client has the cm_id of a request.
LEMMA Step_work_notify ==
    ASSUME IwcmInv, work_notify
    PROVE  IwcmInv'
<1>1. PICK i \in Ids : i = wk.id
  BY Zenon DEF IwcmInv, QueueInv, work_notify
<1>2. PICK c \in Ids \cup {None} : c = wk.child
  BY Zenon DEF IwcmInv, Types, WorkRecs
<1>3. /\ wk.pc = "notify" /\ wk' = [wk EXCEPT !.pc = "callback"] /\ c # i
      /\ app' = IF c = None THEN app ELSE [app EXCEPT ![c] = "request"]
      /\ UNCHANGED <<state, connect_wait, drop_events, refcount, qp, work_list, work_free,
                     dpc, qp_refs, prov, wq>>
  BY Zenon, <1>1, <1>2 DEF work_notify, idVars, IwcmInv, QueueInv
<1>4. Types /\ QueueInv
  BY Zenon DEF IwcmInv
<1> HIDE DEF work_notify
<1>5. /\ wk' \in WorkRecs /\ QueueInv' /\ \A j \in Ids : ~Child(j)'
      /\ \A j \in Ids : j # c => SameWork(j)
  <2>1. PICK pc \in {"process", "notify", "callback", "destroying", "deref"} :
            pc = "callback" /\ wk' = [wk EXCEPT !.pc = pc, !.child = c]
    <3>1. wk' = [wk EXCEPT !.pc = "callback", !.child = c]
      BY Zenon, <1>2, <1>3, <1>4 DEF Types, WorkRecs
    <3> QED BY Zenon, <3>1
  <2>2. /\ wk' \in WorkRecs /\ QueueInv' /\ \A j \in Ids : ~Child(j)'
        /\ Busy(i) /\ Busy(i)' /\ ~Takes(i)' /\ ~Destroys(i)'
        /\ \A j \in Ids : j # i /\ (Child(j)' <=> Child(j)) => SameWork(j)
    <3>1. HandlerEffect(i, pc, c)
      BY Zenon, <1>1, <1>3, <1>4, <2>1, HandlerStep
    <3> QED BY Zenon, <2>1, <3>1 DEF HandlerEffect
  <2>3. ~Takes(i) /\ ~Destroys(i) /\ \A j \in Ids : Child(j) => j = c
    BY Zenon, <1>1, <1>2, <1>3 DEF Takes, Destroys, Child
  <2>4. SameWork(i)
    BY Zenon, <1>3, <2>2, <2>3 DEF SameWork
  <2> QED BY Zenon, <2>2, <2>3, <2>4
<1>6. CASE c = None
  <2>1. \A j \in Ids : SameFields(j) /\ SameWork(j)
    BY Zenon, <1>3, <1>5, <1>6, IwcmAssumption DEF SameFields
  <2>2. Types'
    BY Zenon, <1>3, <1>4, <1>5, <1>6 DEF Types
  <2> QED BY Zenon, <1>5, <2>1, <2>2, IdFrame DEF IwcmInv
<1>7. CASE c \in Ids
  <2>1. /\ Child(c) /\ OwnerInv(c) /\ EventBound(c) /\ EventState(c) /\ WaitInv(c) /\ CountInv(c)
        /\ ListOrder(c)
    BY Zenon, <1>2, <1>3, <1>7 DEF IwcmInv, IdInv, FieldInv, Child
  <2>2. app' = [app EXCEPT ![c] = "request"]
    BY Zenon, <1>3, <1>7, IwcmAssumption
  <2>3. Types' /\ app'[c] = "request" /\ \A j \in Ids : j # c => SameFields(j)
    <3>1. app' \in [Ids -> Uses] /\ app'[c] = "request" /\ \A j \in Ids : j # c => app'[j] = app[j]
      BY Zenon, <1>4, <1>7, <2>2 DEF Types, Uses
    <3> QED BY Zenon, <1>3, <1>4, <1>5, <3>1 DEF Types, SameFields
  <2>4. /\ ~Child(c)' /\ (Busy(c)' <=> Busy(c)) /\ (Takes(c)' <=> Takes(c)) /\ ~Destroys(c)'
        /\ ~Takes(c) /\ ~Takes(c)' /\ Queued(c)' = Queued(c)
        /\ \A evs : Coming(c, evs)' <=> Coming(c, evs)
    <3>1. wk.id # c /\ wk'.id # c
      BY Zenon, <1>1, <1>3, <1>4 DEF Types, WorkRecs
    <3> QED BY Zenon, <1>3, <1>5, <1>7, <3>1 DEF Busy, Takes, Destroys, Queued, Coming
  <2>5. OwnerInv(c)'
    BY Zenon, <1>3, <2>1, <2>3, <2>4 DEF OwnerInv
  <2>6. EventBound(c)'
    BY Zenon, <1>3, <2>1, <2>3, <2>4 DEF EventBound
  <2>7. EventState(c)'
    BY Zenon, <1>3, <2>1, <2>4 DEF EventState
  <2>8. WaitInv(c)'
    BY Zenon, <1>3, <2>1, <2>3, <2>4 DEF WaitInv, OwnerInv
  <2>9. CountInv(c)'
    BY Zenon, <1>3, <2>1, <2>3, <2>4 DEF CountInv, Handle, OwnerInv
  <2>10. ListOrder(c)'
    BY Zenon, <1>3, <2>1, <2>4 DEF ListOrder
  <2> QED BY Zenon, <1>5, <1>7, <2>3, <2>5, <2>6, <2>7, <2>8, <2>9, <2>10, OneId DEF FieldInv
<1> QED BY Zenon, <1>6, <1>7

\* cm_handler returned an error: destroy_cm_id runs in the work handler.
LEMMA Step_callback_error ==
    ASSUME IwcmInv, callback_error
    PROVE  IwcmInv'
<1>1. PICK i \in Ids : i = wk.id
  BY Zenon DEF IwcmInv, QueueInv, callback_error
<1>2. /\ Types /\ QueueInv /\ OwnerInv(i) /\ EventBound(i) /\ EventState(i) /\ WaitInv(i)
      /\ CountInv(i) /\ ListOrder(i)
  BY Zenon DEF IwcmInv, IdInv, FieldInv
<1>3. /\ wk.pc = "callback" /\ wk.child = None /\ app[i] = "idle"
      /\ app' = [app EXCEPT ![i] = "none"]
      /\ dpc' = [dpc EXCEPT ![i] = [pc |-> "wait", by |-> "wq", qp |-> FALSE]]
      /\ wk' = [wk EXCEPT !.pc = "destroying"]
      /\ UNCHANGED <<state, connect_wait, drop_events, refcount, qp, work_list, work_free,
                     qp_refs, prov, wq>>
  BY Zenon, <1>1 DEF callback_error, idVars
<1> HIDE DEF callback_error
<1>4. /\ wk' \in WorkRecs /\ QueueInv' /\ Busy(i) /\ Busy(i)' /\ ~Takes(i)' /\ Destroys(i)'
      /\ \A j \in Ids : ~Child(j)' /\ Queued(j)' = Queued(j)
      /\ \A j \in Ids : j # i /\ (Child(j)' <=> Child(j)) => SameWork(j)
      /\ ~Takes(i) => \A evs : Coming(i, evs)' <=> Coming(i, evs)
      /\ ListOrder(i)'
  <2>1. PICK pc \in {"process", "notify", "callback", "destroying", "deref"} :
            pc = "destroying" /\ wk' = [wk EXCEPT !.pc = pc, !.child = None]
    <3>1. wk' = [wk EXCEPT !.pc = "destroying", !.child = None]
      BY Zenon, <1>2, <1>3 DEF Types, WorkRecs
    <3> QED BY Zenon, <3>1
  <2>2. HandlerEffect(i, pc, None)
    BY Zenon, <1>1, <1>2, <1>3, <2>1, HandlerStep
  <2> QED BY Zenon, <1>2, <2>1, <2>2 DEF HandlerEffect
<1>5. ~Takes(i) /\ \A j \in Ids : ~Child(j)
  BY Zenon, <1>1, <1>3 DEF Takes, Child
<1>6. /\ app' \in [Ids -> Uses] /\ app'[i] = "none"
      /\ \A j \in Ids : j # i => app'[j] = app[j] /\ dpc'[j] = dpc[j]
  BY Zenon, <1>2, <1>3 DEF Types, Uses
<1>7. /\ dpc' \in [Ids -> DestroyRecs] /\ dpc'[i].pc = "wait" /\ dpc'[i].by = "wq"
      /\ ~dpc'[i].qp
  BY Zenon, <1>2, <1>3 DEF Types, DestroyRecs
<1>8. Types' /\ \A j \in Ids : j # i => SameFields(j) /\ SameWork(j)
  BY Zenon, <1>2, <1>3, <1>4, <1>5, <1>6, <1>7 DEF Types, SameFields
<1>9. OwnerInv(i)'
  BY Zenon, <1>2, <1>3, <1>4, <1>6, <1>7 DEF OwnerInv
<1>10. EventBound(i)'
  BY Zenon, <1>2, <1>3, <1>4, <1>6 DEF EventBound
<1>11. EventState(i)'
  BY Zenon, <1>2, <1>3, <1>4, <1>5 DEF EventState
<1>12. WaitInv(i)'
  BY Zenon, <1>2, <1>3, <1>4, <1>5, <1>6, <1>7 DEF WaitInv, OwnerInv, Locked
<1>13. CountInv(i)'
  BY <1>2, <1>3, <1>4, <1>6, <1>7 DEF CountInv, Handle, OwnerInv
<1> QED BY Zenon, <1>4, <1>8, <1>9, <1>10, <1>11, <1>12, <1>13, OneId DEF FieldInv

\* The cm_id of a request that the callback refuses is freed: nobody else knew it.
LEMMA Step_callback_refuses ==
    ASSUME IwcmInv, callback_refuses
    PROVE  IwcmInv'
<1>1. PICK i \in Ids : i = wk.id
  BY Zenon DEF IwcmInv, QueueInv, callback_refuses
<1>2. PICK c \in Ids : c = wk.child
  BY Zenon DEF IwcmInv, Types, WorkRecs, callback_refuses
<1>3. /\ wk.pc = "callback" /\ app[c] = "request" /\ wk' = [wk EXCEPT !.pc = "deref"]
      /\ app' = [app EXCEPT ![c] = "none"] /\ Refs(c, -1, work_free[c])
      /\ state' = [state EXCEPT ![c] = "IDLE"] /\ prov' = [prov EXCEPT ![c] = "none"]
      /\ UNCHANGED <<connect_wait, qp, work_list, dpc, qp_refs, wq>>
  BY Zenon, <1>2 DEF callback_refuses
<1> HIDE DEF callback_refuses
<1>4. Types /\ QueueInv /\ IdInv(c)
  BY Zenon DEF IwcmInv
<1>5. /\ dpc[c].pc = "none" /\ ~Child(c) /\ ~Busy(c) /\ ~Destroys(c)
      /\ work_list[c] = << >> /\ Queued(c) = 0 /\ refcount[c] = 1
      /\ ~qp[c] /\ ~connect_wait[c] /\ ~drop_events[c] /\ ~dpc[c].qp /\ qp_refs[c] = 0
      /\ \A evs : ~Coming(c, evs)
  BY Zenon, <1>3, <1>4, Fresh
<1>6. /\ wk' \in WorkRecs /\ QueueInv' /\ \A j \in Ids : ~Child(j)' /\ SameWork(j)
  <2>1. PICK pc \in {"process", "notify", "callback", "destroying", "deref"} :
            pc = "deref" /\ wk' = [wk EXCEPT !.pc = pc, !.child = c]
    <3>1. wk' = [wk EXCEPT !.pc = "deref", !.child = c]
      BY Zenon, <1>2, <1>3, <1>4 DEF Types, WorkRecs
    <3> QED BY Zenon, <3>1
  <2>2. /\ wk' \in WorkRecs /\ QueueInv' /\ \A j \in Ids : ~Child(j)'
        /\ Busy(i) /\ Busy(i)' /\ ~Takes(i)' /\ ~Destroys(i)'
        /\ \A j \in Ids : j # i /\ (Child(j)' <=> Child(j)) => SameWork(j)
    <3>1. HandlerEffect(i, pc, c)
      BY Zenon, <1>1, <1>3, <1>4, <2>1, HandlerStep
    <3> QED BY Zenon, <2>1, <3>1 DEF HandlerEffect
  <2>3. ~Takes(i) /\ ~Destroys(i) /\ \A j \in Ids : ~Child(j)
    BY Zenon, <1>3 DEF Takes, Destroys, Child
  <2>4. SameWork(i)
    BY Zenon, <2>2, <2>3 DEF SameWork
  <2> QED BY Zenon, <2>2, <2>3, <2>4
<1>7. /\ refcount' \in [Ids -> Int] /\ drop_events' \in [Ids -> BOOLEAN]
      /\ work_free' \in [Ids -> Nat]
      /\ refcount'[c] = 0 /\ ~drop_events'[c]
      /\ \A j \in Ids : j # c => /\ refcount'[j] = refcount[j] /\ drop_events'[j] = drop_events[j]
                                 /\ work_free'[j] = work_free[j]
  BY <1>3, <1>4, <1>5 DEF Types, Refs
<1>8. /\ state' \in [Ids -> States] /\ prov' \in [Ids -> Provs] /\ app' \in [Ids -> Uses]
      /\ state'[c] = "IDLE" /\ prov'[c] = "none" /\ app'[c] = "none"
      /\ \A j \in Ids : j # c => state'[j] = state[j] /\ prov'[j] = prov[j] /\ app'[j] = app[j]
  BY Zenon, <1>3, <1>4 DEF Types, States, Provs, Uses
<1>9. Types' /\ \A j \in Ids : j # c => SameFields(j) /\ SameWork(j)
  BY Zenon, <1>3, <1>4, <1>6, <1>7, <1>8 DEF Types, SameFields
<1>10. /\ ~Busy(c)' /\ ~Destroys(c)' /\ ~Takes(c)' /\ Queued(c)' = 0 /\ \A evs : ~Coming(c, evs)'
  <2>1. ~Busy(c)' /\ ~Destroys(c)'
    BY Zenon, <1>5, <1>6 DEF SameWork
  <2>2. Queued(c)' = 0 /\ work_list'[c] = << >>
    BY Zenon, <1>3, <1>5 DEF Queued
  <2> QED BY <1>9, <2>1, <2>2 DEF Coming, Takes, Busy
<1>11. OwnerInv(c)'
  BY Zenon, <1>3, <1>5, <1>6, <1>7, <1>8, <1>10 DEF OwnerInv
<1>12. EventBound(c)'
  BY Zenon, <1>3, <1>6, <1>8 DEF EventBound, Linked
<1>13. EventState(c)'
  BY Zenon, <1>8, <1>10 DEF EventState
<1>14. WaitInv(c)'
  BY Zenon, <1>3, <1>5, <1>8 DEF WaitInv, Locked
<1>15. CountInv(c)'
  BY <1>3, <1>5, <1>6, <1>7, <1>8, <1>10 DEF CountInv, Handle
<1>16. ListOrder(c)'
  BY <1>3, <1>5, <1>10 DEF ListOrder
<1> QED BY Zenon, <1>6, <1>9, <1>11, <1>12, <1>13, <1>14, <1>15, <1>16, OneId DEF FieldInv

\* The reference of the event is dropped, and the cm_id is freed if it was the last one;
\* else the handler goes round its loop if there were more events.
LEMMA Step_work_deref ==
    ASSUME IwcmInv, work_deref
    PROVE  IwcmInv'
<1>1. PICK i \in Ids : i = wk.id
  BY Zenon DEF IwcmInv, QueueInv, work_deref
<1>2. /\ Types /\ QueueInv /\ OwnerInv(i) /\ EventBound(i) /\ EventState(i) /\ WaitInv(i)
      /\ CountInv(i) /\ ListOrder(i)
  BY Zenon DEF IwcmInv, IdInv, FieldInv
<1>3. /\ wk.pc = "deref" /\ Refs(i, -1, work_free[i])
      /\ wk' = IF refcount'[i] = 0 \/ wk.empty THEN Idle
               ELSE [Idle EXCEPT !.pc = "loop", !.id = i, !.empty = FALSE]
      /\ UNCHANGED <<state, connect_wait, qp, work_list, app, dpc, qp_refs, prov, wq>>
  BY Zenon, <1>1 DEF work_deref
<1> HIDE DEF work_deref
<1>4. /\ refcount' \in [Ids -> Int] /\ drop_events' \in [Ids -> BOOLEAN]
      /\ work_free' \in [Ids -> Nat] /\ refcount'[i] = refcount[i] - 1
      /\ refcount'[i] = 0 => ~drop_events'[i]
      /\ drop_events'[i] => drop_events[i]
      /\ refcount'[i] # 0 => work_free'[i] = work_free[i]
      /\ \A j \in Ids : j # i => /\ refcount'[j] = refcount[j] /\ drop_events'[j] = drop_events[j]
                                 /\ work_free'[j] = work_free[j]
  <2>1. /\ refcount' \in [Ids -> Int] /\ refcount'[i] = refcount[i] - 1
        /\ \A j \in Ids : j # i => refcount'[j] = refcount[j]
    BY <1>2, <1>3 DEF Types, Refs
  <2>2. /\ drop_events' \in [Ids -> BOOLEAN]
        /\ refcount[i] - 1 = 0 => ~drop_events'[i]
        /\ drop_events'[i] => drop_events[i]
        /\ \A j \in Ids : j # i => drop_events'[j] = drop_events[j]
    BY Zenon, <1>2, <1>3 DEF Types, Refs
  <2>3. /\ work_free' \in [Ids -> Nat]
        /\ refcount[i] - 1 # 0 => work_free'[i] = work_free[i]
        /\ \A j \in Ids : j # i => work_free'[j] = work_free[j]
    BY Zenon, <1>2, <1>3 DEF Types, Refs
  <2> QED BY Zenon, <2>1, <2>2, <2>3
<1>5. /\ Busy(i) /\ ~Takes(i) /\ ~Destroys(i) /\ \A j \in Ids : ~Child(j)
      /\ \A j \in Ids : j # i => ~Busy(j) /\ ~Takes(j) /\ ~Destroys(j)
  BY Zenon, <1>1, <1>3 DEF Busy, Takes, Destroys, Child
<1>6. /\ wk' \in WorkRecs /\ wk'.pc \in {"idle", "loop"} /\ wk'.child = None
      /\ wk'.pc = "idle" => wk' = Idle
      /\ wk'.pc = "loop" => wk'.id = i /\ ~wk'.empty /\ ~wk.empty /\ refcount'[i] # 0
      /\ wk'.pc = "idle" => wk'.id = None /\ wk'.empty /\ (refcount'[i] = 0 \/ wk.empty)
  BY Zenon, <1>3 DEF WorkRecs, Idle
<1>7. \A j \in Ids : ~Busy(j)' /\ ~Takes(j)' /\ ~Destroys(j)' /\ ~Child(j)'
  BY Zenon, <1>6 DEF Busy, Takes, Destroys, Child
<1>8. Queued(i)' = Queued(i) /\ \A evs : Coming(i, evs)' <=> Coming(i, evs)
  BY Zenon, <1>3, <1>5, <1>7 DEF Queued, Coming
<1>9. CountInv(i)'
  <2>1. Handle(i)' <=> Handle(i)
    BY Zenon, <1>3, <1>5, <1>7 DEF Handle
  <2>2. refcount[i] \in Int /\ Queued(i) \in Nat
    BY Zenon, <1>2, Numbers
  <2> QED BY <1>2, <1>3, <1>4, <1>5, <1>7, <1>8, <2>1, <2>2 DEF CountInv
<1>10. Types'
  BY Zenon, <1>2, <1>3, <1>4, <1>6 DEF Types
<1>11. \A j \in Ids : j # i => SameFields(j) /\ SameWork(j)
  BY Zenon, <1>3, <1>4, <1>5, <1>7 DEF SameFields, SameWork
<1>12. refcount'[i] = 0 => work_list[i] = << >> /\ prov[i] \in {"none", "requested"}
  <2>1. /\ refcount[i] \in Int /\ Queued(i) \in Nat
        /\ Queued(i) = 0 <=> work_list[i] = << >>
    BY Zenon, <1>2, Numbers
  <2>2. refcount'[i] = 0 => refcount[i] = 1
    BY <1>4, <2>1
  <2>3. refcount[i] = 1 => Queued(i) = 0 /\ prov[i] \in {"none", "requested"}
    BY <1>2, <1>5, <2>1 DEF CountInv
  <2> QED BY Zenon, <2>1, <2>2, <2>3
<1>13. QueueInv'
  <2>1. ~wk.empty => work_list[i] # << >>
    BY Zenon, <1>1, <1>2 DEF QueueInv
  <2>2. wk'.pc = "idle" => wk.empty
    BY Zenon, <1>2, <1>6, <1>12, <2>1 DEF Types, WorkRecs
  <2>3. \A k \in 1..Len(wq') : work_list'[wq'[k]] # << >> /\ (wk'.id = wq'[k] => wk'.empty)
    BY Zenon, <1>1, <1>2, <1>3, <1>6 DEF QueueInv
  <2>4. \A j \in Ids : /\ wk'.id = j /\ ~wk'.empty => work_list'[j] # << >>
                       /\ work_list'[j] # << >> =>
                            (\E k \in 1..Len(wq') : wq'[k] = j) \/ (wk'.id = j /\ ~wk'.empty)
    BY Zenon, <1>1, <1>2, <1>3, <1>6, <2>1, <2>2 DEF QueueInv
  <2> QED BY <1>2, <1>3, <1>6, <2>3, <2>4 DEF QueueInv
<1>14. OwnerInv(i)'
  BY Zenon, <1>2, <1>3, <1>4, <1>5, <1>7 DEF OwnerInv
<1>15. EventBound(i)'
  BY Zenon, <1>2, <1>3, <1>4, <1>5, <1>7, <1>8, <1>12 DEF EventBound, Linked
<1>16. EventState(i)'
  BY Zenon, <1>2, <1>3, <1>8 DEF EventState
<1>17. WaitInv(i)'
  BY Zenon, <1>2, <1>3, <1>4, <1>8 DEF WaitInv
<1>18. ListOrder(i)'
  BY Zenon, <1>2, <1>3, <1>7 DEF ListOrder
<1> QED
  BY Zenon, <1>9, <1>10, <1>11, <1>13, <1>14, <1>15, <1>16, <1>17, <1>18, OneId DEF FieldInv

\* The handler takes the first event off the list; it finds one whenever it runs.
LEMMA Step_work_dequeue ==
    ASSUME IwcmInv, NEW i \in Ids, work_dequeue(i)
    PROVE  IwcmInv'
<1>1. /\ Types /\ QueueInv /\ OwnerInv(i) /\ EventBound(i) /\ EventState(i) /\ WaitInv(i)
      /\ CountInv(i) /\ ListOrder(i)
  BY Zenon DEF IwcmInv, IdInv, FieldInv
<1>2. /\ wk.pc \in {"idle", "loop"} /\ wk.child = None
      /\ UNCHANGED <<state, connect_wait, drop_events, refcount, qp, app, dpc, qp_refs, prov>>
  BY Zenon, <1>1 DEF work_dequeue, QueueInv
<1>3. work_list[i] \in Seq(Events) /\ work_list[i] # << >>
  <2>1. CASE wk.pc = "idle" /\ wq # << >> /\ i = Head(wq)
    <3>1. wq \in Seq(Ids) /\ Once(wq)
      BY Zenon, <1>1 DEF QueueInv, Types, Once
    <3>2. PICK k \in 1..Len(wq) : wq[k] = i
      <4>1. Remainder(wq, Tail(wq), Head(wq))
        BY Zenon, <2>1, <3>1, TailOnce
      <4> QED BY Zenon, <2>1, <4>1 DEF Remainder
    <3> QED BY Zenon, <1>1, <3>2 DEF QueueInv, Types
  <2>2. CASE wk.pc = "loop" /\ i = wk.id
    BY Zenon, <1>1, <2>2 DEF QueueInv, Types
  <2> QED BY Zenon, <2>1, <2>2 DEF work_dequeue
<1>4. PICK h \in Events : h = Head(work_list[i])
  BY Zenon, <1>3, TailFacts
<1>5. /\ work_list' = [work_list EXCEPT ![i] = Tail(work_list[i])]
      /\ work_free' = [work_free EXCEPT ![i] = @ + 1]
      /\ wk' = [Idle EXCEPT !.pc = "test", !.id = i, !.event = h,
                            !.empty = (Len(work_list[i]) = 1)]
  BY Zenon, <1>1, <1>3, <1>4 DEF work_dequeue, Types
<1>6. \/ wk.pc = "idle" /\ wq # << >> /\ i = Head(wq) /\ wq' = Tail(wq)
      \/ wk.pc = "loop" /\ i = wk.id /\ wq' = wq
  BY Zenon DEF work_dequeue
<1> HIDE DEF work_dequeue
<1>7. /\ h = work_list[i][1] /\ Len(work_list[i]) \in Nat \ {0}
      /\ work_list'[i] \in Seq(Events) /\ Len(work_list'[i]) = Len(work_list[i]) - 1
      /\ \A k \in 1..Len(work_list[i]) - 1 : work_list'[i][k] = work_list[i][k + 1]
      /\ Len(work_list[i]) = 1 <=> work_list'[i] = << >>
      /\ \A j \in Ids : j # i => work_list'[j] = work_list[j] /\ work_free'[j] = work_free[j]
      /\ work_free'[i] = work_free[i] + 1
  <2>1. work_list'[i] = Tail(work_list[i])
    BY Zenon, <1>1, <1>5 DEF Types
  <2>2. /\ \A j \in Ids : j # i => work_list'[j] = work_list[j] /\ work_free'[j] = work_free[j]
        /\ work_free'[i] = work_free[i] + 1
    BY Zenon, <1>1, <1>5 DEF Types
  <2>3. /\ Tail(work_list[i]) \in Seq(Events) /\ h = work_list[i][1]
        /\ Len(work_list[i]) \in Nat \ {0} /\ Len(Tail(work_list[i])) = Len(work_list[i]) - 1
        /\ \A k \in 1..Len(work_list[i]) - 1 : Tail(work_list[i])[k] = work_list[i][k + 1]
        /\ Len(work_list[i]) = 1 <=> Tail(work_list[i]) = << >>
    BY Zenon, <1>3, <1>4, TailFacts
  <2> QED BY Zenon, <2>1, <2>2, <2>3
<1>8. /\ wk' \in WorkRecs /\ wk'.pc = "test" /\ wk'.id = i /\ wk'.event = h /\ wk'.child = None
      /\ wk'.empty = (Len(work_list[i]) = 1)
  BY Zenon, <1>5 DEF Idle, WorkRecs
<1>9. Types'
  <2>1. work_list' \in [Ids -> Seq(Events)]
    <3>1. Tail(work_list[i]) \in Seq(Events)
      BY Zenon, <1>3, TailFacts
    <3> QED BY Zenon, <1>1, <1>5, <3>1 DEF Types
  <2>2. work_free' \in [Ids -> Nat]
    BY <1>1, <1>5 DEF Types
  <2>3. wq' \in Seq(Ids)
    <3>1. wq \in Seq(Ids) /\ (wq # << >> => Tail(wq) \in Seq(Ids))
      BY Zenon, <1>1, TailFacts DEF Types
    <3> QED BY Zenon, <1>6, <3>1
  <2> QED BY Zenon, <1>1, <1>2, <1>8, <2>1, <2>2, <2>3 DEF Types
<1>10. /\ ~Busy(i) /\ ~Takes(i) /\ ~Destroys(i) /\ Busy(i)' /\ Takes(i)' /\ ~Destroys(i)'
       /\ \A j \in Ids : ~Child(j) /\ ~Child(j)'
       /\ \A j \in Ids : j # i => /\ ~Busy(j) /\ ~Takes(j) /\ ~Destroys(j)
                                  /\ ~Busy(j)' /\ ~Takes(j)' /\ ~Destroys(j)'
  BY Zenon, <1>2, <1>8 DEF Busy, Takes, Destroys, Child
<1>11. \A j \in Ids : j # i => SameFields(j) /\ SameWork(j)
  BY Zenon, <1>2, <1>7, <1>10 DEF SameFields, SameWork
<1>12. Queued(i)' = Queued(i) - 1 /\ Queued(i) \in Nat
  BY Zenon, <1>7 DEF Queued
<1>13. \A evs : Coming(i, evs)' <=> Coming(i, evs)
  <2> SUFFICES ASSUME NEW evs PROVE Coming(i, evs)' <=> Coming(i, evs)
    OBVIOUS
  <2>1. Coming(i, evs) <=> \E k \in 1..Len(work_list[i]) : work_list[i][k] \in evs
    BY Zenon, <1>10 DEF Coming
  <2>2. Coming(i, evs)' <=>
           \/ work_list[i][1] \in evs
           \/ \E k \in 1..Len(work_list'[i]) : work_list'[i][k] \in evs
    BY Zenon, <1>7, <1>8, <1>10 DEF Coming
  <2>3. ASSUME NEW k \in 1..Len(work_list[i]), work_list[i][k] \in evs
        PROVE  \/ work_list[i][1] \in evs
               \/ \E l \in 1..Len(work_list'[i]) : work_list'[i][l] \in evs
    <3>1. CASE k = 1
      BY Zenon, <2>3, <3>1
    <3>2. CASE k # 1
      <4>1. k - 1 \in 1..Len(work_list[i]) - 1 /\ (k - 1) + 1 = k
        BY <1>7, <3>2
      <4>2. work_list'[i][k - 1] = work_list[i][k] /\ k - 1 \in 1..Len(work_list'[i])
        BY Zenon, <1>7, <4>1
      <4> QED BY Zenon, <2>3, <4>2
    <3> QED BY Zenon, <3>1, <3>2
  <2>4. ASSUME NEW k \in 1..Len(work_list'[i]), work_list'[i][k] \in evs
        PROVE  \E l \in 1..Len(work_list[i]) : work_list[i][l] \in evs
    <3>1. k \in 1..Len(work_list[i]) - 1 /\ k + 1 \in 1..Len(work_list[i])
      BY <1>7
    <3>2. work_list'[i][k] = work_list[i][k + 1]
      BY Zenon, <1>7, <3>1
    <3> QED BY Zenon, <2>4, <3>1, <3>2
  <2>5. 1 \in 1..Len(work_list[i])
    BY <1>7
  <2> QED BY Zenon, <2>1, <2>2, <2>3, <2>4, <2>5
<1>14. ListOrder(i)'
  <2>1. ASSUME NEW k \in 1..Len(work_list'[i])
        PROVE  /\ work_list'[i][k] \notin Firsts
               /\ work_list'[i][k] \in {"CLOSE", "CONNECT_REPLY_ERR"} => k = Len(work_list'[i])
    <3>1. /\ k + 1 \in 1..Len(work_list[i]) /\ work_list'[i][k] = work_list[i][k + 1]
          /\ k + 1 # 1 /\ (k + 1 = Len(work_list[i]) => k = Len(work_list'[i]))
      BY <1>7
    <3> QED BY Zenon, <1>1, <3>1 DEF ListOrder
  <2>2. wk'.event \in {"CLOSE", "CONNECT_REPLY_ERR"} => work_list'[i] = << >>
    <3>1. 1 \in 1..Len(work_list[i])
      BY <1>7
    <3> QED BY Zenon, <1>1, <1>7, <1>8, <3>1 DEF ListOrder
  <2> QED BY Zenon, <2>1, <2>2 DEF ListOrder
<1>15. OwnerInv(i)'
  BY Zenon, <1>1, <1>2, <1>10 DEF OwnerInv
<1>16. EventBound(i)'
  <2>1. work_free[i] \in Nat
    BY Zenon, <1>1, Numbers
  <2>2. /\ Queued(i) <= 1 => Queued(i) - 1 <= 1
        /\ Queued(i) <= 2 => Queued(i) - 1 <= 2
        /\ work_free[i] + Queued(i) >= 3 => (work_free[i] + 1) + (Queued(i) - 1) >= 3
    BY <1>12, <2>1
  <2> QED BY Zenon, <1>1, <1>2, <1>3, <1>7, <1>10, <1>12, <2>2 DEF EventBound
<1>17. EventState(i)'
  BY Zenon, <1>1, <1>2, <1>13 DEF EventState
<1>18. WaitInv(i)'
  BY Zenon, <1>1, <1>2, <1>13 DEF WaitInv
<1>19. CountInv(i)'
  <2>1. Handle(i)' <=> Handle(i)
    BY Zenon, <1>2, <1>10 DEF Handle
  <2>2. refcount[i] \in Int
    BY Zenon, <1>1, Numbers
  <2>3. PICK q \in Nat, r \in Int : q = Queued(i) /\ r = refcount[i]
    BY Zenon, <1>12, <2>2
  <2>4. \A a, p \in {0, 1} : r = a + p + q + 0 => r = a + p + (q - 1) + 1
    OBVIOUS
  <2> QED BY Zenon, <1>1, <1>2, <1>10, <1>12, <2>1, <2>3, <2>4 DEF CountInv
<1>20. QueueInv'
  <2>1. wk'.empty <=> work_list'[i] = << >>
    BY Zenon, <1>7, <1>8
  <2>2. CASE wk.pc = "loop" /\ i = wk.id /\ wq' = wq
    <3>1. ~wk.empty /\ \A k \in 1..Len(wq) : wq[k] # i
      BY Zenon, <1>1, <2>2 DEF QueueInv
    <3>2. ASSUME NEW k \in 1..Len(wq)
          PROVE  wq[k] \in Ids /\ work_list'[wq[k]] # << >> /\ wk'.id # wq[k]
      <4>1. wq[k] \in Ids /\ wq[k] # i
        BY Zenon, <1>1, <3>1, ElementType DEF Types
      <4>2. work_list[wq[k]] # << >>
        BY Zenon, <1>1 DEF QueueInv
      <4>3. work_list'[wq[k]] = work_list[wq[k]]
        BY Zenon, <1>7, <4>1
      <4> QED BY Zenon, <1>8, <4>1, <4>2, <4>3
    <3>3. ASSUME NEW j \in Ids
          PROVE  /\ wk'.id = j /\ ~wk'.empty => work_list'[j] # << >>
                 /\ work_list'[j] # << >> =>
                      (\E k \in 1..Len(wq) : wq[k] = j) \/ (wk'.id = j /\ ~wk'.empty)
      <4>1. CASE j = i
        BY Zenon, <1>8, <2>1, <4>1
      <4>2. CASE j # i
        <5>1. wk.id # j /\ wk'.id # j /\ work_list'[j] = work_list[j]
          BY Zenon, <1>7, <1>8, <2>2, <4>2
        <5> QED BY Zenon, <1>1, <5>1 DEF QueueInv
      <4> QED BY Zenon, <4>1, <4>2
    <3>4. \A k, l \in 1..Len(wq) : wq[k] = wq[l] => k = l
      BY Zenon, <1>1 DEF QueueInv
    <3> QED BY Zenon, <1>8, <2>2, <3>2, <3>3, <3>4 DEF QueueInv
  <2>3. CASE wk.pc = "idle" /\ wq # << >> /\ i = Head(wq) /\ wq' = Tail(wq)
    <3>1. wq \in Seq(Ids) /\ Once(wq)
      BY Zenon, <1>1 DEF QueueInv, Types, Once
    <3>2. /\ \A k \in 1..Len(wq') : wq'[k] # i /\ \E l \in 1..Len(wq) : wq'[k] = wq[l]
          /\ \A k, l \in 1..Len(wq') : wq'[k] = wq'[l] => k = l
          /\ \A k \in 1..Len(wq) : wq[k] # i => \E l \in 1..Len(wq') : wq'[l] = wq[k]
      <4>1. Remainder(wq, Tail(wq), Head(wq))
        BY Zenon, <2>3, <3>1, TailOnce
      <4>2. Remainder(wq, wq', i)
        BY Zenon, <2>3, <4>1
      <4> QED BY Zenon, <4>2 DEF Remainder
    <3>5. ASSUME NEW k \in 1..Len(wq')
          PROVE  work_list'[wq'[k]] # << >> /\ wk'.id # wq'[k]
      <4>0. PICK l \in 1..Len(wq) : wq'[k] = wq[l]
        BY Zenon, <3>2
      <4>1. wq'[k] \in Ids /\ wq'[k] # i /\ work_list[wq'[k]] # << >>
        <5>1. wq[l] \in Ids
          BY Zenon, <3>1, ElementType
        <5>2. work_list[wq[l]] # << >>
          BY Zenon, <1>1 DEF QueueInv
        <5> QED BY Zenon, <3>2, <4>0, <5>1, <5>2
      <4>2. work_list'[wq'[k]] = work_list[wq'[k]]
        BY Zenon, <1>7, <4>1
      <4> QED BY Zenon, <1>8, <4>1, <4>2
    <3>6. ASSUME NEW j \in Ids
          PROVE  /\ wk'.id = j /\ ~wk'.empty => work_list'[j] # << >>
                 /\ work_list'[j] # << >> =>
                      (\E k \in 1..Len(wq') : wq'[k] = j) \/ (wk'.id = j /\ ~wk'.empty)
      <4>1. CASE j = i
        BY Zenon, <1>8, <2>1, <4>1
      <4>2. CASE j # i
        <5>1. wk = Idle /\ Idle.empty /\ wk'.id # j /\ work_list'[j] = work_list[j]
          BY Zenon, <1>1, <1>7, <1>8, <2>3, <4>2 DEF QueueInv, Idle
        <5>2. ASSUME NEW k \in 1..Len(wq), wq[k] = j PROVE \E l \in 1..Len(wq') : wq'[l] = j
          BY Zenon, <3>2, <4>2, <5>2
        <5> QED BY Zenon, <1>1, <5>1, <5>2 DEF QueueInv
      <4> QED BY Zenon, <4>1, <4>2
    <3> QED BY Zenon, <1>8, <3>2, <3>5, <3>6 DEF QueueInv
  <2> QED BY Zenon, <1>6, <2>2, <2>3
<1> QED
  BY Zenon, <1>9, <1>11, <1>14, <1>15, <1>16, <1>17, <1>18, <1>19, <1>20, OneId DEF FieldInv

-----------------------------------------------------------------------------
(* The inductive invariant.                                                *)

\* It holds while no cm_id is in use.
LEMMA IwcmInvInit ==
    ASSUME Init
    PROVE  IwcmInv
<1>1. Types
  BY DEF Init, Types, States, Uses, DestroyRecs, Provs, WorkRecs, Idle, NoDestroy
<1>2. QueueInv
  <2>1. wq = << >> /\ Len(wq) = 0 /\ wk = Idle /\ \A i \in Ids : work_list[i] = << >>
    BY DEF Init
  <2> QED BY <2>1, IwcmAssumption DEF QueueInv, Idle
<1>3. ASSUME NEW i \in Ids PROVE IdInv(i)
  <2>1. /\ state[i] = "IDLE" /\ ~connect_wait[i] /\ ~drop_events[i] /\ refcount[i] = 0
        /\ ~qp[i] /\ qp_refs[i] = 0 /\ work_list[i] = << >> /\ app[i] = "none"
        /\ dpc[i].pc = "none" /\ ~dpc[i].qp /\ prov[i] = "none"
    BY DEF Init, NoDestroy
  <2>2. ~Busy(i) /\ ~Takes(i) /\ ~Child(i) /\ ~Destroys(i)
    BY DEF Init, Idle, Busy, Takes, Child, Destroys
  <2>3. /\ \A evs : ~Coming(i, evs)
        /\ Queued(i) = 0 /\ Len(work_list[i]) = 0
    BY <1>1, <2>1, <2>2, Quiet, Numbers
  <2>4. OwnerInv(i)
    BY <2>1, <2>2 DEF OwnerInv
  <2>5. EventBound(i) /\ ListOrder(i)
    BY <2>1, <2>2, <2>3 DEF EventBound, ListOrder, Linked
  <2>6. EventState(i) /\ WaitInv(i)
    BY <2>1, <2>3 DEF EventState, WaitInv, Locked
  <2>7. CountInv(i)
    BY <2>1, <2>2, <2>3 DEF CountInv, Handle
  <2> QED BY <2>4, <2>5, <2>6, <2>7 DEF IdInv, FieldInv
<1> QED BY <1>1, <1>2, <1>3 DEF IwcmInv

\* A step that changes nothing keeps it.
LEMMA IwcmInvStutter ==
    ASSUME IwcmInv, UNCHANGED vars
    PROVE  IwcmInv'
<1>1. UNCHANGED <<state, connect_wait, drop_events, refcount, qp, work_list, work_free,
                  app, dpc, qp_refs, prov, wq, wk>>
  BY DEF vars, idVars
<1>2. Types' /\ QueueInv'
  BY <1>1 DEF IwcmInv, Types, QueueInv
<1>3. ASSUME NEW j \in Ids PROVE IdInv(j)'
  BY <1>1, IdFrame DEF IwcmInv, SameFields, SameWork, Busy, Takes, Child, Destroys
<1> QED BY <1>2, <1>3 DEF IwcmInv

\* Every step of the clients, of the provider and of cm_work_handler keeps it.
LEMMA IwcmInvStep ==
    ASSUME IwcmInv, [Next]_vars
    PROVE  IwcmInv'
<1>1. CASE Worker
  <2>1. ASSUME NEW i \in Ids, work_dequeue(i) PROVE IwcmInv'
    BY <2>1, Step_work_dequeue
  <2>2. CASE work_test \/ work_notify \/ work_deref
    BY <2>2, Step_work_test, Step_work_notify, Step_work_deref
  <2>3. CASE cm_conn_req_handler \/ cm_conn_rep_handler \/ cm_conn_est_handler
    BY <2>3, Step_cm_conn_req_handler, Step_cm_conn_rep_handler, Step_cm_conn_est_handler
  <2>4. CASE cm_disconnect_handler \/ cm_close_handler
    BY <2>4, Step_cm_disconnect_handler, Step_cm_close_handler
  <2>5. CASE callback_ok \/ callback_error \/ callback_refuses
    BY <2>5, Step_callback_ok, Step_callback_error, Step_callback_refuses
  <2> QED BY <1>1, <2>1, <2>2, <2>3, <2>4, <2>5 DEF Worker
<1>2. ASSUME NEW i \in Ids, Client(i) PROVE IwcmInv'
  <2>1. CASE iw_create_cm_id(i) \/ iw_cm_listen(i) \/ iw_cm_connect(i)
    BY <2>1, Step_iw_create_cm_id, Step_iw_cm_listen, Step_iw_cm_connect
  <2>2. CASE iw_cm_accept(i) \/ iw_cm_reject(i) \/ iw_cm_disconnect(i) \/ iw_destroy_cm_id(i)
    BY <2>2, Step_iw_cm_accept, Step_iw_cm_reject, Step_iw_cm_disconnect,
       Step_iw_destroy_cm_id
  <2> QED BY <1>2, <2>1, <2>2 DEF Client
<1>3. ASSUME NEW i \in Ids, Downcall(i) PROVE IwcmInv'
  BY <1>3, Step_disconnect_modify_qp, Step_destroy_wait, Step_destroy_lock,
     Step_destroy_finish DEF Downcall
<1>4. ASSUME NEW i \in Ids, Provider(i) PROVE IwcmInv'
  BY <1>4, Step_provider_request, Step_provider_reply, Step_provider_established,
     Step_provider_closing DEF Provider
<1>5. CASE UNCHANGED vars
  BY <1>5, IwcmInvStutter
<1> QED BY <1>1, <1>2, <1>3, <1>4, <1>5 DEF Next

\* The invariant of every behaviour of the connection manager.
THEOREM IwcmInvHolds == Spec => []IwcmInv
<1>1. Init => IwcmInv
  BY IwcmInvInit
<1>2. IwcmInv /\ [Next]_vars => IwcmInv'
  BY IwcmInvStep
<1> QED BY <1>1, <1>2, PTL DEF Spec

-----------------------------------------------------------------------------
(* The properties of the code.                                             *)

\* The reference count of iwcm_id_private and the number of its free works are never below
\* zero, and iwcm_wq only holds cm_ids.
THEOREM TypeCorrect == Spec => []TypeOK
<1>1. IwcmInv => TypeOK
  <2> SUFFICES ASSUME IwcmInv PROVE TypeOK
    OBVIOUS
  <2>1. Types
    BY DEF IwcmInv
  <2>2. ASSUME NEW i \in Ids PROVE refcount[i] \in Nat
    <3>1. CountInv(i) /\ Queued(i) \in Nat
      BY <2>1, Numbers DEF IwcmInv, IdInv, FieldInv
    <3> QED BY <3>1 DEF CountInv
  <2>3. refcount \in [Ids -> Nat]
    BY <2>1, <2>2 DEF Types
  <2>4. Range(wq) \subseteq Ids
    BY <2>1 DEF Types, Range
  <2> QED BY <2>1, <2>3, <2>4 DEF Types, TypeOK, States
<1> QED BY <1>1, IwcmInvHolds, PTL

\* No BUG_ON of iwcm.c is reached, whatever the provider, the clients and the work handler
\* do in between: the event being processed is one that the state allows, and the last
\* iwcm_deref_id finds work_list empty.
THEOREM NoBugReached == Spec => []NoBug
<1>1. IwcmInv => NoBug
  <2> SUFFICES ASSUME IwcmInv PROVE NoBug
    OBVIOUS
  <2>1. ASSUME wk.pc = "process"
        PROVE  /\ wk.event \in {"CONNECT_REPLY_OK", "CONNECT_REPLY_ERR"} => state[wk.id] = "CONN_SENT"
               /\ wk.event = "ESTABLISHED" => state[wk.id] = "CONN_RECV"
               /\ wk.event = "CLOSE" => state[wk.id] \in {"ESTABLISHED", "CLOSING", "DESTROYING"}
    <3>1. PICK i \in Ids :
              /\ i = wk.id /\ Takes(i) /\ EventState(i) /\ WaitInv(i) /\ ListOrder(i)
              /\ prov[i] \notin {"connecting", "accepted"} /\ Types
              /\ \A evs : wk.event \in evs => Coming(i, evs)
      BY <2>1, ProcessingFacts
    <3>2. wk.event \in {"CONNECT_REPLY_OK", "CONNECT_REPLY_ERR"} => state[i] = "CONN_SENT"
      BY <3>1 DEF EventState
    <3>3. wk.event = "ESTABLISHED" => state[i] = "CONN_RECV"
      BY <3>1 DEF EventState
    <3>4. ASSUME wk.event = "CLOSE"
          PROVE  state[i] \in {"ESTABLISHED", "CLOSING", "DESTROYING"}
      <4>1. work_list[i] = << >> /\ Len(work_list[i]) = 0
        BY <3>1, <3>4 DEF ListOrder
      <4>2. ~Coming(i, Firsts)
        BY <3>4, <4>1 DEF Coming, Firsts
      <4>3. ~connect_wait[i]
        BY <3>1, <4>2 DEF WaitInv
      <4> QED BY <3>1, <3>4, <4>3 DEF EventState
    <3> QED BY <3>1, <3>2, <3>3, <3>4
  <2>2. ASSUME NEW i \in Ids
        PROVE  /\ dpc[i].pc = "lock" => state[i] \notin {"CONN_SENT", "DESTROYING"}
               /\ app[i] = "idle" /\ ~connect_wait[i] => state[i] \notin {"CONN_SENT", "DESTROYING"}
               /\ refcount[i] = 0 => work_list[i] = << >>
    <3>1. WaitInv(i) /\ OwnerInv(i) /\ IdInv(i) /\ Types
      BY DEF IwcmInv, IdInv, FieldInv
    <3>2. dpc[i].pc = "lock" => state[i] \notin {"CONN_SENT", "DESTROYING"}
      BY <3>1 DEF WaitInv, OwnerInv, Locked
    <3>3. app[i] = "idle" /\ ~connect_wait[i] => state[i] \notin {"CONN_SENT", "DESTROYING"}
      BY <3>1 DEF WaitInv
    <3> QED BY <3>1, <3>2, <3>3, Unreferenced
  <2> QED BY <2>1, <2>2 DEF NoBug, Processing
<1> QED BY <1>1, IwcmInvHolds, PTL

\* A cm_id is freed by the last of its users and not before: its reference count is that of
\* the client's handle, the provider's connection and the events.
THEOREM RefCountsHold == Spec => []RefCounts
<1>1. IwcmInv => RefCounts
  <2> SUFFICES ASSUME IwcmInv PROVE RefCounts
    OBVIOUS
  <2>1. ASSUME NEW i \in Ids PROVE CountInv(i)
    BY DEF IwcmInv, IdInv, FieldInv
  <2> QED BY <2>1 DEF RefCounts, CountInv, Handle, Child, Busy, Queued
<1> QED BY <1>1, IwcmInvHolds, PTL

\* The QP of a connection is released exactly once, by cm_close_handler, the rejected
\* connection or destroy_cm_id, whichever takes it from cm_id_priv->qp.
THEOREM QpRefsHold == Spec => []QpRefs
<1>1. IwcmInv => QpRefs
  BY DEF IwcmInv, IdInv, FieldInv, CountInv, QpRefs
<1> QED BY <1>1, IwcmInvHolds, PTL

\* The works that alloc_work_entries gives a connection suffice: cm_event_handler never
\* finds work_free_list empty for one, so no event of a connection is lost.
THEOREM WorksAlwaysSuffice == Spec => []WorksSuffice
<1>1. IwcmInv => WorksSuffice
  BY LinkedFacts DEF WorksSuffice, Linked
<1> QED BY <1>1, IwcmInvHolds, PTL

\* An event on work_list has cm_work_handler coming for it exactly once: cm_event_handler
\* queues it for the first event, and the handler goes on while it finds more.
THEOREM AlwaysScheduled == Spec => []Scheduled
<1>1. IwcmInv => Scheduled
  <2> SUFFICES ASSUME IwcmInv, NEW i \in Ids
               PROVE  Cardinality({k \in DOMAIN wq : wq[k] = i})
                      + (IF wk.id = i /\ ~wk.empty THEN 1 ELSE 0)
                          = IF work_list[i] = << >> THEN 0 ELSE 1
    BY DEF Scheduled
  <2>1. QueueInv /\ DOMAIN wq = 1..Len(wq) /\ \A k \in 1..Len(wq) : wq[k] \in Ids
    BY DEF IwcmInv, Types
  <2>2. Cardinality({}) = 0
    BY FS_EmptySet
  <2>3. CASE \E k \in 1..Len(wq) : wq[k] = i
    <3>1. PICK k \in 1..Len(wq) : wq[k] = i
      BY <2>3
    <3>2. {l \in DOMAIN wq : wq[l] = i} = {k}
      BY <2>1, <3>1 DEF QueueInv
    <3>3. Cardinality({k}) = 1
      BY FS_Singleton
    <3>4. work_list[i] # << >> /\ ~(wk.id = i /\ ~wk.empty)
      BY <2>1, <3>1 DEF QueueInv
    <3>5. Cardinality({l \in DOMAIN wq : wq[l] = i}) = 1
      BY <3>2, <3>3
    <3> QED BY <3>4, <3>5
  <2>4. CASE ~\E k \in 1..Len(wq) : wq[k] = i
    <3>1. {l \in DOMAIN wq : wq[l] = i} = {}
      BY <2>1, <2>4
    <3>2. work_list[i] # << >> <=> wk.id = i /\ ~wk.empty
      BY <2>1, <2>4 DEF QueueInv
    <3>3. Cardinality({l \in DOMAIN wq : wq[l] = i}) = 0
      BY <2>2, <3>1
    <3> QED BY <3>2, <3>3
  <2> QED BY <2>3, <2>4
<1> QED BY <1>1, IwcmInvHolds, PTL

=============================================================================
