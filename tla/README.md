# A TLA+ verification of the mlx5 and RDMA stack of MLNX_OFED 5.4

The subject is the kernel source under `src/mlnx-ofed-kernel-5.4`: the mlx5 core
driver, the RDMA core, the mlx5 RDMA provider, the upper layer protocols and
NVMe over RDMA. Five parts of it are modelled:

| part | modules | runs |
|---|---|---|
| firmware command interface, `mlx5/core/cmd.c` | `CmdIf`, `CmdContract`, `MCCmdIf`; proofs in `CmdIf_types`, `CmdIf_proof`, `CmdIf_once`, `CmdIf_slots`, `CmdIf_balance` | `cmd_*` |
| multicast groups, `infiniband/core/multicast.c` | `Mcast`, `MCMcast` | `mcast` |
| iWARP connection manager, `infiniband/core/iwcm.c` | `Iwcm`, `MCIwcm`; proofs in `Iwcm_proof` | `iwcm`, `iwcm_late` |
| segmented MADs, `infiniband/core/mad_rmpp.c` and `mad.c` | `Rmpp`, `RmppContract`, `MCRmpp`; proofs in `Rmpp_proof` | `rmpp`, `rmpp_ack` |
| uverbs objects, `infiniband/core/rdma_core.c` | `Uobj`, `MCUobj`; proofs in `Uobj_proof` | `uobj` |

Everything the driver does to the device goes through the command interface, so
that is where the development started. The other four
are the parts of the RDMA core in which several threads share a reference
counted object. They do not call each other in what is modelled: what one needs
of another (the SA behind `multicast.c`, the provider behind `iwcm.c` and
`rdma_core.c`, the network behind `mad.c`) is external to its module, and the
module's header says what is assumed of it.

## Inventory

| part | state | operations | what is hard about it |
|---|---|---|---|
| command interface, `mlx5/core/cmd.c` | entries with a reference count, slot bitmap, `ent_arr`, two semaphores, work queue, `PENDING_COMP`, mode, allowed opcode, `num_inflight` | `cmd_exec`, `cmd_work_handler`, `mlx5_cmd_comp_handler`, `wait_func`, `cb_timeout_handler`, `mlx5_cmd_flush`, `mlx5_cmd_change_mod`, `mlx5_cmd_cleanup_async_ctx` | four parties race to complete a command; late events after a timeout; reuse of slots; flush of a dead device |
| event queues, `mlx5/core/eq.c` | consumer index, arm state, notifier chains | interrupt, recovery poll, create, destroy | lost interrupts, recovery beside the interrupt |
| health and reset, `health.c`, `fw_reset.c` | device state, counters, reset flags | poll, error work, recovery, synchronised reset | error paths that run beside load and unload |
| page allocator, `pagealloc.c` | page tree per function, counts | give, take, reclaim, page request event | requests queued in events, partial answers |
| load and unload, `main.c` | interface state, intf_state_mutex | load, unload, recover | ordering of partial failures |
| flow steering, `fs_core.c` | tree of tables, groups, rules | add, delete, modify | reference counts and lock modes of a tree |
| scalable functions, `sf/` | port state, hardware state | add, delete, activate | user request beside device event |
| iWARP CM, `iwcm.c` | connection state, work list, reference count | connect, accept, reject, destroy, event worker | destruction from the callback |
| IB CM and RDMA CM, `cm.c`, `cma.c` | handshake state per id | REQ, REP, RTU, DREQ, DREP, timeouts | lost and duplicated messages on both ends |
| MAD RMPP, `mad_rmpp.c` | window, segments, timers | send, ack, abort, timeout | segmented transfer over an unreliable channel |
| multicast, `multicast.c` | group state, member list, pending list | join, leave, SA answer, event | many members merged into one membership |
| uverbs objects, `rdma_core.c` | use count per object, object list | lookup, get, put, remove, destroy all | exclusive against shared access, disassociation |
| memory region cache, `hw/mlx5/mr.c` | free lists, pending counter | alloc, free, grow, shrink, delayed work | asynchronous commands and their callbacks |
| SRP transport, `scsi_transport_srp.c` | rport state, three timers | reconnect, fast_io_fail, dev_loss | timers racing each other and a reconnect |
| firmware update, `mlxfw_fsm.c` | FSM handle | lock, download, verify, activate | timeouts in the middle of the protocol |
| NVMe host and target | controller and queue states | reset, delete, connect, disconnect | reset beside delete |

The parts that are configuration, data path or plumbing (ethernet rings, FPGA,
diagnostics, netlink, compatibility layer) hold little protocol state; they are
listed in `PROJECT.json` with the reason they are left out.

## The command interface

### How the model corresponds to the code

`CmdIf.tla` models `cmd.c` with the parts of `eq.c` and `health.c` it interacts
with. A command and its `mlx5_cmd_work_ent` are one thing; each command is
issued at most once. The threads are

* one per command: its blocking caller (`cmd_exec`, `mlx5_cmd_invoke`,
  `wait_func`) or, for an asynchronous command, its `cb_timeout_work`;
* `WQ`, the single-threaded work queue that runs `cmd_work_handler` (a
  MANAGE_PAGES command runs it in its caller);
* `EQ`, whoever holds the command event queue's lock: the interrupt, or a
  thread in `mlx5_cmd_eq_recover`;
* `MGR`, the holder of `intf_state_mutex`, which works through a script of
  flushes, opcode restrictions and changes of mode, or cleans up the
  asynchronous context.

`pc` says where a thread is, `frame` holds its locals (entry, slot, kind of
completion, status for the callback, return addresses). The actions are the
handlers cut at the points another thread can observe: semaphore operations,
bit operations, reference counts, `complete()`, callbacks, the spin locks. For
example `mlx5_cmd_comp_handler` is `comp_test_and_clear`, `comp_cancel_timer`,
`comp_put_fw`, `comp_finish`, `comp_put`, `comp_callback`, `comp_up`, and any
`cmd_ent_put` that drops the last reference goes through `cmd_free_index`.

A freed entry keeps its contents in the model, so that an access after the last
put is still a step; `EntryAliveInUse` says where such accesses must not be. A
reference count that has reached 0 stays 0, as `refcount_t` saturates.

The firmware is external: after the doorbell it finishes a command at some time
or never, gives the descriptor back and, in event mode, writes an event. It
finishes nothing once the device is in error state.

Data is abstracted away: message contents, mailboxes and signatures are not
modelled, "ok" stands for whatever answer the firmware gave, "internal" for what
`mlx5_internal_err_ret_value` makes of the opcode (success for teardown
commands), and opcodes are split into the one a restriction allows (`Special`)
and the others.

`CmdContract.tla` is what an issuer is promised: refused, or answered once, and
"ok" only for a command the firmware executed. `CommandContract` states that
`CmdIf` implements it.

### Runs

| run | scenario | shows |
|---|---|---|
| `cmd_timeout` | two blocking and one asynchronous command, one regular slot, silent or slow firmware, every timeout may expire | semaphores balance, slots are exclusive, a late event still finds its own entry, a command is completed once, `cleanup_async_ctx` waits for all callbacks, the contract holds, every command is answered |
| `cmd_flush` | device error at any point of a blocking and an asynchronous command | the flush ends without any timeout and leaves nobody waiting; semaphores, slots and completions as above |
| `cmd_switch` | restrict, poll, unrestrict, restrict, events, unrestrict around a command with the allowed opcode and a page command | mode and allowed opcode change only when nothing is in flight; types, contract and the firmware's claim on a slot hold across it |
| `cmd_late_event` | waiter and late event | a disagreement with a comment, see below |
| `cmd_page_slot` | two MANAGE_PAGES commands, timeouts | a disagreement with a comment, see below |
| `cmd_flush_get` | flush beside a work handler that is taking its slot | a disagreement with a comment, see below |

*Bounds.* `NumReg = 1` gives one regular slot and the page slot. Every conflict
over a slot, an index or a semaphore needs two commands, and a third one is
needed to reuse the slot of a command that timed out while another waits; more
slots only make conflicts rarer. Commands are issued once; a second use of an
entry does not exist in the code, since entries are allocated per command. The
script of `cmd_switch` is `destroy_async_eqs` followed by `create_async_eqs`.

*Page commands.* All MANAGE_PAGES commands use one slot, which
`cmd_work_handler` takes without a look at `cmd->bitmask` as soon as `pages_sem`
lets it pass, and `pages_sem` comes back before its last holder is done with the
slot: after a timeout the firmware is still working in it (`cmd_page_slot`), and
even without one the last put of the first command marks the slot free under
the second. `SlotExclusive` and `FirmwareClaim` are therefore about the commands
with a slot of their own (`OwnSlotCmds`): all regular ones, whatever the page
commands do, and a page command that is the only one. `cmd_timeout` and
`cmd_flush` have none and `cmd_switch` has one; two of them together are run in
`cmd_page_slot` only, and `CommandContract` is not claimed for them: the late
event of the first would complete the second.

*Forced polling.* `mlx5_cmd_exec_polling` in event mode (`Polled`; the only user
is the fast teardown, `fw.c:329`) is in the model and in none of the runs: the
poller drops the firmware's reference while the command's event is still to
come, so that `FirmwareClaim` fails for it as `SlotKept` does for page commands.

*Timing.* Time is not modelled, a timeout may expire whenever it is armed. The
one exception is `SubmitInTime`: `cmd_work_handler` is assumed to get from
dequeueing to the doorbell faster than the timeouts of 60 s it races, and
`poll_timeout` (61 s) to end before the 65 s of `wait_func`'s two waits. This
includes the wait in `down(sem)`. The command that holds the semaphore was there
first, so its own timeout, which gives the semaphore back, runs out first; the
assumption is a real one when the holder is the drain of `mlx5_cmd_change_mod`,
which may itself wait for a slow page command. If it fails, the waiter gives up
with `ent->idx` still unset and frees an entry the work handler goes on with
(hazard at `cmd.c:1099`). `FirmwareClaim`, `CommandContract` and the liveness
properties rest on the assumption; the theorems (below) do not.

*References.* `work_arm` sets PENDING_COMP (`cmd.c:1013`) and `work_get` takes
the reference for the firmware's event (`cmd.c:1015`). They are two steps, and a
flush may complete the command between them.

*Fairness.* Weak fairness for every thread step: the kernel schedules runnable
threads and work items. Timers do expire (`TimeFairness`), except in the flush
run, where the point is that the error path needs none. `cmd_switch` checks
safety only and assumes no fairness. The firmware and the
interrupt get no fairness; a thread in `mlx5_cmd_eq_recover` does read the
event queue.

*Deadlock checking* is off: when all commands are answered and the script is
done, the model rests, and firmware that never answers is part of it.

## Multicast groups

`Mcast.tla` is all of `multicast.c` that changes state. Members of a group share
the port's one membership with the subnet administrator (SA). A group has a
list of joins that wait, a list of active members, a count per membership type,
and `state`, which is anything but `MCAST_IDLE` while somebody serves the group.
The server is `mcast_work_handler`, run from `mcast_wq` or at the end of an SA
callback, so there are two threads, `WQ` and `SAT`; `pc` and `loc` are where
they are and their locals. Actions are cut where `group->lock` or `port->lock`
is dropped: `work_join`, `send_join`, `work_sent`, `callback`, `send_leave`,
`work_idle` and `work_release` are the handler, `error_*` is
`process_group_error`, `join_handler_*` and `leave_handler_*` the SA callbacks.
`upc` is where a user is in `ib_sa_join_multicast` or `ib_sa_free_multicast`;
`free_wait` is its `wait_for_completion`, also when a callback's error made the
handler call it.

`mcast` has two members, for one and for two membership types, of one group,
which is freed and allocated again, one leave retry instead of 3, and one port
event or SA restart. It shows that a group has exactly one server and that an
idle one has nothing left to do (`OneServer`); that member, work and port
references are handed over without loss (`GroupRefs`); that nobody uses a member
once `ib_sa_free_multicast` has returned (`FreedQuietly`); and that active
members have what they joined (`MemberIsJoined`). The last is the reason for the
SA in the model: it may execute a query and lose the answer, refuse it, or
restart. The SA is assumed never to execute a query after its failure was
reported, and to choose unused MGIDs. One group keeps the run at 1.2 million
states; groups meet only in `port->table`, where an MGID that is taken matters
only against that second assumption. The run checks safety, without fairness;
the deadlock check is off because a removed port comes to rest.

## iWARP connection manager

`Iwcm.tla` has three parties: the client's downcalls, the provider's upcalls
through `cm_event_handler`, and the ordered queue `iwcm_wq` with
`cm_work_handler`, whose step and locals are `wk`. `app` is what the client does
with a cm_id, `dpc` where a `destroy_cm_id` of it is, `prov` the provider's
connection, and `qp_refs` the references held on the QP. Events wait in
`work_list`; `work_free` counts the preallocated elements, four for
`iw_cm_connect`, three for a connection request, the backlog for a listener.
cm_ids are addresses and are allocated again. A client is what `cma.c` is: it
connects or listens once per cm_id and answers a request once.

`iwcm` has one address to connect and one to listen with, either of which
serves for an incoming connection too, and a backlog of 2: enough for a
connection to live beside its listener and for the worker to find events of
both. It shows that no `BUG_ON` is reached (`NoBug`), that the reference count
is exactly who uses the cm_id (`RefCounts`), the QP is released exactly once
(`QpRefs`), no event of a connection is lost for lack of an element
(`WorksSuffice`), none is left without the worker (`Scheduled`), and that a
destroyed cm_id is freed (`DestroyFrees`). Deadlock is checked: there is always
something the client or the provider may do.

*Fairness*: the worker and threads inside a downcall run; the provider answers
`iw_connect` and `iw_accept`, and closes a connection that is in error. For the
last property this is not enough. `cm_work_handler` stays in its loop while
events of one cm_id keep coming, and a listener under a steady stream of
requests keeps every other cm_id waiting; `DestroyFrees` therefore says
explicitly that the handler returns again and again.

`iwcm_late` checks the promise of `iw_cm.h:111` that no events are delivered
after `iw_destroy_cm_id` returns. The worker may be past its test of
`IWCM_F_DROP_EVENTS`, or on the way from the unlocked state change to
`cm_handler`, when the client destroys the cm_id; the callback comes later.

## Segmented MADs

`Rmpp.tla` follows one transfer. The sender's `mad_send_wr` is on the agent's
send list, on its wait list, marked done or gone; `refcount`, `timeout`,
`seg_num`, `last_ack`, `newwin` and `retries_left` are its fields, `posted` says
the QP has it, and `cq` is a completion thread that dropped the lock between
marking the request and completing it. The receiver is `mad_rmpp_recv`. Packets
are in a set, in any order, and may be lost; retries repeat them. Times are
three values, "zero", a "span" and an "instant" (a span plus `jiffies`), which
is what the code tells apart, or fails to.

`RmppContract.tla` is reliable transfer: the message is delivered at most once,
whole, and the sender is told once, success only after delivery. `ContractSpec`
states that `Rmpp` implements it, with the exception below. `rmpp` also checks
that the reference count of the request is exactly its users (`SendRefs`), that
the sender keeps to the receiver's window and this receiver never sends an ACK for which the sender
aborts (`WindowKept`), that a response comes before the completion of its
request (`ResponseFirst`, `mad.c:2574`), and that both sides end whatever is lost
(`SendCompletes`, `ReceiveEnds`). Four segments in windows of two make the
sender stop for an ACK in the middle of the message and let a window be crossed;
three packets at a time suffice for an old ACK or segment to overtake; one retry
gives both the retry and its exhaustion.

The receive timer may expire while a segment is being processed:
`recv_timeout_handler` tests the state under `agent->lock` (`mad_rmpp.c:249`),
`continue_rmpp` under `rmpp_recv->lock` (`mad_rmpp.c:485`). If that segment is
the one that completes the message, the client is given a message whose buffers
`ib_free_recv_mad` then frees (`wc = "freed"`, which the run reaches), and a
first segment still under way starts the receive anew. The variable `overlap`
remembers it. `ContractSpec` admits a second delivery, and `ReceiveEnds` buffers
that were freed under the client, after an overlap and never else. The second delivery needs all of the message under way at once, that
is a message of at most one window and the first segment, so the run, with four
segments in windows of two, does not reach it; with two segments in windows of
one it happens. The `cleanup_work` that `complete_rmpp` has queued by then lies in
freed memory; what follows from it is not modelled.

*Fairness*: completion threads and timers go on; the network owes nothing.
*Assumption*: when the 10 s of `complete_rmpp` are over no segment of the
message is under way any more (`Quiet`; without it a one-segment message whose
ACKs are lost for 10 s is delivered again).

`rmpp_ack` is a client timeout of at most 2 s. `send_next_seg` then keeps
`mad_send_wr->timeout`, which for a request on the wait list is already an
instant, and the next `wait_for_response` waits for that many jiffies
(`AckTimer`, against the comment at `mad_rmpp.c:590`). For that reason `rmpp`
uses a timeout of 0 and one above 2 s.

## uverbs objects

`Uobj.tla` is one open uverbs file. An object has a kref, a use count (-1
exclusive, otherwise the number of shared users), a hardware object, a context,
a place on `ufile->uobjects` and a handle: an IDR entry or a descriptor with a
`struct file` of its own (`frefs`). `cmd` holds the commands, which create,
commit, abort, look up, put and destroy objects; `close_fd` and
`uverbs_uobject_fd_release` are the end of a descriptor. The threads `close`
(`ib_uverbs_close`) and `remove` (`ib_uverbs_free_hw_resources`) run
`uverbs_destroy_ufile_hw`, object by object. `readers` and `writer` are
`hw_destroy_rwsem`; `sync` is what `synchronize_srcu` waits for.

A lookup takes its references first and tests `ib_dev` then (`lookup_test`). When
the device is gone it puts them again, and for a descriptor it does so through
`uobj->object`. The cleanup sets that to NULL, and until
`uverbs_disassociate_api` clears `type_attrs` a descriptor can still be looked
up, so `lookup_put_fd_uobject` may call `fput(NULL)`; the model keeps such a
command at `"oops"`, with the references it will never give back. `ObjectThere`
says that this is the only way to get there.

`uobj` runs three commands on a handle object and a descriptor object. Three
users are what it takes for two to share an object while a third wants it
exclusively, and the two kinds of object are enough for a pass of the cleanup
that destroys one and is refused the other; two commands on three objects were
checked as well. It shows that use counts are a correct lock
(`UseCounts`), that krefs of objects and of the file count exactly their holders
(`Krefs`), that a command that has locked an object has its hardware and context
and none outlives the ucontext (`ObjectThere`), that the cleanup and the release
of a descriptor meet nobody, which is what the `WARN_ON`s expect
(`CleanupAlone`), and that the removal ends (`RemoveEnds`).

*Fairness*: commands return and the two threads go on; neither a close nor a
removal is assumed to come. *Assumptions*: a waiting writer keeps new readers of
the rwsem out; a command uses one object at a time. The deadlock check is off: a
closed file rests.

## Where code and comments disagree

* `cmd.c:1715` expects the caller's put to be the final one. A caller whose time
  runs out while the event handler is between `test_and_clear_bit` and
  `complete()` returns and puts first (`cmd_late_event`).
* `cmd.c:1634`, "only real completion can free the cmd slot", is not so for the
  MANAGE_PAGES commands: when one times out the next takes over its slot while
  the firmware still works on the first (`cmd_page_slot`).
* `cmd.c:1740` takes references under `alloc_lock` so that pending commands are
  not freed; the work handler writes `ent_arr` outside the lock, after the slot
  was marked taken (`cmd_flush_get`).
* `iw_cm.h:111` promises that no event is delivered after `iw_destroy_cm_id`
  returns (`iwcm_late`).
* `mad_rmpp.c:590` gives an ACK 2 seconds; with a client timeout of at most 2 s
  the wait may be an absolute time taken for a span (`rmpp_ack`).

## Proofs

A theorem holds for every value of the constants, from the ASSUME of its module:
any set of commands and number of slots (`CmdIf`), any number of segments,
window, retries and network capacity (`Rmpp`), any set of cm_ids and backlog
(`Iwcm`), any finite sets of commands and objects (`Uobj`). Each rests on an
inductive invariant, which was model-checked on small instances before it was
proved: one lemma per action says that a step keeps it, and the theorems follow
from it.

| module | theorem | states | 
|---|---|---|
| `CmdIf_proof` | `TypeCorrect` | `TypeOK` |
| `CmdIf_once` | `CompletesOnce` | `CompletedOnce`, in event mode |
| `CmdIf_slots` | `SlotsExclusive` | `SlotExclusive`, in every mode |
| `CmdIf_slots` | `CleanupWaitsForAll` | `CleanupWaits`, in event mode, for finitely many commands |
| `CmdIf_balance` | `SemaphoresBalance`, `DrainsQuietly` | `SemaphoreBalance`, `DrainIsQuiet`, in event mode, for finitely many commands |
| `Rmpp_proof` | `TypeCorrect`, `SendRefsHolds`, `WindowAlwaysKept`, `ResponseAlwaysFirst` | `TypeOK`, `SendRefs`, `WindowKept`, `ResponseFirst` |
| `Rmpp_proof` | `TransferContract` | `ContractSpec` (refinement of `RmppContract`), for more than one segment |
| `Iwcm_proof` | `TypeCorrect`, `NoBugReached`, `RefCountsHold`, `QpRefsHold`, `WorksAlwaysSuffice`, `AlwaysScheduled` | `TypeOK`, `NoBug`, `RefCounts`, `QpRefs`, `WorksSuffice`, `Scheduled` |
| `Uobj_proof` | `TypeCorrect`, `UseCountsHold`, `KrefsHold`, `ObjectAlwaysThere`, `CleanupAlwaysAlone` | `TypeOK`, `UseCounts`, `Krefs`, `ObjectThere`, `CleanupAlone` |

### Command interface

**`TypeCorrect`** (`CmdIf_types.tla`, `CmdIf_proof.tla`): `Spec => []TypeOK`, for
any script and mode. `TypeOK` is not inductive: `work_arr` writes
`ent_arr[idx[cur(t)]]`, which is well typed only because a thread that works on
an entry holds a command in its locals and that command has its slot by then;
the event queue is read through `idx` of what is in it. `TypeInv` adds these
facts (`ThrLocal`, `SlotLocals`, `GotLocal`). The lemmas on moves (`GotoThr`,
`EnterThr`, `CallThr`, `PutThr`) say once what a step of one thread does to `pc`
and `frame`; then there is one lemma per action, and `StepType` puts them
together.

**`CompletesOnce`** (`CmdIf_once.tla`): `EventsOnly /\ Spec => []CompletedOnce`.
`EventsOnly` says that the interface is in event mode, the script never leaves
it, and no command is polled by force. The argument follows the right to
complete a command. It passes from the issuer to the work queue, to the thread
that submits the command, to the `PENDING_COMP` bit, and to the one thread whose
`test_and_clear_bit` finds the bit set. `OnceOf(c)` says that at any time at
most one of these has it, and that the command is not finished while one does;
`QueueInv` says the work queue holds an entry once. Most steps hand nothing on
(`Keeps`, `KeepsOnce`); the few that do (`cmd_exec`, `work_start`,
`wait_canceled`, `work_arm`, `comp_test_and_clear` and the finishing steps) are
proved one by one through `HandOn` and `Finish`. The proof uses no timing: not
even `SubmitInTime`.

**`SlotsExclusive`** (`CmdIf_slots.tla`): `Spec => []SlotExclusive`, in every mode
and for any number of page commands. `SlotInv` says, besides the property, that
an entry is given its index once (the threads of `Early` have no index yet, one
thread at most is there, and an entry that was never submitted has none) and
that one thread at most is between the last put and `cmd_free_index` (`Freeing`),
during which the index is still the entry's.

**`CleanupWaitsForAll`** (`CmdIf_slots.tla`): `CtxInv` says that `num_inflight` is
the number of asynchronous commands that were issued and have had no callback,
and one for the context itself until `mlx5_cmd_cleanup_async_ctx` gives it up;
and that a command which may still be completed (`Live`) has had no callback.
The second is what the steps are about: nothing that is over comes back
(`LiveStep` and the lemmas after it), which rests on `OnceOf`.

**`SemaphoresBalance`, `DrainsQuietly`** (`CmdIf_balance.tla`): a command in flight
is in one hand: PENDING_COMP, or the one thread that `OnceOf` gives the right to
complete it (`InHand`). `BalInv` says that the semaphores' free counts, the
commands in a hand and the counts the manager has taken add up. A step moves one
command from one hand to another or changes one count, and the lemmas `SameBal`,
`TakeBal` and `GiveBal` turn that into arithmetic. That a drain meets nobody
follows: when the manager has every count, the set of commands in flight is
empty. In event mode this is a statement about the opcode restriction; the change
to polling and back is checked in `cmd_switch`.

### Segmented MADs

`RmppInv` has three parts: what the sender's fields say of each other
(`SenderInv`: for instance a request with timeout zero is in the hands of the QP
or of a completion thread), the same for the receiver (`ReceiverInv`: segments
received lie inside the window granted), and what the packets under way say of
both ends (`LinkInv`, `PacketOK`: a segment or an ACK never names more than the
window the sender has been granted, and an ACK of the last segment, or a
response, exists only after delivery). The last part is what makes `WindowKept`
inductive: an ACK may be arbitrarily old when it arrives. That `update_seg_num`
finds the last segment received in order is the lemma `LastInOrderType`.

`TransferContract` is the refinement, step by step, and assumes `N > 1`. The
additional invariant `OnceInv` says that, while there was no overlap, a message is
delivered once because its first segment is not sent again after its last one
was. With one segment that
argument is gone, and delivery at most once rests on the model's assumption about
the 10 s of `recv_cleanup_handler` (`Quiet`, above) and on how the retries end;
the one-segment message is not covered by the theorem.

### iWARP connection manager

`IwcmInv` is a statement about each cm_id and one about the queue. Its heart is
what the events on their way (on `work_list`, or taken off it and not yet
processed) say of the state: `EventState` and `ListOrder` say that CONNECT_WAIT
is set exactly until the first event of the connection has been processed, that
no other event overtakes it, and that CLOSE is the last. From this no `BUG_ON`
can be reached. `CountInv` makes up the reference count from the handle, the
provider and the events; `EventBound` bounds the events by what the provider can
still send, hence three preallocated elements suffice; `QueueInv` says that
`cm_work_handler` is queued once for a cm_id with events, or loops on it.

### uverbs objects

`UobjInv` says of each command what it knows of its object by what it holds
(`CmdInv`: `KnowsNew`, `KnowsOld`), of each object how `kref`, `usecnt` and the
references to its file are made up (`ObjInv`), and of the two threads that
destroy everything what the semaphore and `synchronize_srcu` keep away from them
(`ThreadInv`). Counts are cardinalities of sets of commands; `MoveCounts` says
once that a set that gains or loses one element changes its size by one, and
`UsersCounted` applies it to a step of one command. `UobjInv` admits a third
case in the use count that `UseCounts` does not tell apart: an object that is
destroyed, out of the list and locked for ever (`usecnt` is -1 and nobody has it),
kept alive by commands that looked it up before. For `ObjectThere` it adds what a
command that saw `ib_dev` knows (`SawDevice`): the removal has not got past
`synchronize_srcu`, so no descriptor was destroyed under it.

### What is model-checked only

* Liveness (`Answered`, `FlushEnds`, `DestroyFrees`, `SendCompletes`,
  `ReceiveEnds`, `RemoveEnds`): under fairness, out of the prover's reach.
* The five properties of the disagreements, which do not hold.
* `FirmwareClaim` and `CommandContract` of `CmdIf`, and all of `Mcast`. Nothing in
  principle stands in the way of proving them. In polling mode also
  `SemaphoreBalance`, `DrainIsQuiet`, `CleanupWaits` and `CompletedOnce`, as far as
  the runs reach it.

## Plan

1. **Done**: command interface, multicast groups, iWARP connection manager,
   RMPP with its contract, uverbs objects.
2. **Extend**, in this order: the page allocator (`pagealloc.c`) on top of
   `CmdContract`, the SRP transport timers (`scsi_transport_srp.c`), the message
   cache and the memory region cache, the IB CM handshake.
3. **Prove**: the firmware's claim on a slot (`CmdIf`); the reference counts of
   `Mcast`.

Each new module gets the hazards of its part added to `PROJECT.json` first, so
that its properties are aimed at them.

## Not modelled

* *Command interface*: message buffers and their cache, tokens and signatures,
  statistics, debugfs; the window before the load's first page commands;
  asynchronous commands while the interface polls.
* *Multicast*: the fields of a record other than MGID and join state (`cmp_rec`
  has either result), P_Key indices, failed allocations.
* *iWARP CM*: addresses and the port mapper, private data and the failure to copy
  it, `iw_cm_init_qp_attr`, a client that connects a cm_id twice.
* *RMPP*: segmented responses with their own window (DS ACK, `repwin`), STOP and
  bad-status packets, the NACK that goes with a bad ACK, several transfers at a
  time, `ib_cancel_rmpp_recvs`; of `mad.c`, registration and SMP processing.
* *uverbs*: several objects in one command, event files, mmaps, the command
  dispatcher.

The components not modelled at all are listed in `PROJECT.json`.
