-------------------------------- MODULE Uobj --------------------------------
(***************************************************************************)
(* The objects a process owns through one open uverbs file, ufile          *)
(* (infiniband/core/rdma_core.c, opened, closed and disassociated by       *)
(* uverbs_main.c and uverbs_uapi.c).  Commands create, look up and destroy *)
(* objects by handle; an object is locked shared or exclusive by its       *)
(* usecnt, without waiting.  Two threads destroy everything at once: the   *)
(* close of the file and the removal of the device, which may come at any  *)
(* time.  Objects of the FD class live in a file of their own, which user  *)
(* space closes.                                                           *)
(*                                                                         *)
(* ufile->hw_destroy_rwsem is read-held by whoever creates or destroys one *)
(* object and write-held by whoever destroys them all.                     *)
(***************************************************************************)
EXTENDS Integers, FiniteSets

CONSTANTS
    Cmds,   \* threads running commands
    Objs,   \* memory for uobjects
    Fds     \* the ones of the FD class

ASSUME UobjAssumption == Fds \subseteq Objs /\ IsFiniteSet(Cmds) /\ IsFiniteSet(Objs)

Threads == {"close", "remove"}

VARIABLES
    \* ib_uobject: kref, usecnt, object # NULL, context # NULL, on ufile->uobjects
    ref, usecnt, object, context, listed,
    handle,   \* IDR entry or fd: "none", "reserved" or "stored"; "closed" if user space has
              \* closed the fd and the file is not released yet
    frefs,    \* references to the struct file of an FD object
    cmd,      \* cmd[c]: what the thread does, and with which object
    readers, writer,           \* hw_destroy_rwsem: who has it
    ucontext, retryable,       \* ufile->ucontext, ucontext->cleanup_retryable
    ib_dev,                    \* uverbs_device->ib_dev # NULL
    sync,                      \* commands that synchronize_srcu still waits for
    thread,                    \* the two threads
    todo, cleaned,             \* __uverbs_cleanup_ufile: left of this pass, some object went
    onDevice, uref             \* ufile: on uverbs_file_list, kref

objVars == <<ref, usecnt, object, context, listed, handle, frefs>>
fileVars == <<ucontext, retryable, ib_dev, sync, thread, todo, cleaned, onDevice, uref, writer>>
vars == <<objVars, cmd, readers, fileVars>>

Idle == [pc |-> "idle", obj |-> "none", mode |-> "none"]

Init ==
    /\ ref = [o \in Objs |-> 0] /\ usecnt = [o \in Objs |-> 0]
    /\ object = [o \in Objs |-> FALSE] /\ context = [o \in Objs |-> FALSE]
    /\ listed = {} /\ handle = [o \in Objs |-> "none"] /\ frefs = [o \in Fds |-> 0]
    /\ cmd = [c \in Cmds |-> Idle]
    /\ readers = {} /\ writer = "none"
    /\ ucontext = TRUE /\ retryable = FALSE /\ ib_dev = TRUE /\ sync = {}
    /\ thread = [t \in Threads |-> "idle"]
    /\ todo = {} /\ cleaned = FALSE
    /\ onDevice = TRUE /\ uref = 1

-----------------------------------------------------------------------------
(* Locks and references.                                                   *)

\* A reader gets hw_destroy_rwsem when no writer has it or waits for it (external).
CanRead == writer = "none" /\ \A t \in Threads : thread[t] # "lock"

\* uverbs_try_lock_object.
TryLock_shared(o, mode) == usecnt[o] # -1
TryLock(o, mode) ==
    CASE mode = "READ" -> usecnt[o] # -1
      [] mode = "WRITE" -> usecnt[o] = 0

Locked(o, mode) == [usecnt EXCEPT ![o] = IF mode = "READ" THEN @ + 1 ELSE -1]

\* uverbs_uobject_put of n references; the last one frees the object.
Put(o, n) == ref' = [ref EXCEPT ![o] = @ - n]

Goto(c, pc) == cmd' = [cmd EXCEPT ![c].pc = pc]
Return(c) == cmd' = [cmd EXCEPT ![c] = Idle] /\ sync' = sync \ {c}
AfterCmd == <<ucontext, retryable, ib_dev, thread, todo, cleaned, onDevice, uref, writer>>

\* A command starts while the file is open; it holds disassociate_srcu until it returns.
Starts(c) == cmd[c].pc = "idle" /\ thread["close"] = "idle"

-----------------------------------------------------------------------------
(* Creating an object.                                                     *)

\* rdma_alloc_begin_uobject, alloc_uobj: write locked until it is committed.  The object
\* pointer of an FD object is its struct file.
rdma_alloc_begin_uobject(c, o) ==
    /\ Starts(c) /\ ref[o] = 0
    /\ CanRead /\ ib_dev /\ ucontext
    /\ readers' = readers \cup {c}
    /\ ref' = [ref EXCEPT ![o] = 1]
    /\ usecnt' = [usecnt EXCEPT ![o] = -1]
    /\ object' = [object EXCEPT ![o] = o \in Fds]
    /\ context' = [context EXCEPT ![o] = TRUE]
    /\ handle' = [handle EXCEPT ![o] = "reserved"]
    /\ cmd' = [cmd EXCEPT ![c] = [pc |-> "create", obj |-> o, mode |-> "NEW"]]
    /\ UNCHANGED <<listed, frefs, fileVars>>

\* The handler of the method makes the HW object (external).
create_hw(c) ==
    /\ cmd[c].pc = "create"
    /\ object' = [object EXCEPT ![cmd[c].obj] = TRUE]
    /\ Goto(c, "created")
    /\ UNCHANGED <<ref, usecnt, context, listed, handle, frefs, readers, fileVars>>

\* A reference for the list, and the first one for the handle or the file.
CommitRefs_one == 0
CommitRefs == 1

rdma_alloc_commit_uobject(c) ==
    LET o == cmd[c].obj IN
    /\ cmd[c].pc = "created"
    /\ ref' = [ref EXCEPT ![o] = @ + CommitRefs]
    /\ listed' = listed \cup {o}
    /\ usecnt' = [usecnt EXCEPT ![o] = 0]
    /\ handle' = [handle EXCEPT ![o] = "stored"]
    /\ frefs' = IF o \in Fds THEN [frefs EXCEPT ![o] = 1] ELSE frefs
    /\ uref' = IF o \in Fds THEN uref + 1 ELSE uref
    /\ readers' = readers \ {c}
    /\ Return(c)
    /\ UNCHANGED <<object, context, ucontext, retryable, ib_dev, thread, todo, cleaned,
                   onDevice, writer>>

\* rdma_alloc_abort_uobject, with or without a HW object.
rdma_alloc_abort_uobject(c) ==
    LET o == cmd[c].obj IN
    /\ cmd[c].pc \in {"create", "created"}
    /\ object' = [object EXCEPT ![o] = FALSE]
    /\ context' = [context EXCEPT ![o] = FALSE]
    /\ usecnt' = [usecnt EXCEPT ![o] = 0]
    /\ handle' = [handle EXCEPT ![o] = "none"]
    /\ Put(o, 1)
    /\ readers' = readers \ {c}
    /\ Return(c)
    /\ UNCHANGED <<listed, frefs, AfterCmd>>

-----------------------------------------------------------------------------
(* Looking an object up.                                                   *)

\* lookup_get of a class takes a reference, and one of the file of an FD object, which is
\* looked up for reading only.
rdma_lookup_get_uobject(c, o, mode) ==
    /\ Starts(c)
    /\ handle[o] = "stored" /\ ref[o] > 0
    /\ o \in Fds => mode = "READ" /\ frefs[o] > 0
    /\ ref' = [ref EXCEPT ![o] = @ + 1]
    /\ frefs' = IF o \in Fds THEN [frefs EXCEPT ![o] = @ + 1] ELSE frefs
    /\ cmd' = [cmd EXCEPT ![c] = [pc |-> "found", obj |-> o, mode |-> mode]]
    /\ UNCHANGED <<usecnt, object, context, listed, handle, readers, fileVars>>

\* rdma_lookup_put_uobject after the unlock.
LookupPut(c, o) ==
    /\ Put(o, 1)
    /\ frefs' = IF o \in Fds THEN [frefs EXCEPT ![o] = @ - 1] ELSE frefs
    /\ Return(c)

\* ib_dev stops every command but a destroy.
StopsAfterRemove(mode) == mode # "DESTROY" /\ ~ib_dev

\* An object of another type (-EINVAL; the fops tell FD objects apart before) or of a
\* device that is gone (-EIO) is put again.  lookup_put_fd_uobject takes the file from
\* uobj->object, and when that is NULL the fput is the end of the thread.
lookup_test(c) ==
    LET o == cmd[c].obj  mode == cmd[c].mode IN
    /\ cmd[c].pc = "found"
    /\ \/ /\ ~StopsAfterRemove(mode)
          /\ Goto(c, "got")
          /\ UNCHANGED <<ref, frefs, sync>>
       \/ /\ o \notin Fds \/ (StopsAfterRemove(mode) /\ object[o])
          /\ LookupPut(c, o)
       \/ /\ o \in Fds /\ StopsAfterRemove(mode) /\ ~object[o]
          /\ Goto(c, "oops")
          /\ UNCHANGED <<ref, frefs, sync>>
    /\ UNCHANGED <<usecnt, object, context, listed, handle, readers, AfterCmd>>

lookup_lock(c) ==
    LET o == cmd[c].obj  mode == cmd[c].mode IN
    /\ cmd[c].pc = "got" /\ mode # "DESTROY"
    /\ \/ /\ TryLock(o, mode)
          /\ usecnt' = Locked(o, mode)
          /\ Goto(c, "locked")
          /\ UNCHANGED <<ref, frefs, sync>>
       \/ /\ ~TryLock(o, mode)
          /\ LookupPut(c, o)
          /\ UNCHANGED usecnt
    /\ UNCHANGED <<object, context, listed, handle, readers, AfterCmd>>

Unlocked_dec(n, mode) == n - 1
Unlocked(n, mode) == IF mode = "READ" THEN n - 1 ELSE 0
rdma_lookup_put_uobject(c) ==
    LET o == cmd[c].obj IN
    /\ cmd[c].pc = "locked"
    /\ usecnt' = [usecnt EXCEPT ![o] = Unlocked(@, cmd[c].mode)]
    /\ LookupPut(c, o)
    /\ UNCHANGED <<object, context, listed, handle, readers, AfterCmd>>

-----------------------------------------------------------------------------
(* Destroying one object.                                                  *)

\* uobj_destroy: the semaphore, then the exclusive lock.
uobj_destroy(c) ==
    LET o == cmd[c].obj IN
    /\ cmd[c].pc = "got" /\ cmd[c].mode = "DESTROY" /\ CanRead
    /\ \/ /\ TryLock(o, "WRITE")
          /\ usecnt' = Locked(o, "WRITE")
          /\ readers' = readers \cup {c}
          /\ Goto(c, "destroy")
          /\ UNCHANGED <<ref, frefs, sync>>
       \/ /\ ~TryLock(o, "WRITE")
          /\ LookupPut(c, o)
          /\ UNCHANGED <<usecnt, readers>>
    /\ UNCHANGED <<object, context, listed, handle, AfterCmd>>

\* uverbs_destroy_uobject takes an object off the list, with the list's reference.
ListRef(o) == IF o \in listed THEN 1 ELSE 0

\* uverbs_destroy_uobject for RDMA_REMOVE_DESTROY: the handle goes with its reference, and
\* the object stays locked.  The driver may refuse, and the object is unlocked again.
destroy_uobject(c) ==
    LET o == cmd[c].obj IN
    /\ cmd[c].pc = "destroy"
    /\ \/ /\ object' = [object EXCEPT ![o] = FALSE]
          /\ context' = [context EXCEPT ![o] = FALSE]
          /\ handle' = [handle EXCEPT ![o] = "none"]
          /\ listed' = listed \ {o}
          /\ Put(o, 1 + ListRef(o))
          /\ Goto(c, "destroyed")
          /\ UNCHANGED <<usecnt, frefs, sync>>
       \/ /\ object[o]
          /\ usecnt' = [usecnt EXCEPT ![o] = 0]
          /\ LookupPut(c, o)
          /\ UNCHANGED <<object, context, handle, listed>>
    /\ readers' = readers \ {c}
    /\ UNCHANGED AfterCmd

\* uobj_put_destroy, after the method's handler.
uobj_put_destroy(c) ==
    LET o == cmd[c].obj IN
    /\ cmd[c].pc = "destroyed"
    /\ LookupPut(c, o)
    /\ UNCHANGED <<usecnt, object, context, listed, handle, readers, AfterCmd>>

-----------------------------------------------------------------------------
(* The file of an FD object, and the end of the ufile.                     *)

close_fd(o) ==
    /\ handle[o] = "stored"
    /\ handle' = [handle EXCEPT ![o] = "closed"]
    /\ frefs' = [frefs EXCEPT ![o] = @ - 1]
    /\ UNCHANGED <<ref, usecnt, object, context, listed, cmd, readers, fileVars>>

\* kref_put of the ufile: with the last one, release_ufile_idr_uobject puts what is left
\* in the IDR.
Released == IF uref = 1 THEN {o \in Objs \ Fds : handle[o] = "stored"} ELSE {}
PutUfile(gone, refs) ==
    /\ uref' = uref - 1
    /\ handle' = [o \in Objs |-> IF o \in Released \cup gone THEN "none" ELSE handle[o]]
    /\ ref' = [o \in Objs |-> refs[o] - (IF o \in Released THEN 1 ELSE 0)]

\* uverbs_uobject_fd_release, with the last reference to the file: it destroys the object
\* unless the semaphore is not to be had, when another thread does.
uverbs_uobject_fd_release(o) ==
    /\ handle[o] = "closed" /\ frefs[o] = 0
    /\ object' = [object EXCEPT ![o] = @ /\ ~CanRead]
    /\ context' = [context EXCEPT ![o] = @ /\ ~CanRead]
    /\ listed' = IF CanRead THEN listed \ {o} ELSE listed
    /\ PutUfile({o}, [ref EXCEPT ![o] = @ - 1 - (IF CanRead THEN ListRef(o) ELSE 0)])
    /\ UNCHANGED <<usecnt, frefs, cmd, readers, ucontext, retryable, ib_dev, sync, thread,
                   todo, cleaned, onDevice, writer>>

-----------------------------------------------------------------------------
(* Destroying them all.                                                    *)

Step(t, pc) == thread' = [thread EXCEPT ![t] = pc]

\* ib_uverbs_close, when no command runs on the file any more.
ib_uverbs_close ==
    /\ thread["close"] = "idle" /\ \A c \in Cmds : cmd[c].pc = "idle"
    /\ Step("close", "lock")
    /\ UNCHANGED <<objVars, cmd, readers, ucontext, retryable, ib_dev, sync, todo, cleaned,
                   onDevice, uref, writer>>

\* uverbs_disassociate_api_pre: new commands see no device, and synchronize_srcu waits for
\* those that may have seen it.
Running_none == {}
Running == {c \in Cmds : cmd[c].pc # "idle"}

uverbs_disassociate_api_pre ==
    /\ thread["remove"] = "idle"
    /\ ib_dev' = FALSE /\ sync' = Running
    /\ Step("remove", "sync")
    /\ UNCHANGED <<objVars, cmd, readers, ucontext, retryable, todo, cleaned, onDevice, uref,
                   writer>>

\* ib_uverbs_free_hw_resources, for this file if it is still on the list.
ib_uverbs_free_hw_resources ==
    /\ thread["remove"] = "sync" /\ sync = {}
    /\ Step("remove", IF onDevice THEN "lock" ELSE "done")
    /\ uref' = IF onDevice THEN uref + 1 ELSE uref
    /\ onDevice' = FALSE
    /\ UNCHANGED <<objVars, cmd, readers, ucontext, retryable, ib_dev, sync, todo, cleaned,
                   writer>>

\* uverbs_destroy_ufile_hw.
uverbs_destroy_ufile_hw(t) ==
    /\ thread[t] = "lock" /\ readers = {} /\ writer = "none"
    /\ writer' = t
    /\ Step(t, IF ucontext THEN "pass" ELSE "unlock")
    /\ retryable' = ucontext /\ todo' = listed /\ cleaned' = FALSE
    /\ UNCHANGED <<objVars, cmd, readers, ucontext, ib_dev, sync, onDevice, uref>>

\* __uverbs_cleanup_ufile for one object: locked, destroyed or, if the driver refuses and
\* there is another pass, unlocked.  In the last pass the object goes in any case.
cleanup_uobject(t, o) ==
    /\ thread[t] = "pass" /\ o \in todo
    /\ todo' = todo \ {o}
    /\ usecnt' = [usecnt EXCEPT ![o] = 0]
    /\ \/ /\ object' = [object EXCEPT ![o] = FALSE]
          /\ context' = [context EXCEPT ![o] = FALSE]
          /\ listed' = listed \ {o}
          /\ Put(o, 1)
          /\ cleaned' = TRUE
       \/ /\ retryable /\ object[o]
          /\ UNCHANGED <<object, context, listed, ref, cleaned>>
    /\ UNCHANGED <<handle, frefs, cmd, readers, ucontext, retryable, ib_dev, sync, thread,
                   onDevice, uref, writer>>

\* Another pass while the last one helped, then one that may not be refused.
LoopsOn_always == TRUE
LoopsOn == cleaned
AnotherPass_cleaned == listed # {} /\ cleaned
AnotherPass == listed # {} /\ retryable
next_pass(t) ==
    /\ thread[t] = "pass" /\ todo = {} /\ AnotherPass
    /\ todo' = listed /\ cleaned' = FALSE
    /\ retryable' = LoopsOn
    /\ UNCHANGED <<objVars, cmd, readers, ucontext, ib_dev, sync, thread, onDevice, uref,
                   writer>>

ufile_destroy_ucontext(t) ==
    /\ thread[t] = "pass" /\ todo = {} /\ ~AnotherPass
    /\ ucontext' = FALSE /\ retryable' = FALSE /\ cleaned' = FALSE
    /\ Step(t, "unlock")
    /\ UNCHANGED <<objVars, cmd, readers, ib_dev, sync, todo, onDevice, uref, writer>>

\* up_write; the close takes the file off the device's list, and both put it.
unlock(t) ==
    /\ thread[t] = "unlock"
    /\ writer' = "none"
    /\ Step(t, "put")
    /\ onDevice' = (onDevice /\ t # "close")
    /\ UNCHANGED <<objVars, cmd, readers, ucontext, retryable, ib_dev, sync, todo, cleaned,
                   uref>>

put_ufile(t) ==
    /\ thread[t] = "put"
    /\ Step(t, "done")
    /\ PutUfile({}, ref)
    /\ UNCHANGED <<usecnt, object, context, listed, frefs, cmd, readers, ucontext, retryable,
                   ib_dev, sync, todo, cleaned, onDevice, writer>>

-----------------------------------------------------------------------------
Ends(c) ==
    \/ rdma_alloc_commit_uobject(c) \/ rdma_alloc_abort_uobject(c) \/ create_hw(c)
    \/ lookup_test(c) \/ lookup_lock(c) \/ rdma_lookup_put_uobject(c)
    \/ uobj_destroy(c) \/ destroy_uobject(c) \/ uobj_put_destroy(c)
Cleans(t) ==
    \/ uverbs_destroy_ufile_hw(t) \/ next_pass(t) \/ ufile_destroy_ucontext(t)
    \/ unlock(t) \/ put_ufile(t)
    \/ \E o \in Objs : cleanup_uobject(t, o)

Next ==
    \/ \E c \in Cmds : Ends(c)
    \/ \E c \in Cmds, o \in Objs :
          \/ rdma_alloc_begin_uobject(c, o)
          \/ \E mode \in {"READ", "WRITE", "DESTROY"} : rdma_lookup_get_uobject(c, o, mode)
    \/ \E o \in Fds : close_fd(o) \/ uverbs_uobject_fd_release(o)
    \/ ib_uverbs_close \/ uverbs_disassociate_api_pre \/ ib_uverbs_free_hw_resources
    \/ \E t \in Threads : Cleans(t)

\* Commands return and the threads go on; that there is a close or a removal is not assumed.
Fairness ==
    /\ \A c \in Cmds : WF_vars(Ends(c))
    /\ \A t \in Threads : WF_vars(Cleans(t))
    /\ WF_vars(ib_uverbs_free_hw_resources)

Spec == Init /\ [][Next]_vars /\ Fairness

-----------------------------------------------------------------------------
(* Properties.                                                             *)

\* Counts stay within bounds, and no reference is dropped that was not taken.
TypeOK ==
    /\ \A o \in Objs : ref[o] \in Nat /\ usecnt[o] >= -1
    /\ \A o \in Fds : frefs[o] \in Nat
    /\ listed \subseteq Objs /\ todo \subseteq Objs
    /\ writer \in Threads \cup {"none"} /\ readers \subseteq Cmds
    /\ uref \in Nat

Using(o, pcs) == {c \in Cmds : cmd[c].obj = o /\ cmd[c].pc \in pcs}
Exclusive(o) ==
    Using(o, {"create", "created", "destroy", "destroyed"})
        \cup {c \in Using(o, {"locked"}) : cmd[c].mode = "WRITE"}
Shared(o) == {c \in Using(o, {"locked"}) : cmd[c].mode = "READ"}

\* usecnt is the lock that uverbs_try_lock_object describes: shared accesses are counted,
\* and an exclusive one keeps out everybody else.
UseCounts ==
    \A o \in Objs : ref[o] > 0 =>
        \/ Exclusive(o) = {} /\ usecnt[o] = Cardinality(Shared(o))
        \/ Cardinality(Exclusive(o)) = 1 /\ Shared(o) = {} /\ usecnt[o] = -1
        \/ Exclusive(o) = {} /\ Shared(o) = {} /\ handle[o] = "none" /\ usecnt[o] = -1

\* The kref of an object counts the list, the handle or file and the commands that have
\* it, so it is freed neither too early nor never.  The kref of the ufile counts the open
\* file, the removal and the files of FD objects.
Krefs ==
    /\ \A o \in Objs :
        ref[o] = ListRef(o)
                 + (IF handle[o] \in {"stored", "closed"} THEN 1 ELSE 0)
                 + Cardinality(Using(o, {"create", "created", "found", "got", "locked",
                                         "destroy", "destroyed", "oops"}))
    /\ uref = Cardinality({t \in Threads : thread[t] \in {"lock", "pass", "unlock", "put"}})
              + (IF thread["close"] = "idle" THEN 1 ELSE 0)
              + Cardinality({o \in Fds : handle[o] \in {"stored", "closed"}})

\* A command that has locked an object finds its HW object and its ucontext, whatever is
\* being removed, and one that rdma_lookup_get_uobject has let past ib_dev finds the file
\* of an FD object when it puts it.  lookup_put_fd_uobject finds none only for a command
\* that is refused when the removal, done waiting for those that have seen the device, has
\* already destroyed the object.  No HW object outlives the ucontext.
ObjectThere ==
    /\ \A o \in Objs : Using(o, {"locked"}) # {} => object[o] /\ context[o]
    /\ \A o \in Fds : Using(o, {"got"}) # {} => object[o]
    /\ \A o \in Objs : Using(o, {"oops"}) # {} =>
          o \in Fds /\ ~object[o] /\ thread["remove"] \in {"lock", "pass", "unlock", "put", "done"}
    /\ ~ucontext => \A o \in Objs : ~object[o] /\ ~context[o]

\* __uverbs_cleanup_ufile: "if we hit this WARN_ON, that means we are racing with a
\* lookup_get"; nor does any command create or destroy an object meanwhile.  And
\* uverbs_uobject_fd_release: "we can always get the write lock here".
CleanupAlone ==
    /\ writer # "none" =>
        /\ readers = {}
        /\ \A o \in todo : usecnt[o] = 0 /\ o \in listed
    /\ \A o \in Fds : handle[o] = "closed" /\ frefs[o] = 0 => usecnt[o] = 0

\* The removal of the device ends, whatever the commands and the driver do.
RemoveEnds == thread["remove"] = "sync" ~> thread["remove"] = "done"
=============================================================================
