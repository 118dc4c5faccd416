----------------------------- MODULE Uobj_proof -----------------------------
(***************************************************************************)
(* The safety invariants of module Uobj for any finite set of commands and *)
(* of objects.                                                             *)
(*                                                                         *)
(* UobjInv, the inductive invariant, says of each command what it knows of *)
(* its object (CmdInv), of each object how its kref, its usecnt and the    *)
(* references to its file are made up (ObjInv), and of the two threads     *)
(* that destroy everything what the semaphore and synchronize_srcu keep    *)
(* away from them (ThreadInv).                                             *)
(***************************************************************************)
EXTENDS Uobj, FiniteSetTheorems, TLAPS

PCs == {"idle", "create", "created", "found", "got", "oops", "locked", "destroy", "destroyed"}
Modes == {"none", "NEW", "READ", "WRITE", "DESTROY"}
Handles == {"none", "reserved", "stored", "closed"}
Cleaning == {"lock", "pass", "unlock", "put"}
ThreadPCs == Cleaning \cup {"idle", "sync", "done"}
CmdStates == [pc : PCs, obj : Objs \cup {"none"}, mode : Modes]

Types ==
    /\ ref \in [Objs -> Int] /\ usecnt \in [Objs -> Int]
    /\ \A o \in Objs : usecnt[o] >= -1
    /\ object \in [Objs -> BOOLEAN] /\ context \in [Objs -> BOOLEAN]
    /\ listed \subseteq Objs /\ todo \subseteq Objs
    /\ handle \in [Objs -> Handles] /\ frefs \in [Fds -> Int]
    /\ cmd \in [Cmds -> CmdStates]
    /\ readers \subseteq Cmds /\ sync \subseteq Cmds
    /\ writer \in Threads \cup {"none"}
    /\ thread \in [Threads -> ThreadPCs] /\ uref \in Int

\* The commands that hold a reference to an object, and to the file of an FD object.
Holders(o) == Using(o, PCs \ {"idle"})
FileUsers(o) == Using(o, {"found", "got", "oops", "locked"})
HasFile(o) == handle[o] \in {"stored", "closed"}
Files == {o \in Fds : HasFile(o)}

\* The threads have begun to destroy everything.
CleaningBegan == thread["close"] # "idle" \/ thread["remove"] \notin {"idle", "sync"}

-----------------------------------------------------------------------------
(* The inductive invariant.                                                *)

\* A command knows its object by what it has locked.
Creating(c, o) == cmd[c].obj = o /\ cmd[c].pc \in {"create", "created"}

KnowsNew(c, o) ==
    cmd[c].pc \in {"create", "created"} =>
        /\ cmd[c].mode = "NEW" /\ handle[o] = "reserved" /\ o \notin listed /\ ucontext
        /\ context[o] /\ (cmd[c].pc = "created" => object[o])

KnowsOld(c, o) ==
    cmd[c].pc \in {"found", "got", "oops", "locked", "destroy", "destroyed"} =>
        /\ handle[o] # "reserved"
        /\ cmd[c].mode \in {"READ", "WRITE", "DESTROY"}
        /\ (cmd[c].pc \in {"found", "got"} /\ usecnt[o] # -1) => HasFile(o)
        /\ cmd[c].pc = "oops" => o \in Fds /\ ~object[o]
        /\ cmd[c].pc = "locked" =>
              cmd[c].mode # "DESTROY" /\ HasFile(o) /\ object[o] /\ context[o]
        /\ cmd[c].pc \in {"destroy", "destroyed"} => cmd[c].mode = "DESTROY"
        /\ cmd[c].pc = "destroy" => HasFile(o)
        /\ cmd[c].pc = "destroyed" => handle[o] = "none" /\ o \notin listed
        /\ o \in Fds => /\ cmd[c].mode = "READ" /\ HasFile(o)
                        /\ cmd[c].pc \in {"got", "locked"} => object[o]

\* It has been let past ib_dev, and is not there to destroy.
SawDevice(c) == cmd[c].mode # "DESTROY" /\ cmd[c].pc \notin {"found", "oops"}

CmdInv(c) ==
    /\ cmd[c].pc \in {"create", "created", "destroy"} <=> c \in readers
    /\ cmd[c].pc # "idle" =>
        /\ cmd[c].obj \in Objs
        /\ KnowsNew(c, cmd[c].obj) /\ KnowsOld(c, cmd[c].obj)
        /\ thread["close"] = "idle"
        /\ SawDevice(c) => ib_dev \/ c \in sync

RefInv(o) ==
    ref[o] = ListRef(o) + (IF HasFile(o) THEN 1 ELSE 0) + Cardinality(Holders(o))

UseInv(o) ==
    ref[o] > 0 =>
        \/ Exclusive(o) = {} /\ usecnt[o] = Cardinality(Shared(o))
        \/ (\E c \in Cmds : Exclusive(o) = {c}) /\ Shared(o) = {} /\ usecnt[o] = -1
        \/ /\ Exclusive(o) = {} /\ Shared(o) = {} /\ usecnt[o] = -1
           /\ handle[o] = "none" /\ o \notin listed

FileInv(o) ==
    o \in Fds =>
        frefs[o] = (IF handle[o] = "stored" THEN 1 ELSE 0) + Cardinality(FileUsers(o))

HwInv(o) ==
    /\ o \notin Fds => handle[o] # "closed"
    /\ object[o] => context[o]
    /\ context[o] => o \in listed \/ \E c \in Cmds : Creating(c, o)
    /\ ~CleaningBegan /\ ref[o] > 0 /\ usecnt[o] # -1 => object[o]
    /\ ~ucontext => ~context[o]

ObjInv(o) == RefInv(o) /\ UseInv(o) /\ FileInv(o) /\ HwInv(o)

Has(t) == IF thread[t] \in Cleaning THEN 1 ELSE 0
UrefInv ==
    uref = Has("close") + Has("remove") + (IF thread["close"] = "idle" THEN 1 ELSE 0)
           + Cardinality(Files)

ThreadInv ==
    /\ thread["close"] # "sync"
    /\ \A t \in Threads : thread[t] \in {"pass", "unlock"} <=> writer = t
    /\ thread["remove"] = "idle" <=> ib_dev
    /\ thread["remove"] \notin {"idle", "sync"} => sync = {}
    /\ writer # "none" => readers = {} /\ \A o \in todo : usecnt[o] = 0 /\ o \in listed
    /\ (\E t \in Threads : thread[t] = "pass") /\ ~retryable => listed \subseteq todo

UobjInv ==
    /\ Types /\ ThreadInv /\ UrefInv
    /\ \A c \in Cmds : CmdInv(c)
    /\ \A o \in Objs : ObjInv(o)

-----------------------------------------------------------------------------
(* Counting.                                                               *)

\* S becomes T by the coming or going of x alone, and is counted so.
Moved(S, T, x) == S \ {x} = T \ {x}
Counted(S, T, x) ==
    /\ Cardinality(S) \in Nat /\ Cardinality(T) \in Nat
    /\ (x \in S <=> x \in T) => T = S
    /\ x \in S /\ x \notin T => T = S \ {x} /\ Cardinality(T) = Cardinality(S) - 1
    /\ x \notin S /\ x \in T => T = S \cup {x} /\ Cardinality(T) = Cardinality(S) + 1

\* A set that changes by one element changes its size by one.
LEMMA MoveCounts ==
    ASSUME NEW X, IsFiniteSet(X), NEW S \in SUBSET X, NEW T \in SUBSET X, NEW x, Moved(S, T, x)
    PROVE  Counted(S, T, x)
<1>1. IsFiniteSet(S) /\ IsFiniteSet(T)
  BY Zenon, FS_Subset
<1>2. Cardinality(S) \in Nat /\ Cardinality(T) \in Nat
  BY Zenon, <1>1, FS_CardinalityType
<1>3. (x \in S <=> x \in T) => T = S
  BY DEF Moved
<1>4. ASSUME x \in S, x \notin T
      PROVE  T = S \ {x} /\ Cardinality(T) = Cardinality(S) - 1
  <2>1. T = S \ {x}
    BY Zenon, <1>4 DEF Moved
  <2> QED BY Zenon, <1>1, <1>4, <2>1, FS_RemoveElement
<1>5. ASSUME x \notin S, x \in T
      PROVE  T = S \cup {x} /\ Cardinality(T) = Cardinality(S) + 1
  <2>1. T = S \cup {x}
    BY Zenon, <1>5 DEF Moved
  <2> QED BY Zenon, <1>1, <1>5, <2>1, FS_AddElement
<1> QED BY Zenon, <1>2, <1>3, <1>4, <1>5 DEF Counted

\* A set of commands has a size, which is zero only if it is empty.
LEMMA CmdCount ==
    ASSUME NEW S \in SUBSET Cmds
    PROVE  Cardinality(S) \in Nat /\ (Cardinality(S) = 0 <=> S = {})
<1>1. IsFiniteSet(S)
  BY Zenon, FS_Subset, UobjAssumption
<1> QED BY Zenon, <1>1, FS_CardinalityType, FS_EmptySet

\* A set of size one is a singleton.
LEMMA SingleCount == \A x : Cardinality({x}) = 1
BY Zenon, FS_Singleton

\* When one command moves, the users of each object change by it alone.
LEMMA UsersCounted ==
    ASSUME NEW c \in Cmds, \A d \in Cmds : d # c => cmd'[d] = cmd[d], NEW o \in Objs
    PROVE  /\ Counted(Holders(o), Holders(o)', c)
           /\ Counted(Shared(o), Shared(o)', c)
           /\ Counted(FileUsers(o), FileUsers(o)', c)
           /\ Counted(Exclusive(o), Exclusive(o)', c)
<1>1. IsFiniteSet(Cmds)
  BY Zenon, UobjAssumption
<1>2. Moved(Holders(o), Holders(o)', c) /\ Holders(o) \subseteq Cmds /\ Holders(o)' \subseteq Cmds
  BY Zenon DEF Moved, Holders, Using
<1>3. Moved(Shared(o), Shared(o)', c) /\ Shared(o) \subseteq Cmds /\ Shared(o)' \subseteq Cmds
  BY Zenon DEF Moved, Shared, Using
<1>4. /\ Moved(FileUsers(o), FileUsers(o)', c)
      /\ FileUsers(o) \subseteq Cmds /\ FileUsers(o)' \subseteq Cmds
  BY Zenon DEF Moved, FileUsers, Using
<1>5. /\ Moved(Exclusive(o), Exclusive(o)', c)
      /\ Exclusive(o) \subseteq Cmds /\ Exclusive(o)' \subseteq Cmds
  BY Zenon DEF Moved, Exclusive, Using
<1>6. Counted(Holders(o), Holders(o)', c)
  BY Zenon, <1>1, <1>2, MoveCounts
<1>7. Counted(Shared(o), Shared(o)', c)
  BY Zenon, <1>1, <1>3, MoveCounts
<1>8. Counted(FileUsers(o), FileUsers(o)', c)
  BY Zenon, <1>1, <1>4, MoveCounts
<1>9. Counted(Exclusive(o), Exclusive(o)', c)
  BY Zenon, <1>1, <1>5, MoveCounts
<1> QED BY Zenon, <1>6, <1>7, <1>8, <1>9

-----------------------------------------------------------------------------
(* What the invariant says of an object and of those who use it.           *)

On(d, o) == cmd[d].pc # "idle" /\ cmd[d].obj = o

\* Whoever has an object keeps its kref up.
LEMMA HeldRef ==
    ASSUME UobjInv, NEW c \in Cmds, NEW o \in Objs, On(c, o)
    PROVE  ref[o] > 0
<1>1. c \in Holders(o) /\ Holders(o) \in SUBSET Cmds
  BY Zenon DEF On, Holders, Using, UobjInv, Types, CmdStates
<1>2. Cardinality(Holders(o)) \in Nat /\ Cardinality(Holders(o)) # 0
  BY Zenon, <1>1, CmdCount
<1>3. RefInv(o)
  BY Zenon DEF UobjInv, ObjInv
<1> QED BY <1>2, <1>3 DEF RefInv, ListRef

\* Nobody has an object that is not referenced.
LEMMA FreeObject ==
    ASSUME UobjInv, NEW o \in Objs, ref[o] = 0
    PROVE  /\ o \notin listed /\ ~HasFile(o)
           /\ \A d \in Cmds : ~On(d, o)
<1>1. \A d \in Cmds : ~On(d, o)
  BY HeldRef
<1>2. Holders(o) \in SUBSET Cmds
  BY Zenon DEF Holders, Using
<1>3. Cardinality(Holders(o)) \in Nat
  BY Zenon, <1>2, CmdCount
<1>4. RefInv(o)
  BY Zenon DEF UobjInv, ObjInv
<1> QED BY <1>1, <1>3, <1>4 DEF RefInv, ListRef

Alone(c, o) ==
    /\ Exclusive(o) = {c} /\ Shared(o) = {} /\ usecnt[o] = -1
    /\ \A d \in Cmds : d # c /\ On(d, o) => cmd[d].pc \in {"found", "got", "oops"}

\* A command that has locked an object exclusively is alone with it but for commands
\* that have only looked it up.
LEMMA ExclusiveAlone ==
    ASSUME UobjInv, NEW c \in Cmds, NEW o \in Objs, c \in Exclusive(o)
    PROVE  Alone(c, o)
<1>1. On(c, o)
  BY Zenon DEF Exclusive, Using, On
<1>2. ref[o] > 0 /\ UseInv(o)
  BY Zenon, <1>1, HeldRef DEF UobjInv, ObjInv
<1>3. Exclusive(o) = {c} /\ Shared(o) = {} /\ usecnt[o] = -1
  BY Zenon, <1>2 DEF UseInv
<1>4. ASSUME NEW d \in Cmds, d # c, On(d, o)
      PROVE  cmd[d].pc \in {"found", "got", "oops"}
  <2>1. d \notin Exclusive(o) /\ d \notin Shared(o)
    BY Zenon, <1>3, <1>4
  <2>2. cmd[d].pc \in PCs /\ KnowsOld(d, o)
    BY Zenon, <1>4 DEF UobjInv, Types, CmdStates, CmdInv, On
  <2>3. cmd[d].pc # "locked"
    BY Zenon, <1>4, <2>1, <2>2 DEF Exclusive, Shared, Using, KnowsOld, On
  <2> QED BY Zenon, <1>4, <2>1, <2>2, <2>3 DEF Exclusive, Using, On, PCs
<1> QED BY Zenon, <1>3, <1>4 DEF Alone

\* A command that creates an object is the only one to know it.
LEMMA CreatorAlone ==
    ASSUME UobjInv, NEW c \in Cmds, NEW o \in Objs, Creating(c, o)
    PROVE  Alone(c, o) /\ \A d \in Cmds : d # c => ~On(d, o)
<1>1. c \in Exclusive(o) /\ On(c, o)
  BY Zenon DEF Creating, Exclusive, Using, On
<1>2. Alone(c, o)
  BY Zenon, <1>1, ExclusiveAlone
<1>3. handle[o] = "reserved"
  BY Zenon, <1>1 DEF UobjInv, CmdInv, KnowsNew, Creating, On
<1>4. ASSUME NEW d \in Cmds, d # c, On(d, o)
      PROVE  FALSE
  <2>1. cmd[d].pc \in {"found", "got", "oops"}
    BY Zenon, <1>2, <1>4 DEF Alone
  <2> QED BY Zenon, <1>3, <1>4, <2>1 DEF UobjInv, CmdInv, KnowsOld, On
<1> QED BY Zenon, <1>2, <1>4

\* Once everything is being destroyed, the only commands left destroy an object or have
\* not been let past ib_dev.
LEMMA OnlyDestroyers ==
    ASSUME UobjInv, CleaningBegan, NEW c \in Cmds, cmd[c].pc # "idle"
    PROVE  cmd[c].mode = "DESTROY" \/ cmd[c].pc \in {"found", "oops"}
<1>1. thread["close"] = "idle" /\ thread["remove"] \notin {"idle", "sync"}
  BY Zenon DEF UobjInv, CmdInv, CleaningBegan
<1>2. ~ib_dev /\ sync = {}
  BY Zenon, <1>1 DEF UobjInv, ThreadInv
<1> QED BY Zenon, <1>2 DEF UobjInv, CmdInv, SawDevice

\* While a thread has the semaphore for writing, everything is being destroyed.
LEMMA WriterCleans ==
    ASSUME UobjInv, ~CanRead
    PROVE  CleaningBegan
<1>1. CASE writer # "none"
  <2>1. PICK t \in Threads : writer = t
    BY Zenon, <1>1 DEF UobjInv, Types
  <2>2. thread[t] \in {"pass", "unlock"}
    BY Zenon, <2>1 DEF UobjInv, ThreadInv
  <2> QED BY Zenon, <2>1, <2>2 DEF CleaningBegan, Threads
<1>2. CASE \E t \in Threads : thread[t] = "lock"
  BY Zenon, <1>2 DEF CleaningBegan, Threads
<1> QED BY Zenon, <1>1, <1>2 DEF CanRead

-----------------------------------------------------------------------------
(* Frames.                                                                 *)

\* A step leaves an object alone, and the commands that use it.
SameObj(o) ==
    /\ ref'[o] = ref[o] /\ usecnt'[o] = usecnt[o] /\ object'[o] = object[o]
    /\ context'[o] = context[o] /\ handle'[o] = handle[o]
    /\ o \in listed' <=> o \in listed
    /\ o \in Fds => frefs'[o] = frefs[o]
SameUsers(o) == \A d \in Cmds : cmd'[d] = cmd[d] \/ (~On(d, o) /\ ~On(d, o)')

\* The users of such an object stay the same sets.
LEMMA UsersFrame ==
    ASSUME NEW o \in Objs, SameUsers(o)
    PROVE  /\ Holders(o)' = Holders(o) /\ Shared(o)' = Shared(o)
           /\ FileUsers(o)' = FileUsers(o) /\ Exclusive(o)' = Exclusive(o)
<1>1. \A d \in Cmds : d \in Holders(o)' <=> d \in Holders(o)
  BY Zenon DEF SameUsers, On, Holders, Using, PCs
<1>2. \A d \in Cmds, S \in SUBSET (PCs \ {"idle"}) : d \in Using(o, S)' <=> d \in Using(o, S)
  BY Zenon DEF SameUsers, On, Using, PCs
<1>3. \A S \in SUBSET (PCs \ {"idle"}) : Using(o, S)' = Using(o, S)
  BY Zenon, <1>2 DEF Using
<1>4. \A d \in Cmds : d \in Using(o, {"locked"}) \/ d \in Using(o, {"locked"})' => cmd'[d] = cmd[d]
  BY Zenon DEF SameUsers, On, Using
<1>5. /\ Using(o, {"locked"})' = Using(o, {"locked"}) /\ FileUsers(o)' = FileUsers(o)
      /\ Using(o, {"create", "created", "destroy", "destroyed"})'
            = Using(o, {"create", "created", "destroy", "destroyed"})
  BY Zenon, <1>3 DEF FileUsers, PCs
<1>6. Holders(o)' = Holders(o)
  BY Zenon, <1>1 DEF Holders, Using
<1>7. Using(o, {"locked"}) \subseteq Cmds
  BY Zenon DEF Using
<1>8. /\ {c \in Using(o, {"locked"})' : cmd'[c].mode = "WRITE"}
            = {c \in Using(o, {"locked"}) : cmd[c].mode = "WRITE"}
      /\ {c \in Using(o, {"locked"})' : cmd'[c].mode = "READ"}
            = {c \in Using(o, {"locked"}) : cmd[c].mode = "READ"}
  BY Zenon, <1>4, <1>5, <1>7
<1> QED BY Zenon, <1>5, <1>6, <1>8 DEF Exclusive, Shared

\* What the invariant says of an object that a step leaves alone.
LEMMA ObjFrame ==
    ASSUME NEW o \in Objs, ObjInv(o), SameObj(o), SameUsers(o),
           CleaningBegan => CleaningBegan', ucontext => ucontext' \/ ~context[o]
    PROVE  ObjInv(o)'
<1>1. /\ Holders(o)' = Holders(o) /\ Shared(o)' = Shared(o)
      /\ FileUsers(o)' = FileUsers(o) /\ Exclusive(o)' = Exclusive(o)
  BY Zenon, UsersFrame
<1>2. ListRef(o)' = ListRef(o) /\ (HasFile(o)' <=> HasFile(o))
  BY Zenon DEF SameObj, ListRef, HasFile
<1>3. RefInv(o)'
  BY Zenon, <1>1, <1>2 DEF ObjInv, RefInv, SameObj
<1>4. UseInv(o)'
  BY Zenon, <1>1 DEF ObjInv, UseInv, SameObj
<1>5. FileInv(o)'
  BY Zenon, <1>1 DEF ObjInv, FileInv, SameObj
<1>6. \A c \in Cmds : Creating(c, o) => Creating(c, o)'
  BY Zenon DEF SameUsers, Creating, On
<1>7. HwInv(o)'
  BY Zenon, <1>6 DEF ObjInv, HwInv, SameObj
<1> QED BY Zenon, <1>3, <1>4, <1>5, <1>7 DEF ObjInv

\* What the invariant says of a command that does not move, on an object left alone.
LEMMA CmdFrame ==
    ASSUME NEW d \in Cmds, CmdInv(d), cmd'[d] = cmd[d], d \in readers' <=> d \in readers,
           cmd[d].pc # "idle" => SameObj(cmd[d].obj) /\ thread'["close"] = thread["close"],
           Creating(d, cmd[d].obj) => (ucontext => ucontext'),
           cmd[d].pc # "idle" /\ SawDevice(d) /\ (ib_dev \/ d \in sync)
              => ib_dev' \/ d \in sync'
    PROVE  CmdInv(d)'
<1>1. ASSUME cmd[d].pc # "idle" PROVE KnowsNew(d, cmd[d].obj)' /\ KnowsOld(d, cmd[d].obj)'
  BY Zenon, <1>1 DEF CmdInv, KnowsNew, KnowsOld, SameObj, HasFile, Creating
<1> QED BY Zenon, <1>1 DEF CmdInv, SawDevice

\* What the steps of a command c on an object o have in common: they leave other commands,
\* other objects and the threads alone, and under a writer also the locks.
CmdMove(c, o) ==
    /\ \A d \in Cmds : d # c => /\ cmd'[d] = cmd[d]
                                /\ d \in readers' <=> d \in readers
                                /\ d \in sync' <=> d \in sync
    /\ \A p \in Objs : p # o => SameObj(p)
    /\ cmd[c].pc # "idle" => cmd[c].obj = o
    /\ cmd'[c].pc # "idle" => cmd'[c].obj = o
    /\ UNCHANGED <<thread, ucontext, ib_dev, writer, todo, retryable>>
    /\ writer # "none" => UNCHANGED <<readers, usecnt, listed>>
    /\ sync' \subseteq sync

\* Such a step keeps the invariant if it does so for its command, for its object and for
\* the other commands on it.
LEMMA CmdStep ==
    ASSUME UobjInv, NEW c \in Cmds, NEW o \in Objs, CmdMove(c, o), Types', UrefInv',
           CmdInv(c)', ObjInv(o)',
           \A d \in Cmds : d # c /\ On(d, o) => KnowsNew(d, o)' /\ KnowsOld(d, o)'
    PROVE  UobjInv'
<1>1. ASSUME NEW d \in Cmds, d # c PROVE CmdInv(d)'
  <2>1. CmdInv(d)
    BY Zenon DEF UobjInv
  <2>2. CASE On(d, o)
    <3>1. KnowsNew(d, o)' /\ KnowsOld(d, o)' /\ cmd'[d] = cmd[d] /\ cmd[d].obj = o
      BY Zenon, <1>1, <2>2 DEF CmdMove, On
    <3> QED BY Zenon, <1>1, <2>1, <3>1 DEF CmdInv, CmdMove, SawDevice
  <2>3. CASE ~On(d, o)
    <3>1. cmd[d].pc # "idle" => SameObj(cmd[d].obj)
      BY Zenon, <2>1, <2>3 DEF CmdMove, On, CmdInv
    <3> QED BY Zenon, <1>1, <2>1, <3>1, CmdFrame DEF CmdMove
  <2> QED BY Zenon, <2>2, <2>3
<1>2. ASSUME NEW p \in Objs, p # o PROVE ObjInv(p)'
  <2>1. SameObj(p) /\ SameUsers(p)
    BY Zenon, <1>2 DEF CmdMove, SameUsers, On
  <2>2. (CleaningBegan => CleaningBegan') /\ (ucontext => ucontext')
    BY Zenon DEF CmdMove, CleaningBegan
  <2> QED BY Zenon, <2>1, <2>2, ObjFrame DEF UobjInv
<1>3. ThreadInv'
  <2>1. CASE writer = "none"
    <3>1. \A t \in Threads : thread[t] # "pass"
      BY Zenon, <2>1 DEF UobjInv, ThreadInv, Threads
    <3> QED BY Zenon, <2>1, <3>1 DEF UobjInv, ThreadInv, CmdMove
  <2>2. CASE writer # "none"
    BY Zenon, <2>2 DEF UobjInv, ThreadInv, CmdMove
  <2> QED BY Zenon, <2>1, <2>2
<1> QED BY Zenon, <1>1, <1>2, <1>3 DEF UobjInv

\* A step that creates, destroys and releases no file of an FD object keeps the count of
\* the ufile.
LEMMA UrefFrame ==
    ASSUME UrefInv, UNCHANGED <<uref, thread>>, \A o \in Fds : HasFile(o)' <=> HasFile(o)
    PROVE  UrefInv'
<1>1. Files' = Files
  BY Zenon DEF Files
<1> QED BY Zenon, <1>1 DEF UrefInv, Has

-----------------------------------------------------------------------------
(* Commands.                                                               *)

\* Which users of an object a command is among, by its place in the command.
Member(c, o) ==
    /\ c \in Holders(o) <=> cmd[c].obj = o /\ cmd[c].pc \in PCs \ {"idle"}
    /\ c \in Shared(o) <=> cmd[c].obj = o /\ cmd[c].pc = "locked" /\ cmd[c].mode = "READ"
    /\ c \in FileUsers(o) <=> cmd[c].obj = o /\ cmd[c].pc \in {"found", "got", "oops", "locked"}
    /\ c \in Exclusive(o) <=>
          /\ cmd[c].obj = o
          /\ \/ cmd[c].pc \in {"create", "created", "destroy", "destroyed"}
             \/ cmd[c].pc = "locked" /\ cmd[c].mode = "WRITE"

\* Before and after a step.
LEMMA Members ==
    ASSUME NEW c \in Cmds, NEW o
    PROVE  Member(c, o) /\ Member(c, o)'
<1>1. Member(c, o)
  BY Zenon DEF Member, Holders, Shared, FileUsers, Exclusive, Using
<1>2. Member(c, o)'
  BY Zenon DEF Member, Holders, Shared, FileUsers, Exclusive, Using
<1> QED BY Zenon, <1>1, <1>2

\* A step of c changes the users of o by c.
UserMove(c, o) ==
    /\ Member(c, o) /\ Member(c, o)'
    /\ Counted(Holders(o), Holders(o)', c) /\ Counted(Shared(o), Shared(o)', c)
    /\ Counted(FileUsers(o), FileUsers(o)', c) /\ Counted(Exclusive(o), Exclusive(o)', c)

\* As every step of a command does.
LEMMA UsersMove ==
    ASSUME NEW c \in Cmds, NEW o \in Objs, \A d \in Cmds : d # c => cmd'[d] = cmd[d]
    PROVE  UserMove(c, o)
BY Zenon, UsersCounted, Members DEF UserMove

\* The kref of an object follows its users.
LEMMA RefStep ==
    ASSUME UobjInv, NEW c \in Cmds, NEW o \in Objs, UserMove(c, o), ref' \in [Objs -> Int],
           NEW n \in Int, ref'[o] = ref[o] + n,
           n = ListRef(o)' - ListRef(o)
               + (IF HasFile(o)' THEN 1 ELSE 0) - (IF HasFile(o) THEN 1 ELSE 0)
               + (IF c \in Holders(o)' THEN 1 ELSE 0) - (IF c \in Holders(o) THEN 1 ELSE 0)
    PROVE  RefInv(o)'
<1>1. RefInv(o) /\ ref[o] \in Int
  BY Zenon DEF UobjInv, ObjInv, Types
<1>2. ListRef(o) \in {0, 1} /\ ListRef(o)' \in {0, 1}
  BY Zenon DEF ListRef
<1>3. /\ Cardinality(Holders(o)) \in Nat /\ Cardinality(Holders(o))' \in Nat
      /\ Cardinality(Holders(o))' = Cardinality(Holders(o))
            + (IF c \in Holders(o)' THEN 1 ELSE 0) - (IF c \in Holders(o) THEN 1 ELSE 0)
  BY DEF UserMove, Counted
<1> QED BY <1>1, <1>2, <1>3 DEF RefInv

\* So do the references to the file of an FD object.
LEMMA FileStep ==
    ASSUME UobjInv, NEW c \in Cmds, NEW o \in Objs, UserMove(c, o),
           NEW n \in Int, o \in Fds => frefs'[o] = frefs[o] + n,
           o \in Fds =>
              n = (IF handle'[o] = "stored" THEN 1 ELSE 0) - (IF handle[o] = "stored" THEN 1 ELSE 0)
                  + (IF c \in FileUsers(o)' THEN 1 ELSE 0) - (IF c \in FileUsers(o) THEN 1 ELSE 0)
    PROVE  FileInv(o)'
<1>1. FileInv(o) /\ (o \in Fds => frefs[o] \in Int)
  BY Zenon DEF UobjInv, ObjInv, Types
<1>3. /\ Cardinality(FileUsers(o)) \in Nat /\ Cardinality(FileUsers(o))' \in Nat
      /\ Cardinality(FileUsers(o))' = Cardinality(FileUsers(o))
            + (IF c \in FileUsers(o)' THEN 1 ELSE 0) - (IF c \in FileUsers(o) THEN 1 ELSE 0)
  BY DEF UserMove, Counted
<1> QED BY <1>1, <1>3 DEF FileInv

\* A new object is known to its creator alone, and locked.
LEMMA Step_rdma_alloc_begin_uobject ==
    ASSUME UobjInv, NEW c \in Cmds, NEW o \in Objs, rdma_alloc_begin_uobject(c, o)
    PROVE  UobjInv'
<1>1. /\ cmd[c].pc = "idle" /\ thread["close"] = "idle" /\ ref[o] = 0 /\ writer = "none"
      /\ ib_dev /\ ucontext
      /\ Types
  BY Zenon DEF UobjInv, rdma_alloc_begin_uobject, Starts, CanRead
<1>2. o \notin listed /\ ~HasFile(o) /\ \A d \in Cmds : ~On(d, o)
  BY Zenon, <1>1, FreeObject
<1>3. /\ readers' = readers \cup {c} /\ ref'[o] = 1 /\ usecnt'[o] = -1
      /\ context'[o] /\ handle'[o] = "reserved"
      /\ cmd'[c].pc = "create" /\ cmd'[c].obj = o /\ cmd'[c].mode = "NEW"
      /\ \A p \in Objs : p # o => SameObj(p)
      /\ \A d \in Cmds : d # c => cmd'[d] = cmd[d]
      /\ UNCHANGED <<listed, frefs, ucontext, retryable, ib_dev, sync, thread, todo, writer, uref>>
  BY Zenon, <1>1 DEF Types, rdma_alloc_begin_uobject, SameObj, fileVars
<1>4. Types'
  <2>1. ref' \in [Objs -> Int] /\ usecnt' \in [Objs -> Int] /\ \A p \in Objs : usecnt'[p] >= -1
    BY <1>1 DEF Types, rdma_alloc_begin_uobject
  <2>2. object' \in [Objs -> BOOLEAN]
    <3>1. (o \in Fds) \in BOOLEAN
      OBVIOUS
    <3> QED BY Zenon, <1>1, <3>1 DEF Types, rdma_alloc_begin_uobject
  <2>3. context' \in [Objs -> BOOLEAN] /\ handle' \in [Objs -> Handles]
    BY Zenon, <1>1 DEF Types, rdma_alloc_begin_uobject, Handles
  <2>4. cmd' \in [Cmds -> CmdStates]
    <3>1. [pc |-> "create", obj |-> o, mode |-> "NEW"] \in CmdStates
      BY Zenon DEF CmdStates, PCs, Modes
    <3> QED BY Zenon, <1>1, <3>1 DEF Types, rdma_alloc_begin_uobject
  <2> QED BY Zenon, <1>1, <1>3, <2>1, <2>2, <2>3, <2>4 DEF Types
<1> HIDE DEF rdma_alloc_begin_uobject
<1>5. CmdMove(c, o)
  BY Zenon, <1>1, <1>3 DEF CmdMove
<1>6. UrefInv'
  <2>1. \A p \in Objs : HasFile(p)' <=> HasFile(p)
    BY Zenon, <1>2, <1>3 DEF HasFile, SameObj
  <2> QED BY Zenon, <1>3, <2>1, UobjAssumption, UrefFrame DEF UobjInv
<1>7. CmdInv(c)'
  BY Zenon, <1>1, <1>2, <1>3 DEF CmdInv, KnowsNew, KnowsOld
<1>8. UserMove(c, o)
  BY Zenon, <1>3, UsersMove
<1>9. RefInv(o)'
  <2>1. c \notin Holders(o) /\ c \in Holders(o)'
    BY Zenon, <1>1, <1>3, <1>8 DEF UserMove, Member, PCs
  <2>2. ref'[o] = ref[o] + 1 /\ ~HasFile(o)' /\ ListRef(o)' = ListRef(o) /\ ListRef(o) = 0
    BY <1>1, <1>2, <1>3 DEF HasFile, ListRef
  <2> QED BY <1>2, <1>4, <1>8, <2>1, <2>2, RefStep DEF Types
<1>10. UseInv(o)'
  <2>1. Exclusive(o) = {} /\ Shared(o) = {}
    BY Zenon, <1>2 DEF Exclusive, Shared, Using, On
  <2>2. Exclusive(o)' = {c} /\ Shared(o)' = {}
    BY Zenon, <1>3, <1>8, <2>1 DEF UserMove, Member, Counted
  <2> QED BY Zenon, <1>3, <2>2 DEF UseInv
<1>11. FileInv(o)'
  <2>1. c \notin FileUsers(o) /\ c \notin FileUsers(o)'
    BY Zenon, <1>1, <1>3, <1>8 DEF UserMove, Member
  <2>2. o \in Fds => frefs'[o] = frefs[o] + 0
    BY <1>1, <1>3 DEF Types
  <2> QED BY <1>2, <1>3, <1>8, <2>1, <2>2, FileStep DEF HasFile
<1>12. HwInv(o)'
  BY Zenon, <1>1, <1>3 DEF HwInv, Creating
<1> QED BY Zenon, <1>2, <1>4, <1>5, <1>6, <1>7, <1>9, <1>10, <1>11, <1>12, CmdStep DEF ObjInv

\* The kref of the ufile follows the files of FD objects.
LEMMA UrefStep ==
    ASSUME UobjInv, NEW o \in Objs, UNCHANGED thread,
           \A p \in Fds : p # o => (HasFile(p)' <=> HasFile(p)),
           NEW n \in Int, uref' = uref + n,
           n = (IF o \in Fds /\ HasFile(o)' THEN 1 ELSE 0)
               - (IF o \in Fds /\ HasFile(o) THEN 1 ELSE 0)
    PROVE  UrefInv'
<1>1. UrefInv /\ uref \in Int /\ Has("close") \in {0, 1} /\ Has("remove") \in {0, 1}
  BY Zenon DEF UobjInv, Types, Has
<1>2. Has("close")' = Has("close") /\ Has("remove")' = Has("remove")
  BY Zenon DEF Has
<1>3. Counted(Files, Files', o)
  <2>1. Files \in SUBSET Objs /\ Files' \in SUBSET Objs /\ IsFiniteSet(Objs)
    BY Zenon, UobjAssumption DEF Files
  <2>2. Moved(Files, Files', o)
    BY Zenon, UobjAssumption DEF Moved, Files
  <2> QED BY Zenon, <2>1, <2>2, MoveCounts
<1>4. (o \in Files <=> o \in Fds /\ HasFile(o)) /\ (o \in Files' <=> o \in Fds /\ HasFile(o)')
  BY Zenon DEF Files
<1>5. /\ Cardinality(Files) \in Nat /\ Cardinality(Files)' \in Nat
      /\ Cardinality(Files)' = Cardinality(Files) + n
  BY <1>3, <1>4 DEF Counted
<1>6. thread' = thread
  BY Zenon
<1> QED BY <1>1, <1>2, <1>5, <1>6 DEF UrefInv

\* The handler of a create method fills in the object.
LEMMA Step_create_hw ==
    ASSUME UobjInv, NEW c \in Cmds, create_hw(c)
    PROVE  UobjInv'
<1>1. PICK o \in Objs : o = cmd[c].obj
  BY Zenon DEF UobjInv, CmdInv, create_hw
<1>2. /\ Types /\ cmd[c].pc = "create" /\ Creating(c, o) /\ KnowsNew(c, o) /\ CmdInv(c)
      /\ ObjInv(o)
  BY Zenon, <1>1 DEF UobjInv, CmdInv, create_hw, Creating
<1>3. Alone(c, o) /\ \A d \in Cmds : d # c => ~On(d, o)
  BY Zenon, <1>2, CreatorAlone
<1>4. /\ object'[o] /\ usecnt'[o] = usecnt[o] /\ handle' = handle /\ ref' = ref
      /\ cmd'[c].pc = "created" /\ cmd'[c].obj = o /\ cmd'[c].mode = cmd[c].mode
      /\ \A p \in Objs : p # o => SameObj(p)
      /\ \A d \in Cmds : d # c => cmd'[d] = cmd[d]
      /\ UNCHANGED <<ref, usecnt, context, listed, handle, frefs, readers>>
      /\ UNCHANGED <<ucontext, retryable, ib_dev, sync, thread, todo, writer, uref>>
  BY Zenon, <1>1, <1>2 DEF Types, CmdStates, create_hw, SameObj, fileVars, Goto
<1>5. Types'
  <2>1. object' \in [Objs -> BOOLEAN]
    BY Zenon, <1>1, <1>2 DEF Types, create_hw
  <2>2. cmd' \in [Cmds -> CmdStates]
    BY <1>2 DEF Types, create_hw, Goto, CmdStates, PCs
  <2> QED BY Zenon, <1>2, <1>4, <2>1, <2>2 DEF Types
<1> HIDE DEF create_hw
<1>6. CmdMove(c, o)
  BY Zenon, <1>1, <1>2, <1>4 DEF CmdMove
<1>7. UrefInv'
  BY Zenon, <1>4, UrefFrame DEF UobjInv, HasFile
<1>8. CmdInv(c)'
  <2>1. SawDevice(c)' => SawDevice(c)
    BY Zenon, <1>2, <1>4 DEF SawDevice
  <2>2. KnowsNew(c, o)' /\ KnowsOld(c, o)'
    BY Zenon, <1>1, <1>2, <1>4 DEF CmdInv, KnowsNew, KnowsOld, Creating
  <2> QED BY Zenon, <1>1, <1>2, <1>4, <2>1, <2>2 DEF CmdInv
<1>9. UserMove(c, o)
  BY Zenon, <1>4, UsersMove
<1>10. /\ Holders(o)' = Holders(o) /\ Exclusive(o)' = Exclusive(o)
       /\ Shared(o)' = Shared(o) /\ FileUsers(o)' = FileUsers(o)
  BY Zenon, <1>1, <1>2, <1>4, <1>9 DEF UserMove, Member, Counted, PCs
<1>11. ObjInv(o)'
  <2>1. RefInv(o)'
    BY Zenon, <1>2, <1>4, <1>10 DEF ObjInv, RefInv, ListRef, HasFile
  <2>2. UseInv(o)' /\ FileInv(o)'
    BY Zenon, <1>2, <1>4, <1>10 DEF ObjInv, UseInv, FileInv
  <2>3. Creating(c, o)'
    BY Zenon, <1>4 DEF Creating
  <2>4. HwInv(o)'
    BY Zenon, <1>2, <1>4, <2>3 DEF ObjInv, HwInv, KnowsNew
  <2> QED BY Zenon, <2>1, <2>2, <2>4 DEF ObjInv
<1> QED BY Zenon, <1>3, <1>5, <1>6, <1>7, <1>8, <1>11, CmdStep

\* A commit publishes the object, with a reference for the list and one for the handle.
LEMMA Step_rdma_alloc_commit_uobject ==
    ASSUME UobjInv, NEW c \in Cmds, rdma_alloc_commit_uobject(c)
    PROVE  UobjInv'
<1>1. PICK o \in Objs : o = cmd[c].obj
  BY Zenon DEF UobjInv, CmdInv, rdma_alloc_commit_uobject
<1>2. /\ Types /\ cmd[c].pc = "created" /\ Creating(c, o) /\ KnowsNew(c, o) /\ CmdInv(c)
      /\ ObjInv(o) /\ c \in readers /\ ucontext
  BY Zenon, <1>1 DEF UobjInv, CmdInv, rdma_alloc_commit_uobject, Creating, KnowsNew
<1>3. Alone(c, o) /\ \A d \in Cmds : d # c => ~On(d, o)
  BY Zenon, <1>2, CreatorAlone
<1>4. /\ ref'[o] = ref[o] + 1 /\ listed' = listed \cup {o} /\ usecnt'[o] = 0
      /\ handle'[o] = "stored" /\ (o \in Fds => frefs'[o] = 1)
      /\ uref' = uref + (IF o \in Fds THEN 1 ELSE 0)
      /\ readers' = readers \ {c} /\ sync' = sync \ {c} /\ cmd'[c].pc = "idle"
      /\ \A p \in Objs : p # o => SameObj(p)
      /\ \A d \in Cmds : d # c => cmd'[d] = cmd[d]
      /\ UNCHANGED <<object, context, ucontext, retryable, ib_dev, thread, todo, writer>>
  BY <1>1, <1>2 DEF Types, rdma_alloc_commit_uobject, SameObj, Return, Idle, CommitRefs
<1>5. Types'
  <2>1. ref' \in [Objs -> Int] /\ usecnt' \in [Objs -> Int] /\ \A p \in Objs : usecnt'[p] >= -1
    BY <1>1, <1>2 DEF Types, rdma_alloc_commit_uobject, CommitRefs
  <2>2. handle' \in [Objs -> Handles] /\ frefs' \in [Fds -> Int] /\ uref' \in Int
    BY <1>1, <1>2 DEF Types, rdma_alloc_commit_uobject, Handles
  <2>3. cmd' \in [Cmds -> CmdStates]
    BY Zenon, <1>2 DEF Types, rdma_alloc_commit_uobject, Return, Idle, CmdStates, PCs, Modes
  <2> QED BY Zenon, <1>2, <1>4, <2>1, <2>2, <2>3 DEF Types
<1> HIDE DEF rdma_alloc_commit_uobject
<1>6. CmdMove(c, o)
  <2>1. writer = "none"
    BY Zenon, <1>2 DEF UobjInv, ThreadInv
  <2> QED BY Zenon, <1>1, <1>2, <1>4, <2>1 DEF CmdMove
<1>7. ~HasFile(o) /\ HasFile(o)' /\ o \notin listed
  BY Zenon, <1>2, <1>4 DEF KnowsNew, HasFile
<1>8. UrefInv'
  <2>1. \A p \in Fds : p # o => (HasFile(p)' <=> HasFile(p))
    BY Zenon, UobjAssumption, <1>4 DEF SameObj, HasFile
  <2> QED BY <1>4, <1>7, <2>1, UrefStep
<1>9. CmdInv(c)'
  BY Zenon, <1>4 DEF CmdInv
<1>10. UserMove(c, o)
  BY Zenon, <1>4, UsersMove
<1>11. ObjInv(o)'
  <2>1. RefInv(o)'
    <3>1. c \in Holders(o) /\ c \notin Holders(o)'
      BY Zenon, <1>1, <1>2, <1>4, <1>10 DEF UserMove, Member, PCs
    <3>2. ListRef(o) = 0 /\ ListRef(o)' = 1
      BY Zenon, <1>4, <1>7 DEF ListRef
    <3> QED BY <1>4, <1>5, <1>7, <1>10, <3>1, <3>2, RefStep DEF Types
  <2>2. UseInv(o)'
    <3>1. Exclusive(o)' = {} /\ Shared(o)' = {}
      BY Zenon, <1>1, <1>2, <1>3, <1>4, <1>10 DEF UserMove, Member, Counted, Alone
    <3>2. Cardinality({}) = 0
      BY Zenon, FS_EmptySet
    <3> QED BY Zenon, <1>4, <3>1, <3>2 DEF UseInv
  <2>3. FileInv(o)'
    <3>1. FileUsers(o) = {} /\ FileUsers(o)' = {}
      <4>1. FileUsers(o) = {}
        BY Zenon, <1>1, <1>2, <1>3 DEF FileUsers, Using, On
      <4> QED BY Zenon, <1>4, <1>10, <4>1 DEF UserMove, Member, Counted
    <3>2. Cardinality({}) = 0
      BY Zenon, FS_EmptySet
    <3> QED BY <1>4, <3>1, <3>2 DEF FileInv
  <2>4. HwInv(o)'
    BY Zenon, <1>2, <1>4 DEF ObjInv, HwInv, KnowsNew
  <2> QED BY Zenon, <2>1, <2>2, <2>3, <2>4 DEF ObjInv
<1> QED BY Zenon, <1>3, <1>5, <1>6, <1>8, <1>9, <1>11, CmdStep

\* An abort takes back what the creation gave.
LEMMA Step_rdma_alloc_abort_uobject ==
    ASSUME UobjInv, NEW c \in Cmds, rdma_alloc_abort_uobject(c)
    PROVE  UobjInv'
<1>1. PICK o \in Objs : o = cmd[c].obj
  BY Zenon DEF UobjInv, CmdInv, rdma_alloc_abort_uobject
<1>2. /\ Types /\ cmd[c].pc \in {"create", "created"} /\ Creating(c, o) /\ KnowsNew(c, o)
      /\ CmdInv(c) /\ ObjInv(o) /\ c \in readers
  BY Zenon, <1>1 DEF UobjInv, CmdInv, rdma_alloc_abort_uobject, Creating
<1>3. Alone(c, o) /\ \A d \in Cmds : d # c => ~On(d, o)
  BY Zenon, <1>2, CreatorAlone
<1>4. /\ ref'[o] = ref[o] - 1 /\ usecnt'[o] = 0 /\ handle'[o] = "none"
      /\ ~object'[o] /\ ~context'[o]
      /\ readers' = readers \ {c} /\ sync' = sync \ {c} /\ cmd'[c].pc = "idle"
      /\ \A p \in Objs : p # o => SameObj(p)
      /\ \A d \in Cmds : d # c => cmd'[d] = cmd[d]
      /\ UNCHANGED <<listed, frefs, ucontext, retryable, ib_dev, thread, todo, writer, uref>>
  BY Zenon, <1>1, <1>2 DEF Types, rdma_alloc_abort_uobject, SameObj, Return, Idle, Put, AfterCmd
<1>5. Types'
  <2>1. ref' \in [Objs -> Int] /\ usecnt' \in [Objs -> Int] /\ \A p \in Objs : usecnt'[p] >= -1
    BY <1>1, <1>2 DEF Types, rdma_alloc_abort_uobject, Put
  <2>2. handle' \in [Objs -> Handles]
    BY Zenon, <1>1, <1>2 DEF Types, rdma_alloc_abort_uobject, Handles
  <2>3. object' \in [Objs -> BOOLEAN] /\ context' \in [Objs -> BOOLEAN]
    BY Zenon, <1>1, <1>2 DEF Types, rdma_alloc_abort_uobject
  <2>4. cmd' \in [Cmds -> CmdStates]
    BY Zenon, <1>2 DEF Types, rdma_alloc_abort_uobject, Return, Idle, CmdStates, PCs, Modes
  <2> QED BY Zenon, <1>2, <1>4, <2>1, <2>2, <2>3, <2>4 DEF Types
<1> HIDE DEF rdma_alloc_abort_uobject
<1>6. CmdMove(c, o)
  <2>1. writer = "none"
    BY Zenon, <1>2 DEF UobjInv, ThreadInv
  <2> QED BY Zenon, <1>1, <1>2, <1>4, <2>1 DEF CmdMove
<1>7. ~HasFile(o) /\ ~HasFile(o)' /\ o \notin listed
  BY Zenon, <1>2, <1>4 DEF KnowsNew, HasFile
<1>8. UrefInv'
  <2>1. \A p \in Objs : HasFile(p)' <=> HasFile(p)
    BY Zenon, <1>4, <1>7 DEF SameObj, HasFile
  <2> QED BY Zenon, <1>4, <2>1, UobjAssumption, UrefFrame DEF UobjInv
<1>9. CmdInv(c)'
  BY Zenon, <1>4 DEF CmdInv
<1>10. UserMove(c, o)
  BY Zenon, <1>4, UsersMove
<1>11. ObjInv(o)'
  <2>1. RefInv(o)'
    <3>1. c \in Holders(o) /\ c \notin Holders(o)'
      BY Zenon, <1>1, <1>2, <1>4, <1>10 DEF UserMove, Member, PCs
    <3>2. ListRef(o) = 0 /\ ListRef(o)' = 0 /\ ref'[o] = ref[o] + (-1)
      BY Zenon, <1>2, <1>4, <1>7 DEF ListRef, Types
    <3> QED BY <1>4, <1>5, <1>7, <1>10, <3>1, <3>2, RefStep DEF Types
  <2>2. UseInv(o)'
    <3>1. Exclusive(o)' = {} /\ Shared(o)' = {}
      BY Zenon, <1>1, <1>2, <1>3, <1>4, <1>10 DEF UserMove, Member, Counted, Alone
    <3>2. Cardinality({}) = 0
      BY Zenon, FS_EmptySet
    <3> QED BY Zenon, <1>4, <3>1, <3>2 DEF UseInv
  <2>3. FileInv(o)'
    <3>1. c \notin FileUsers(o) /\ c \notin FileUsers(o)'
      BY Zenon, <1>1, <1>2, <1>4, <1>10 DEF UserMove, Member
    <3>2. handle[o] # "stored" /\ handle'[o] # "stored"
      BY Zenon, <1>4, <1>7 DEF HasFile
    <3>3. o \in Fds => frefs'[o] = frefs[o] + 0
      BY <1>2, <1>4 DEF Types
    <3> QED BY <1>10, <3>1, <3>2, <3>3, FileStep
  <2>4. HwInv(o)'
    <3>1. ref'[o] = 0
      <4>1. Holders(o)' = {}
        BY Zenon, <1>3, <1>4 DEF Holders, Using, On, PCs
      <4>2. Cardinality({}) = 0
        BY Zenon, FS_EmptySet
      <4>3. ListRef(o)' = 0 /\ Cardinality(Holders(o)') = 0
        BY Zenon, <1>4, <1>7, <4>1, <4>2 DEF ListRef
      <4> QED BY <1>7, <2>1, <4>3 DEF RefInv
    <3> QED BY <1>4, <3>1 DEF HwInv
  <2> QED BY Zenon, <2>1, <2>2, <2>3, <2>4 DEF ObjInv
<1> QED BY Zenon, <1>3, <1>5, <1>6, <1>8, <1>9, <1>11, CmdStep

SameFields(o) ==
    /\ object'[o] = object[o] /\ context'[o] = context[o] /\ handle'[o] = handle[o]
    /\ o \in listed' <=> o \in listed

\* What another command knows of an object stays while the object's fields do, whatever
\* happens to its counters.
LEMMA KnowsFrame ==
    ASSUME UobjInv, NEW d \in Cmds, NEW o \in Objs, On(d, o), cmd'[d] = cmd[d], SameFields(o),
           ucontext' = ucontext, usecnt'[o] = usecnt[o] \/ usecnt'[o] = -1 \/ HasFile(o)
    PROVE  KnowsNew(d, o)' /\ KnowsOld(d, o)'
<1>1. KnowsNew(d, o) /\ KnowsOld(d, o)
  BY Zenon DEF UobjInv, CmdInv, On
<1>2. HasFile(o)' <=> HasFile(o)
  BY Zenon DEF HasFile, SameFields
<1> QED BY Zenon, <1>1, <1>2 DEF KnowsNew, KnowsOld, SameFields

\* An FD object whose file user space can reach is not locked and has its file, until
\* everything is destroyed.
LEMMA FdObject ==
    ASSUME UobjInv, NEW o \in Fds, HasFile(o)
    PROVE  /\ Exclusive(o) = {} /\ usecnt[o] = Cardinality(Shared(o))
           /\ ~CleaningBegan => object[o]
<1>1. o \in Objs /\ ObjInv(o)
  BY Zenon, UobjAssumption DEF UobjInv
<1>2. Exclusive(o) = {}
  <2> SUFFICES ASSUME NEW d \in Exclusive(o) PROVE FALSE
    BY Zenon
  <2>1. d \in Cmds /\ On(d, o) /\ KnowsNew(d, o) /\ KnowsOld(d, o)
    BY Zenon DEF Exclusive, Using, On, UobjInv, CmdInv
  <2>2. \/ cmd[d].pc \in {"create", "created", "destroy", "destroyed"}
        \/ cmd[d].pc = "locked" /\ cmd[d].mode = "WRITE"
    BY Zenon DEF Exclusive, Using
  <2> QED BY Zenon, <1>1, <2>1, <2>2 DEF KnowsNew, KnowsOld, HasFile
<1>3. ref[o] > 0
  <2>1. Cardinality(Holders(o)) \in Nat
    <3>1. Holders(o) \in SUBSET Cmds
      BY Zenon DEF Holders, Using
    <3> QED BY Zenon, <3>1, CmdCount
  <2> QED BY <1>1, <2>1 DEF ObjInv, RefInv, ListRef
<1>4. usecnt[o] = Cardinality(Shared(o))
  BY Zenon, <1>1, <1>2, <1>3 DEF ObjInv, UseInv, HasFile
<1>5. Cardinality(Shared(o)) \in Nat
  <2>1. Shared(o) \in SUBSET Cmds
    BY Zenon DEF Shared, Using
  <2> QED BY Zenon, <2>1, CmdCount
<1> QED BY <1>1, <1>2, <1>3, <1>4, <1>5 DEF ObjInv, HwInv

\* A lookup takes a reference to the object, and to its file.
LEMMA Step_rdma_lookup_get_uobject ==
    ASSUME UobjInv, NEW c \in Cmds, NEW o \in Objs, NEW mode \in {"READ", "WRITE", "DESTROY"},
           rdma_lookup_get_uobject(c, o, mode)
    PROVE  UobjInv'
<1>1. /\ cmd[c].pc = "idle" /\ thread["close"] = "idle" /\ handle[o] = "stored"
      /\ o \in Fds => mode = "READ"
      /\ ref[o] > 0 /\ Types /\ ObjInv(o) /\ HasFile(o)
  BY Zenon DEF UobjInv, rdma_lookup_get_uobject, Starts, HasFile
<1>2. /\ ref'[o] = ref[o] + 1 /\ (o \in Fds => frefs'[o] = frefs[o] + 1)
      /\ cmd'[c].pc = "found" /\ cmd'[c].obj = o /\ cmd'[c].mode = mode
      /\ \A p \in Objs : p # o => SameObj(p)
      /\ \A d \in Cmds : d # c => cmd'[d] = cmd[d]
      /\ UNCHANGED <<usecnt, object, context, listed, handle, readers>>
      /\ UNCHANGED <<ucontext, retryable, ib_dev, sync, thread, todo, writer, uref>>
  BY Zenon, <1>1 DEF Types, rdma_lookup_get_uobject, SameObj, fileVars
<1>3. Types'
  <2>1. ref' \in [Objs -> Int]
    BY <1>1 DEF Types, rdma_lookup_get_uobject
  <2>2. frefs' \in [Fds -> Int]
    BY <1>1 DEF Types, rdma_lookup_get_uobject
  <2>3. cmd' \in [Cmds -> CmdStates]
    <3>1. [pc |-> "found", obj |-> o, mode |-> mode] \in CmdStates
      BY Zenon DEF CmdStates, PCs, Modes
    <3> QED BY Zenon, <1>1, <3>1 DEF Types, rdma_lookup_get_uobject
  <2> QED BY Zenon, <1>1, <1>2, <2>1, <2>2, <2>3 DEF Types
<1> HIDE DEF rdma_lookup_get_uobject
<1>4. CmdMove(c, o)
  BY Zenon, <1>1, <1>2 DEF CmdMove
<1>5. UrefInv'
  BY Zenon, <1>2, UrefFrame DEF UobjInv, HasFile
<1>6. CmdInv(c)'
  <2>1. c \notin readers
    BY Zenon, <1>1 DEF UobjInv, CmdInv
  <2> QED BY Zenon, <1>1, <1>2, <2>1 DEF CmdInv, KnowsNew, KnowsOld, HasFile, SawDevice
<1>7. UserMove(c, o)
  BY Zenon, <1>2, UsersMove
<1>8. ObjInv(o)'
  <2>1. RefInv(o)'
    <3>1. c \notin Holders(o) /\ c \in Holders(o)'
      BY Zenon, <1>1, <1>2, <1>7 DEF UserMove, Member, PCs
    <3>2. ListRef(o)' = ListRef(o) /\ (HasFile(o)' <=> HasFile(o)) /\ ListRef(o) \in {0, 1}
      BY Zenon, <1>2 DEF ListRef, HasFile
    <3> QED BY <1>2, <1>3, <1>7, <3>1, <3>2, RefStep DEF Types
  <2>2. UseInv(o)'
    <3>1. Exclusive(o)' = Exclusive(o) /\ Shared(o)' = Shared(o)
      BY Zenon, <1>1, <1>2, <1>7 DEF UserMove, Member, Counted
    <3> QED BY Zenon, <1>1, <1>2, <3>1 DEF ObjInv, UseInv
  <2>3. FileInv(o)'
    <3>1. c \notin FileUsers(o) /\ c \in FileUsers(o)'
      BY Zenon, <1>1, <1>2, <1>7 DEF UserMove, Member
    <3>2. handle'[o] = handle[o] /\ (o \in Fds => frefs'[o] = frefs[o] + 1)
      BY Zenon, <1>1, <1>2
    <3>3. PICK n \in Int : n = 1
      OBVIOUS
    <3>4. n = (IF handle'[o] = "stored" THEN 1 ELSE 0) - (IF handle[o] = "stored" THEN 1 ELSE 0)
              + (IF c \in FileUsers(o)' THEN 1 ELSE 0) - (IF c \in FileUsers(o) THEN 1 ELSE 0)
      BY <3>1, <3>2, <3>3
    <3> QED BY Zenon, <1>7, <3>2, <3>3, <3>4, FileStep
  <2>4. HwInv(o)'
    <3>1. \A d \in Cmds : Creating(d, o) => Creating(d, o)'
      BY Zenon, <1>1, <1>2 DEF Creating
    <3> QED BY Zenon, <1>1, <1>2, <3>1 DEF ObjInv, HwInv, CleaningBegan
  <2> QED BY Zenon, <2>1, <2>2, <2>3, <2>4 DEF ObjInv
<1>9. ASSUME NEW d \in Cmds, d # c, On(d, o) PROVE KnowsNew(d, o)' /\ KnowsOld(d, o)'
  BY Zenon, <1>2, <1>9, KnowsFrame DEF SameFields
<1> QED BY Zenon, <1>3, <1>4, <1>5, <1>6, <1>8, <1>9, CmdStep

\* What the ends of a lookup have in common: the reference is put, and that of the file;
\* the object's usecnt becomes n.
LookupEnd(c, o, n) ==
    /\ LookupPut(c, o)
    /\ UNCHANGED <<object, context, listed, handle, AfterCmd>>
    /\ readers' \subseteq Cmds /\ c \notin readers'
    /\ \A d \in Cmds : d # c => (d \in readers' <=> d \in readers)
    /\ usecnt' \in [Objs -> Int] /\ usecnt'[o] = n /\ n >= -1
    /\ \A p \in Objs : p # o => usecnt'[p] = usecnt[p]

\* It keeps the invariant if it unlocks only what it has locked.
LEMMA LookupEnds ==
    ASSUME UobjInv, NEW c \in Cmds, NEW o \in Objs, o = cmd[c].obj, NEW n \in Int,
           cmd[c].pc \in {"found", "got", "locked", "destroy", "destroyed"}, LookupEnd(c, o, n),
           UseInv(o)', n = usecnt[o] \/ (HasFile(o) /\ object[o]),
           writer # "none" => UNCHANGED <<readers, usecnt>>
    PROVE  UobjInv'
<1>1. Types /\ CmdInv(c) /\ ObjInv(o) /\ KnowsOld(c, o)
  BY Zenon DEF UobjInv, CmdInv
<1>2. /\ ref'[o] = ref[o] - 1 /\ (o \in Fds => frefs'[o] = frefs[o] - 1)
      /\ cmd'[c].pc = "idle" /\ sync' = sync \ {c}
      /\ \A d \in Cmds : d # c => cmd'[d] = cmd[d]
      /\ \A p \in Objs : p # o => ref'[p] = ref[p] /\ (p \in Fds => frefs'[p] = frefs[p])
  BY Zenon, <1>1 DEF Types, LookupEnd, LookupPut, Put, Return, Idle
<1>3. Types'
  <2>1. ref' \in [Objs -> Int] /\ frefs' \in [Fds -> Int]
    BY <1>1 DEF Types, LookupEnd, LookupPut, Put
  <2>2. cmd' \in [Cmds -> CmdStates]
    BY Zenon, <1>1 DEF Types, LookupEnd, LookupPut, Return, Idle, CmdStates, PCs, Modes
  <2>3. \A p \in Objs : usecnt'[p] >= -1
    BY Zenon, <1>1 DEF Types, LookupEnd
  <2>4. sync' \subseteq Cmds
    BY Zenon, <1>1, <1>2 DEF Types
  <2> QED BY Zenon, <1>1, <2>1, <2>2, <2>3, <2>4 DEF Types, LookupEnd, AfterCmd
<1>4. /\ UNCHANGED <<object, context, listed, handle, thread, ucontext, ib_dev, writer, todo>>
      /\ UNCHANGED <<retryable, uref>>
      /\ \A p \in Objs : p # o => SameObj(p)
  BY Zenon, <1>2 DEF LookupEnd, SameObj, AfterCmd
<1>5. CmdMove(c, o)
  BY Zenon, <1>1, <1>2, <1>4 DEF CmdMove, LookupEnd
<1>6. UrefInv'
  BY Zenon, <1>4, UrefFrame DEF UobjInv, HasFile
<1>7. CmdInv(c)'
  BY Zenon, <1>2 DEF CmdInv, LookupEnd
<1>8. UserMove(c, o)
  BY Zenon, <1>2, UsersMove
<1>9. ObjInv(o)'
  <2>1. RefInv(o)'
    <3>1. c \in Holders(o) /\ c \notin Holders(o)'
      BY Zenon, <1>2, <1>8 DEF UserMove, Member, PCs
    <3>2. ListRef(o)' = ListRef(o) /\ (HasFile(o)' <=> HasFile(o)) /\ ListRef(o) \in {0, 1}
      BY Zenon, <1>4 DEF ListRef, HasFile
    <3>3. ref'[o] = ref[o] + (-1)
      BY Zenon, <1>1, <1>2 DEF Types
    <3>4. PICK k \in Int : k = -1
      OBVIOUS
    <3>5. k = ListRef(o)' - ListRef(o)
              + (IF HasFile(o)' THEN 1 ELSE 0) - (IF HasFile(o) THEN 1 ELSE 0)
              + (IF c \in Holders(o)' THEN 1 ELSE 0) - (IF c \in Holders(o) THEN 1 ELSE 0)
      BY <3>1, <3>2, <3>4
    <3>6. ref' \in [Objs -> Int] /\ ref'[o] = ref[o] + k
      BY Zenon, <1>3, <3>3, <3>4 DEF Types
    <3> QED BY Zenon, <1>8, <3>5, <3>6, RefStep
  <2>2. FileInv(o)'
    <3>1. CASE o \in Fds
      <4>1. cmd[c].pc \in {"found", "got", "locked"}
        BY Zenon, <1>1, <3>1 DEF KnowsOld
      <4>2. c \in FileUsers(o) /\ c \notin FileUsers(o)'
        BY Zenon, <1>2, <1>8, <4>1 DEF UserMove, Member
      <4>3. handle'[o] = handle[o] /\ frefs'[o] = frefs[o] + (-1)
        BY Zenon, <1>1, <1>2, <1>4, <3>1 DEF Types
      <4>4. PICK k \in Int : k = -1
        OBVIOUS
      <4>5. k = (IF handle'[o] = "stored" THEN 1 ELSE 0) - (IF handle[o] = "stored" THEN 1 ELSE 0)
                + (IF c \in FileUsers(o)' THEN 1 ELSE 0) - (IF c \in FileUsers(o) THEN 1 ELSE 0)
        BY <4>2, <4>3, <4>4
      <4> QED BY Zenon, <1>8, <4>3, <4>4, <4>5, FileStep
    <3> QED BY Zenon, <3>1 DEF FileInv
  <2>3. HwInv(o)'
    <3>1. \A d \in Cmds : Creating(d, o) => Creating(d, o)'
      BY Zenon, <1>2 DEF Creating
    <3>2. ref'[o] > 0 => ref[o] > 0
      BY <1>1, <1>2 DEF Types
    <3> QED BY Zenon, <1>1, <1>4, <3>1, <3>2 DEF ObjInv, HwInv, CleaningBegan, LookupEnd
  <2> QED BY Zenon, <2>1, <2>2, <2>3 DEF ObjInv
<1>10. ASSUME NEW d \in Cmds, d # c, On(d, o) PROVE KnowsNew(d, o)' /\ KnowsOld(d, o)'
  BY Zenon, <1>2, <1>4, <1>10, KnowsFrame DEF SameFields, LookupEnd
<1> QED BY Zenon, <1>3, <1>5, <1>6, <1>7, <1>9, <1>10, CmdStep

\* A lookup that is refused or cannot lock ends; the locks of the object are left alone.
LEMMA LookupFails ==
    ASSUME UobjInv, NEW c \in Cmds, cmd[c].pc \in {"found", "got", "destroyed"},
           LookupPut(c, cmd[c].obj),
           UNCHANGED <<usecnt, object, context, listed, handle, readers, AfterCmd>>
    PROVE  UobjInv'
<1>1. PICK o \in Objs : o = cmd[c].obj
  BY Zenon DEF UobjInv, CmdInv
<1>2. Types /\ CmdInv(c) /\ ObjInv(o) /\ KnowsOld(c, o) /\ c \notin readers /\ On(c, o)
  BY Zenon, <1>1 DEF UobjInv, CmdInv, On
<1>3. ref[o] > 0
  BY Zenon, <1>2, HeldRef
<1>4. /\ cmd'[c].pc = "idle" /\ \A d \in Cmds : d # c => cmd'[d] = cmd[d]
  BY Zenon, <1>2 DEF Types, LookupPut, Return, Idle
<1>5. UserMove(c, o)
  BY Zenon, <1>4, UsersMove
<1>6. UseInv(o)'
  <2>1. Shared(o)' = Shared(o)
    BY Zenon, <1>1, <1>4, <1>5 DEF UserMove, Member, Counted
  <2>2. CASE cmd[c].pc \in {"found", "got"}
    <3>1. Exclusive(o)' = Exclusive(o)
      BY Zenon, <1>1, <1>4, <1>5, <2>2 DEF UserMove, Member, Counted
    <3> QED BY Zenon, <1>2, <1>3, <2>1, <3>1 DEF ObjInv, UseInv
  <2>3. CASE cmd[c].pc = "destroyed"
    <3>1. c \in Exclusive(o) /\ c \notin Exclusive(o)'
      BY Zenon, <1>1, <1>4, <1>5, <2>3 DEF UserMove, Member
    <3>2. Exclusive(o) = {c} /\ Shared(o) = {} /\ usecnt[o] = -1
      BY Zenon, <3>1, ExclusiveAlone DEF Alone
    <3>3. Exclusive(o)' = {}
      BY Zenon, <1>5, <3>1, <3>2 DEF UserMove, Counted
    <3>4. handle[o] = "none" /\ o \notin listed
      BY Zenon, <1>2, <2>3 DEF KnowsOld
    <3> QED BY Zenon, <2>1, <3>2, <3>3, <3>4 DEF UseInv
  <2> QED BY Zenon, <2>2, <2>3
<1>7. LookupEnd(c, o, usecnt[o])
  BY Zenon, <1>1, <1>2 DEF LookupEnd, Types
<1> QED BY Zenon, <1>1, <1>2, <1>6, <1>7, LookupEnds DEF Types

\* What the successful locks of an object have in common.
LockStep(c, o, pc, n) ==
    /\ Goto(c, pc)
    /\ UNCHANGED <<ref, frefs, sync, object, context, listed, handle, AfterCmd>>
    /\ readers' \subseteq Cmds /\ (c \in readers' <=> pc = "destroy")
    /\ \A d \in Cmds : d # c => (d \in readers' <=> d \in readers)
    /\ usecnt' \in [Objs -> Int] /\ usecnt'[o] = n /\ n >= -1
    /\ \A p \in Objs : p # o => usecnt'[p] = usecnt[p]

\* They keep the invariant: an object that is not locked exclusively has its handle and,
\* unless everything is being destroyed, its HW object.
LEMMA LockSteps ==
    ASSUME UobjInv, NEW c \in Cmds, NEW o \in Objs, o = cmd[c].obj, NEW n \in Int,
           NEW pc \in {"locked", "destroy"}, cmd[c].pc = "got", usecnt[o] # -1,
           pc = "destroy" <=> cmd[c].mode = "DESTROY",
           LockStep(c, o, pc, n), UseInv(o)', writer # "none" => UNCHANGED <<readers, usecnt>>
    PROVE  UobjInv'
<1>1. Types /\ CmdInv(c) /\ ObjInv(o) /\ KnowsOld(c, o) /\ On(c, o)
  BY Zenon DEF UobjInv, CmdInv, On
<1>2. ref[o] > 0 /\ HasFile(o)
  BY Zenon, <1>1, HeldRef DEF KnowsOld
<1>3. pc = "locked" => object[o] /\ context[o]
  <2>1. ASSUME pc = "locked" PROVE ~CleaningBegan
    BY Zenon, <1>1, <2>1, OnlyDestroyers
  <2> QED BY Zenon, <1>1, <1>2, <2>1 DEF ObjInv, HwInv
<1>4. /\ cmd'[c].pc = pc /\ cmd'[c].obj = o /\ cmd'[c].mode = cmd[c].mode
      /\ \A d \in Cmds : d # c => cmd'[d] = cmd[d]
      /\ cmd' \in [Cmds -> CmdStates]
  BY <1>1 DEF Types, LockStep, Goto, CmdStates, PCs
<1>5. /\ UNCHANGED <<object, context, listed, handle, ref, frefs, sync>>
      /\ UNCHANGED <<thread, ucontext, ib_dev, writer, todo, retryable, uref>>
      /\ \A p \in Objs : p # o => SameObj(p)
  BY Zenon DEF LockStep, SameObj, AfterCmd
<1>6. Types'
  <2>1. \A p \in Objs : usecnt'[p] >= -1
    BY Zenon, <1>1 DEF Types, LockStep
  <2> QED BY Zenon, <1>1, <1>4, <1>5, <2>1 DEF Types, LockStep
<1>7. CmdMove(c, o)
  BY Zenon, <1>1, <1>4, <1>5 DEF CmdMove, LockStep
<1>8. UrefInv'
  BY Zenon, <1>5, UrefFrame DEF UobjInv, HasFile
<1>9. CmdInv(c)'
  <2>1. KnowsOld(c, o)'
    BY Zenon, <1>1, <1>2, <1>3, <1>4, <1>5 DEF KnowsOld, HasFile
  <2>2. KnowsNew(c, o)'
    BY Zenon, <1>4 DEF KnowsNew
  <2>3. SawDevice(c)' => SawDevice(c)
    BY Zenon, <1>4 DEF SawDevice
  <2> QED BY Zenon, <1>1, <1>4, <1>5, <2>1, <2>2, <2>3 DEF CmdInv, LockStep
<1>10. UserMove(c, o)
  BY Zenon, <1>4, UsersMove
<1>11. ObjInv(o)'
  <2>1. Holders(o)' = Holders(o)
    BY Zenon, <1>4, <1>10 DEF UserMove, Member, Counted, PCs
  <2>2. RefInv(o)'
    BY Zenon, <1>1, <1>5, <2>1 DEF ObjInv, RefInv, ListRef, HasFile
  <2>3. FileInv(o)'
    <3>1. CASE o \in Fds
      <4>1. pc = "locked"
        BY Zenon, <1>1, <3>1 DEF KnowsOld
      <4>2. FileUsers(o)' = FileUsers(o)
        BY Zenon, <1>4, <1>10, <4>1 DEF UserMove, Member, Counted
      <4> QED BY Zenon, <1>1, <1>5, <4>2 DEF ObjInv, FileInv
    <3> QED BY Zenon, <3>1 DEF FileInv
  <2>4. HwInv(o)'
    <3>1. \A d \in Cmds : Creating(d, o) => Creating(d, o)'
      BY Zenon, <1>4 DEF Creating
    <3> QED BY Zenon, <1>1, <1>2, <1>5, <3>1 DEF ObjInv, HwInv, CleaningBegan
  <2> QED BY Zenon, <2>2, <2>3, <2>4 DEF ObjInv
<1>12. ASSUME NEW d \in Cmds, d # c, On(d, o) PROVE KnowsNew(d, o)' /\ KnowsOld(d, o)'
  BY Zenon, <1>2, <1>4, <1>5, <1>12, KnowsFrame DEF SameFields
<1> QED BY Zenon, <1>6, <1>7, <1>8, <1>9, <1>11, <1>12, CmdStep

\* rdma_lookup_get_uobject is let past ib_dev, is refused, or dies on the file it has to
\* put.  One that is let past finds the file: nothing is being destroyed yet.
LEMMA Step_lookup_test ==
    ASSUME UobjInv, NEW c \in Cmds, lookup_test(c)
    PROVE  UobjInv'
<1>1. PICK o \in Objs : o = cmd[c].obj
  BY Zenon DEF UobjInv, CmdInv, lookup_test
<1>2. /\ Types /\ cmd[c].pc = "found" /\ CmdInv(c) /\ ObjInv(o) /\ KnowsOld(c, o) /\ On(c, o)
      /\ UNCHANGED <<usecnt, object, context, listed, handle, readers, AfterCmd>>
      /\ cmd[c].mode \in {"READ", "WRITE", "DESTROY"}
  BY Zenon, <1>1 DEF UobjInv, lookup_test, On, CmdInv, KnowsOld
<1>3. ASSUME NEW pc \in {"got", "oops"}, Goto(c, pc), UNCHANGED <<ref, frefs, sync>>,
             pc = "got" => ~StopsAfterRemove(cmd[c].mode),
             pc = "oops" => o \in Fds /\ ~object[o]
      PROVE  UobjInv'
  <2>1. /\ cmd'[c].pc = pc /\ cmd'[c].obj = o /\ cmd'[c].mode = cmd[c].mode
        /\ \A d \in Cmds : d # c => cmd'[d] = cmd[d]
        /\ cmd' \in [Cmds -> CmdStates]
    BY <1>1, <1>2, <1>3 DEF Types, Goto, CmdStates, PCs
  <2>2. /\ UNCHANGED <<usecnt, object, context, listed, handle, ref, frefs, sync, readers>>
        /\ UNCHANGED <<thread, ucontext, ib_dev, writer, todo, retryable, uref>>
        /\ \A p \in Objs : SameObj(p)
    BY Zenon, <1>2, <1>3 DEF SameObj, AfterCmd
  <2>3. Types'
    BY Zenon, <1>2, <2>1, <2>2 DEF Types
  <2>4. CmdMove(c, o)
    BY Zenon, <1>2, <2>1, <2>2 DEF CmdMove, On
  <2>5. UrefInv'
    BY Zenon, <2>2, UrefFrame DEF UobjInv, HasFile
  <2>6. ASSUME pc = "got", cmd[c].mode # "DESTROY" PROVE ib_dev /\ (o \in Fds => object[o])
    <3>1. ib_dev
      BY Zenon, <1>3, <2>6 DEF StopsAfterRemove
    <3>2. ~CleaningBegan
      BY Zenon, <1>2, <3>1 DEF CleaningBegan, UobjInv, ThreadInv, CmdInv
    <3> QED BY Zenon, <1>2, <3>1, <3>2, FdObject DEF KnowsOld
  <2>7. CmdInv(c)'
    <3>1. KnowsNew(c, o)'
      BY Zenon, <1>3, <2>1 DEF KnowsNew
    <3>2. HasFile(o)' <=> HasFile(o)
      BY Zenon, <2>2 DEF HasFile
    <3>3. KnowsOld(c, o)'
      <4>1. o \in Fds => cmd[c].mode = "READ" /\ HasFile(o)
        BY Zenon, <1>2 DEF KnowsOld
      <4> QED BY Zenon, <1>2, <1>3, <2>1, <2>2, <2>6, <3>2, <4>1 DEF KnowsOld
    <3>4. SawDevice(c)' => ib_dev'
      BY Zenon, <1>3, <2>1, <2>2, <2>6 DEF SawDevice
    <3> QED BY Zenon, <1>2, <1>3, <2>1, <2>2, <3>1, <3>3, <3>4 DEF CmdInv
  <2>8. ObjInv(o)'
    <3>1. UserMove(c, o)
      BY Zenon, <2>1, UsersMove
    <3>2. /\ Holders(o)' = Holders(o) /\ FileUsers(o)' = FileUsers(o)
          /\ Shared(o)' = Shared(o) /\ Exclusive(o)' = Exclusive(o)
      BY Zenon, <1>1, <1>2, <1>3, <2>1, <3>1 DEF UserMove, Member, Counted, PCs
    <3>3. RefInv(o)'
      BY Zenon, <1>2, <2>2, <3>2 DEF ObjInv, RefInv, ListRef, HasFile
    <3>4. UseInv(o)'
      BY Zenon, <1>2, <2>2, <3>2 DEF ObjInv, UseInv
    <3>5. FileInv(o)'
      BY Zenon, <1>2, <2>2, <3>2 DEF ObjInv, FileInv
    <3>6. \A d \in Cmds : Creating(d, o) => Creating(d, o)'
      BY Zenon, <1>2, <2>1 DEF Creating
    <3>7. HwInv(o)'
      BY Zenon, <1>2, <2>2, <3>6 DEF ObjInv, HwInv, CleaningBegan
    <3> QED BY Zenon, <3>3, <3>4, <3>5, <3>7 DEF ObjInv
  <2>9. ASSUME NEW d \in Cmds, d # c, On(d, o) PROVE KnowsNew(d, o)' /\ KnowsOld(d, o)'
    BY Zenon, <2>1, <2>2, <2>9, KnowsFrame DEF SameFields
  <2> QED BY Zenon, <2>3, <2>4, <2>5, <2>7, <2>8, <2>9, CmdStep
<1>4. CASE LookupPut(c, o)
  BY Zenon, <1>1, <1>2, <1>4, LookupFails
<1>5. \/ LookupPut(c, o)
      \/ \E pc \in {"got", "oops"} :
            /\ Goto(c, pc) /\ UNCHANGED <<ref, frefs, sync>>
            /\ pc = "got" => ~StopsAfterRemove(cmd[c].mode)
            /\ pc = "oops" => o \in Fds /\ ~object[o]
  BY Zenon, <1>1 DEF lookup_test
<1> QED BY Zenon, <1>3, <1>4, <1>5

\* Nobody has an object that is locked exclusively once its usecnt is zero.
LEMMA LockFree ==
    ASSUME UobjInv, NEW o \in Objs, ref[o] > 0
    PROVE  /\ usecnt[o] # -1 => Exclusive(o) = {} /\ usecnt[o] = Cardinality(Shared(o))
           /\ usecnt[o] = 0 => Shared(o) = {}
           /\ Cardinality(Shared(o)) \in Nat
<1>1. UseInv(o)
  BY Zenon DEF UobjInv, ObjInv
<1>2. Shared(o) \in SUBSET Cmds
  BY Zenon DEF Shared, Using
<1>3. Cardinality(Shared(o)) \in Nat /\ (Cardinality(Shared(o)) = 0 <=> Shared(o) = {})
  BY Zenon, <1>2, CmdCount
<1> QED BY Zenon, <1>1, <1>3 DEF UseInv

\* rdma_lookup_get_uobject locks, or ends.
LEMMA Step_lookup_lock ==
    ASSUME UobjInv, NEW c \in Cmds, lookup_lock(c)
    PROVE  UobjInv'
<1>1. PICK o \in Objs : o = cmd[c].obj
  BY Zenon DEF UobjInv, CmdInv, lookup_lock
<1>2. PICK mode \in {"READ", "WRITE"} : mode = cmd[c].mode
  BY Zenon DEF UobjInv, CmdInv, lookup_lock, KnowsOld
<1>3. /\ Types /\ cmd[c].pc = "got" /\ mode # "DESTROY" /\ On(c, o) /\ c \notin readers
      /\ UNCHANGED <<object, context, listed, handle, readers, AfterCmd>>
  BY Zenon, <1>1, <1>2 DEF UobjInv, lookup_lock, On, CmdInv
<1>4. CASE /\ TryLock(o, mode) /\ usecnt' = Locked(o, mode) /\ Goto(c, "locked")
           /\ UNCHANGED <<ref, frefs, sync>>
  <2>1. ref[o] > 0
    BY Zenon, <1>3, HeldRef
  <2>2. PICK n \in Int : n = IF mode = "READ" THEN usecnt[o] + 1 ELSE -1
    BY <1>3 DEF Types
  <2>3. usecnt[o] # -1 /\ usecnt[o] >= -1 /\ (mode = "WRITE" => usecnt[o] = 0)
    <3>1. usecnt[o] >= -1 /\ usecnt[o] \in Int
      BY Zenon, <1>3 DEF Types
    <3>2. CASE mode = "READ"
      BY Zenon, <1>4, <3>1, <3>2 DEF TryLock
    <3>3. CASE mode = "WRITE"
      BY <1>4, <3>1, <3>3 DEF TryLock
    <3> QED BY Zenon, <3>2, <3>3
  <2>4. usecnt' \in [Objs -> Int] /\ usecnt'[o] = n /\ n >= -1
        /\ \A p \in Objs : p # o => usecnt'[p] = usecnt[p]
    BY <1>3, <1>4, <2>2, <2>3 DEF Types, Locked
  <2>5. /\ Exclusive(o) = {} /\ usecnt[o] = Cardinality(Shared(o))
        /\ usecnt[o] = 0 => Shared(o) = {}
        /\ Cardinality(Shared(o)) \in Nat
    BY Zenon, <2>1, <2>3, LockFree
  <2>6. /\ cmd'[c].pc = "locked" /\ cmd'[c].obj = o /\ cmd'[c].mode = mode
        /\ \A d \in Cmds : d # c => cmd'[d] = cmd[d]
    BY Zenon, <1>1, <1>2, <1>3, <1>4 DEF Types, Goto, CmdStates
  <2>7. UserMove(c, o)
    BY Zenon, <2>6, UsersMove
  <2>8. UseInv(o)'
    <3>1. CASE mode = "READ"
      <4>1. c \notin Shared(o) /\ c \in Shared(o)' /\ c \notin Exclusive(o) /\ c \notin Exclusive(o)'
        BY Zenon, <1>1, <1>3, <2>6, <2>7, <3>1 DEF UserMove, Member
      <4>2. Exclusive(o)' = {} /\ Cardinality(Shared(o)') = Cardinality(Shared(o)) + 1
        BY Zenon, <2>5, <2>7, <4>1 DEF UserMove, Counted
      <4>3. usecnt'[o] = usecnt[o] + 1
        BY Zenon, <2>2, <2>4, <3>1
      <4> QED BY Zenon, <2>5, <4>2, <4>3 DEF UseInv
    <3>2. CASE mode = "WRITE"
      <4>1. c \notin Shared(o) /\ c \notin Shared(o)' /\ c \notin Exclusive(o) /\ c \in Exclusive(o)'
        BY Zenon, <1>1, <1>3, <2>6, <2>7, <3>2 DEF UserMove, Member
      <4>2. Exclusive(o)' = {c} /\ Shared(o)' = {}
        BY Zenon, <2>3, <2>5, <2>7, <3>2, <4>1 DEF UserMove, Counted
      <4>3. usecnt'[o] = -1
        BY Zenon, <2>2, <2>4, <3>2
      <4> QED BY Zenon, <4>2, <4>3 DEF UseInv
    <3> QED BY Zenon, <3>1, <3>2
  <2>9. writer = "none"
    BY Zenon, <1>2, <1>3, WriterCleans, OnlyDestroyers DEF CanRead
  <2>10. LockStep(c, o, "locked", n)
    BY Zenon, <1>3, <1>4, <2>4 DEF LockStep, Types
  <2> QED BY Zenon, <1>1, <1>2, <1>3, <2>3, <2>8, <2>9, <2>10, LockSteps
<1>5. CASE ~TryLock(o, mode) /\ LookupPut(c, o) /\ UNCHANGED usecnt
  BY Zenon, <1>1, <1>3, <1>5, LookupFails
<1> QED BY Zenon, <1>1, <1>2, <1>4, <1>5 DEF lookup_lock

\* rdma_lookup_put_uobject unlocks what was locked.
LEMMA Step_rdma_lookup_put_uobject ==
    ASSUME UobjInv, NEW c \in Cmds, rdma_lookup_put_uobject(c)
    PROVE  UobjInv'
<1>1. PICK o \in Objs : o = cmd[c].obj
  BY Zenon DEF UobjInv, CmdInv, rdma_lookup_put_uobject
<1>2. PICK mode \in {"READ", "WRITE"} : mode = cmd[c].mode
  BY Zenon DEF UobjInv, CmdInv, rdma_lookup_put_uobject, KnowsOld
<1>3. /\ Types /\ cmd[c].pc = "locked" /\ On(c, o) /\ c \notin readers /\ KnowsOld(c, o)
      /\ UNCHANGED <<object, context, listed, handle, readers, AfterCmd>>
      /\ LookupPut(c, o) /\ usecnt' = [usecnt EXCEPT ![o] = Unlocked(@, mode)]
  BY Zenon, <1>1, <1>2 DEF UobjInv, rdma_lookup_put_uobject, On, CmdInv
<1>4. PICK n \in Int : n = IF mode = "READ" THEN usecnt[o] - 1 ELSE 0
  BY <1>3 DEF Types
<1>5. ref[o] > 0 /\ UseInv(o) /\ HasFile(o) /\ object[o]
  BY Zenon, <1>3, HeldRef DEF KnowsOld, UobjInv, ObjInv
<1>6. cmd'[c].pc = "idle" /\ \A d \in Cmds : d # c => cmd'[d] = cmd[d]
  BY Zenon, <1>3 DEF Types, LookupPut, Return, Idle
<1>7. usecnt' \in [Objs -> Int] /\ usecnt'[o] = n /\ \A p \in Objs : p # o => usecnt'[p] = usecnt[p]
  BY Zenon, <1>3, <1>4 DEF Types, Unlocked
<1>8. UserMove(c, o)
  BY Zenon, <1>6, UsersMove
<1>9. n >= -1 /\ UseInv(o)'
  <2>1. CASE mode = "READ"
    <3>1. c \in Shared(o) /\ c \notin Shared(o)' /\ c \notin Exclusive(o) /\ c \notin Exclusive(o)'
      BY Zenon, <1>1, <1>2, <1>3, <1>6, <1>8, <2>1 DEF UserMove, Member
    <3>2. Exclusive(o) = {} /\ usecnt[o] = Cardinality(Shared(o))
      BY Zenon, <1>5, <3>1 DEF UseInv
    <3>3. /\ Exclusive(o)' = {} /\ Cardinality(Shared(o)') \in Nat /\ Cardinality(Shared(o)) \in Nat
          /\ Cardinality(Shared(o)') = Cardinality(Shared(o)) - 1
      BY Zenon, <1>8, <3>1, <3>2 DEF UserMove, Counted
    <3>4. n = Cardinality(Shared(o)')
      BY Zenon, <1>4, <2>1, <3>2, <3>3
    <3>5. n >= -1
      BY <3>3, <3>4
    <3> QED BY Zenon, <1>7, <3>3, <3>4, <3>5 DEF UseInv
  <2>2. CASE mode = "WRITE"
    <3>1. c \in Exclusive(o) /\ c \notin Exclusive(o)' /\ c \notin Shared(o)'
      BY Zenon, <1>1, <1>2, <1>3, <1>6, <1>8, <2>2 DEF UserMove, Member
    <3>2. Exclusive(o) = {c} /\ Shared(o) = {}
      BY Zenon, <3>1, ExclusiveAlone DEF Alone
    <3>3. Exclusive(o)' = {} /\ Shared(o)' = {}
      BY Zenon, <1>8, <3>1, <3>2 DEF UserMove, Counted
    <3>4. Cardinality({}) = 0 /\ n = 0
      BY Zenon, <1>4, <2>2, FS_EmptySet
    <3>5. n >= -1
      BY <3>4
    <3> QED BY Zenon, <1>7, <3>3, <3>4, <3>5 DEF UseInv
  <2> QED BY Zenon, <2>1, <2>2
<1>10. writer = "none"
  BY Zenon, <1>2, <1>3, WriterCleans, OnlyDestroyers DEF CanRead
<1>11. LookupEnd(c, o, n)
  BY Zenon, <1>3, <1>7, <1>9 DEF LookupEnd, Types
<1> QED BY Zenon, <1>1, <1>3, <1>5, <1>9, <1>10, <1>11, LookupEnds

\* uobj_destroy locks exclusively, under the semaphore, or ends.
LEMMA Step_uobj_destroy ==
    ASSUME UobjInv, NEW c \in Cmds, uobj_destroy(c)
    PROVE  UobjInv'
<1>1. PICK o \in Objs : o = cmd[c].obj
  BY Zenon DEF UobjInv, CmdInv, uobj_destroy
<1>2. /\ Types /\ cmd[c].pc = "got" /\ cmd[c].mode = "DESTROY" /\ On(c, o) /\ writer = "none"
      /\ UNCHANGED <<object, context, listed, handle, AfterCmd>>
  BY Zenon, <1>1 DEF UobjInv, uobj_destroy, On, CanRead
<1>3. CASE /\ TryLock(o, "WRITE") /\ usecnt' = Locked(o, "WRITE")
           /\ readers' = readers \cup {c} /\ Goto(c, "destroy") /\ UNCHANGED <<ref, frefs, sync>>
  <2>1. ref[o] > 0 /\ usecnt[o] = 0
    BY Zenon, <1>2, <1>3, HeldRef DEF TryLock
  <2>2. /\ usecnt' \in [Objs -> Int] /\ usecnt'[o] = -1 /\ -1 \in Int /\ -1 >= -1 /\ usecnt[o] # -1
        /\ \A p \in Objs : p # o => usecnt'[p] = usecnt[p]
    BY <1>2, <1>3, <2>1 DEF Types, Locked
  <2>3. Exclusive(o) = {} /\ Shared(o) = {}
    BY Zenon, <2>1, <2>2, LockFree
  <2>4. /\ cmd'[c].pc = "destroy" /\ cmd'[c].obj = o
        /\ \A d \in Cmds : d # c => cmd'[d] = cmd[d]
    BY Zenon, <1>1, <1>2, <1>3 DEF Types, Goto, CmdStates
  <2>5. UserMove(c, o)
    BY Zenon, <2>4, UsersMove
  <2>6. UseInv(o)'
    <3>1. c \notin Shared(o)' /\ c \in Exclusive(o)'
      BY Zenon, <2>4, <2>5 DEF UserMove, Member
    <3>2. Exclusive(o)' = {c} /\ Shared(o)' = {}
      BY Zenon, <2>3, <2>5, <3>1 DEF UserMove, Counted
    <3> QED BY Zenon, <2>2, <3>2 DEF UseInv
  <2>7. readers' \subseteq Cmds /\ c \in readers'
        /\ \A d \in Cmds : d # c => (d \in readers' <=> d \in readers)
    BY Zenon, <1>2, <1>3 DEF Types
  <2>8. LockStep(c, o, "destroy", -1)
    BY Zenon, <1>2, <1>3, <2>2, <2>7 DEF LockStep
  <2> QED BY Zenon, <1>1, <1>2, <2>2, <2>6, <2>8, LockSteps
<1>4. CASE LookupPut(c, o) /\ UNCHANGED <<usecnt, readers>>
  BY Zenon, <1>1, <1>2, <1>4, LookupFails
<1> QED BY Zenon, <1>1, <1>3, <1>4 DEF uobj_destroy

\* A destroy that the driver refuses unlocks the object and ends.
LEMMA DestroyRefused ==
    ASSUME UobjInv, NEW c \in Cmds, NEW o \in Objs, o = cmd[c].obj, cmd[c].pc = "destroy",
           object[o], usecnt' = [usecnt EXCEPT ![o] = 0], LookupPut(c, o),
           UNCHANGED <<object, context, handle, listed, AfterCmd>>, readers' = readers \ {c}
    PROVE  UobjInv'
<1>1. Types /\ On(c, o) /\ c \in readers /\ KnowsOld(c, o)
  BY Zenon DEF UobjInv, On, CmdInv
<1>2. cmd'[c].pc = "idle" /\ \A d \in Cmds : d # c => cmd'[d] = cmd[d]
  BY Zenon, <1>1 DEF Types, LookupPut, Return, Idle
<1>3. /\ usecnt' \in [Objs -> Int] /\ usecnt'[o] = 0 /\ 0 \in Int /\ 0 >= -1
      /\ \A p \in Objs : p # o => usecnt'[p] = usecnt[p]
  BY <1>1 DEF Types
<1>4. UserMove(c, o)
  BY Zenon, <1>2, UsersMove
<1>5. UseInv(o)'
  <2>1. c \in Exclusive(o) /\ c \notin Exclusive(o)' /\ c \notin Shared(o)'
    BY Zenon, <1>2, <1>4 DEF UserMove, Member
  <2>2. Exclusive(o) = {c} /\ Shared(o) = {}
    BY Zenon, <2>1, ExclusiveAlone DEF Alone
  <2>3. Exclusive(o)' = {} /\ Shared(o)' = {}
    BY Zenon, <1>4, <2>1, <2>2 DEF UserMove, Counted
  <2>4. Cardinality({}) = 0
    BY Zenon, FS_EmptySet
  <2> QED BY Zenon, <1>3, <2>3, <2>4 DEF UseInv
<1>6. writer = "none"
  BY Zenon, <1>1 DEF UobjInv, ThreadInv
<1>7. LookupEnd(c, o, 0)
  BY Zenon, <1>1, <1>3 DEF LookupEnd, Types
<1> QED BY Zenon, <1>1, <1>3, <1>5, <1>6, <1>7, LookupEnds DEF KnowsOld

\* One that succeeds takes the object off the list and its handle with it.
LEMMA DestroyDone ==
    ASSUME UobjInv, NEW c \in Cmds, NEW o \in Objs, o = cmd[c].obj, cmd[c].pc = "destroy",
           object' = [object EXCEPT ![o] = FALSE], context' = [context EXCEPT ![o] = FALSE],
           handle' = [handle EXCEPT ![o] = "none"], listed' = listed \ {o},
           Put(o, 1 + ListRef(o)), Goto(c, "destroyed"), UNCHANGED <<usecnt, frefs, sync, AfterCmd>>,
           readers' = readers \ {c}
    PROVE  UobjInv'
<1>1. /\ Types /\ On(c, o) /\ c \in readers /\ KnowsOld(c, o) /\ CmdInv(c) /\ ObjInv(o)
      /\ c \in Exclusive(o)
  BY Zenon, Members DEF UobjInv, On, CmdInv, Member
<1>2. Alone(c, o) /\ writer = "none" /\ HasFile(o) /\ o \notin Fds
  BY Zenon, <1>1, ExclusiveAlone DEF UobjInv, ThreadInv, KnowsOld
<1>3. /\ cmd'[c].pc = "destroyed" /\ cmd'[c].obj = o /\ cmd'[c].mode = cmd[c].mode
      /\ \A d \in Cmds : d # c => cmd'[d] = cmd[d]
      /\ cmd' \in [Cmds -> CmdStates]
  BY <1>1 DEF Types, Goto, CmdStates, PCs
<1>4. /\ ~object'[o] /\ ~context'[o] /\ handle'[o] = "none" /\ o \notin listed'
      /\ \A p \in Objs : p # o => SameObj(p)
      /\ ref'[o] = ref[o] - (1 + ListRef(o)) /\ ref' \in [Objs -> Int]
      /\ UNCHANGED <<thread, ucontext, ib_dev, writer, todo, retryable, uref>>
  BY <1>1 DEF Types, Put, SameObj, AfterCmd, ListRef
<1>5. Types'
  <2>1. object' \in [Objs -> BOOLEAN] /\ context' \in [Objs -> BOOLEAN]
    BY Zenon, <1>1 DEF Types
  <2>2. handle' \in [Objs -> Handles]
    BY Zenon, <1>1 DEF Types, Handles
  <2>3. listed' \subseteq Objs /\ readers' \subseteq Cmds
    BY Zenon, <1>1 DEF Types
  <2> QED BY Zenon, <1>1, <1>3, <1>4, <2>1, <2>2, <2>3 DEF Types
<1>6. CmdMove(c, o)
  BY Zenon, <1>2, <1>3, <1>4 DEF CmdMove
<1>7. ~HasFile(o)'
  BY Zenon, <1>4 DEF HasFile
<1>8. UrefInv'
  <2>1. \A p \in Fds : HasFile(p)' <=> HasFile(p)
    BY Zenon, <1>2, <1>4, UobjAssumption DEF HasFile, SameObj
  <2> QED BY Zenon, <1>4, <2>1, UrefFrame DEF UobjInv
<1>9. CmdInv(c)'
  <2>1. KnowsOld(c, o)'
    BY Zenon, <1>1, <1>2, <1>3, <1>4 DEF KnowsOld
  <2>2. ~SawDevice(c)'
    BY Zenon, <1>3, <2>1 DEF KnowsOld, SawDevice
  <2> QED BY Zenon, <1>1, <1>3, <1>4, <2>1, <2>2 DEF CmdInv, KnowsNew
<1>10. UserMove(c, o)
  BY Zenon, <1>3, UsersMove
<1>11. ObjInv(o)'
  <2>1. /\ Holders(o)' = Holders(o) /\ Exclusive(o)' = {c} /\ Shared(o)' = {}
    BY Zenon, <1>2, <1>3, <1>10 DEF UserMove, Member, Counted, PCs, Alone
  <2>2. RefInv(o)'
    <3>1. ListRef(o)' = 0 /\ ListRef(o) \in {0, 1}
      BY Zenon, <1>4 DEF ListRef
    <3>2. PICK h : h = Cardinality(Holders(o))
      BY Zenon
    <3>3. h \in Nat
      <4>1. Holders(o) \in SUBSET Cmds
        BY Zenon DEF Holders, Using
      <4> QED BY Zenon, <3>2, <4>1, CmdCount
    <3>4. ref[o] = ListRef(o) + 1 + h
      BY Zenon, <1>1, <1>2, <3>2 DEF ObjInv, RefInv
    <3>5. ref'[o] = 0 + 0 + h
      <4>1. ref'[o] = ref[o] - (1 + ListRef(o))
        BY Zenon, <1>4
      <4>2. PICK r : r = ref'[o]
        BY Zenon
      <4>3. PICK l \in {0, 1} : l = ListRef(o)
        BY Zenon, <3>1
      <4>4. r = (l + 1 + h) - (1 + l)
        BY Zenon, <3>4, <4>1, <4>2, <4>3
      <4>5. r = 0 + 0 + h
        BY <3>3, <4>4
      <4> QED BY Zenon, <4>2, <4>5
    <3> QED BY Zenon, <1>7, <2>1, <3>1, <3>2, <3>5 DEF RefInv
  <2>3. UseInv(o)'
    BY Zenon, <1>2, <2>1 DEF UseInv, Alone
  <2>4. FileInv(o)'
    BY Zenon, <1>2 DEF FileInv
  <2>5. HwInv(o)'
    BY Zenon, <1>2, <1>4 DEF HwInv, Alone
  <2> QED BY Zenon, <2>2, <2>3, <2>4, <2>5 DEF ObjInv
<1>12. ASSUME NEW d \in Cmds, d # c, On(d, o) PROVE KnowsNew(d, o)' /\ KnowsOld(d, o)'
  <2>1. cmd[d].pc \in {"found", "got", "oops"} /\ cmd'[d] = cmd[d] /\ KnowsOld(d, o)
    BY Zenon, <1>2, <1>3, <1>12 DEF Alone, UobjInv, CmdInv, On
  <2> QED BY Zenon, <1>2, <1>4, <2>1 DEF KnowsNew, KnowsOld, Alone
<1> QED BY Zenon, <1>5, <1>6, <1>8, <1>9, <1>11, <1>12, CmdStep

\* uverbs_destroy_uobject for one object.
LEMMA Step_destroy_uobject ==
    ASSUME UobjInv, NEW c \in Cmds, destroy_uobject(c)
    PROVE  UobjInv'
<1>1. PICK o \in Objs : o = cmd[c].obj
  BY Zenon DEF UobjInv, CmdInv, destroy_uobject
<1> QED BY Zenon, <1>1, DestroyRefused, DestroyDone DEF destroy_uobject

\* uobj_put_destroy puts the object that is left locked.
LEMMA Step_uobj_put_destroy ==
    ASSUME UobjInv, NEW c \in Cmds, uobj_put_destroy(c)
    PROVE  UobjInv'
BY Zenon, LookupFails DEF uobj_put_destroy

-----------------------------------------------------------------------------
(* The threads that destroy everything.                                    *)

\* A step of them that leaves objects and commands alone.
LEMMA ThreadStep ==
    ASSUME UobjInv, UNCHANGED <<objVars, cmd, readers>>, Types', ThreadInv', UrefInv',
           CleaningBegan => CleaningBegan',
           \A o \in Objs : ucontext => ucontext' \/ ~context[o],
           \A d \in Cmds : cmd[d].pc # "idle" =>
              /\ thread'["close"] = thread["close"]
              /\ Creating(d, cmd[d].obj) => (ucontext => ucontext')
              /\ SawDevice(d) /\ (ib_dev \/ d \in sync) => ib_dev' \/ d \in sync'
    PROVE  UobjInv'
<1>1. UNCHANGED <<ref, usecnt, object, context, listed, handle, frefs>>
  BY Zenon DEF objVars
<1>2. \A o : SameObj(o) /\ SameUsers(o)
  BY Zenon, <1>1 DEF SameObj, SameUsers
<1>3. ASSUME NEW o \in Objs PROVE ObjInv(o)'
  <2>1. ObjInv(o) /\ SameObj(o) /\ SameUsers(o) /\ (ucontext => ucontext' \/ ~context[o])
    BY Zenon, <1>2 DEF UobjInv
  <2> QED BY Zenon, <2>1, ObjFrame
<1>4. ASSUME NEW d \in Cmds PROVE CmdInv(d)'
  <2>1. /\ CmdInv(d) /\ cmd'[d] = cmd[d] /\ SameObj(cmd[d].obj) /\ (d \in readers' <=> d \in readers)
        /\ Creating(d, cmd[d].obj) => cmd[d].pc # "idle"
    BY Zenon, <1>2 DEF UobjInv, Creating
  <2> QED BY Zenon, <2>1, CmdFrame
<1> QED BY Zenon, <1>3, <1>4 DEF UobjInv

\* After the close no command runs.
LEMMA AllIdle ==
    ASSUME UobjInv, thread["close"] # "idle"
    PROVE  \A d \in Cmds : cmd[d].pc = "idle"
BY Zenon DEF UobjInv, CmdInv

\* ib_uverbs_close finds no command and keeps the reference of the open file.
LEMMA Step_ib_uverbs_close ==
    ASSUME UobjInv, ib_uverbs_close
    PROVE  UobjInv'
<1>1. /\ Types /\ ThreadInv /\ UrefInv
      /\ thread["close"] = "idle" /\ \A c \in Cmds : cmd[c].pc = "idle"
      /\ thread' = [thread EXCEPT !["close"] = "lock"]
      /\ UNCHANGED <<objVars, cmd, readers>>
      /\ UNCHANGED <<ucontext, retryable, ib_dev, sync, todo, uref, writer>>
      /\ UNCHANGED <<ref, usecnt, object, context, listed, handle, frefs>>
  BY Zenon DEF UobjInv, ib_uverbs_close, Step, objVars
<1>2. /\ thread' \in [Threads -> ThreadPCs] /\ thread'["close"] = "lock"
      /\ thread'["remove"] = thread["remove"]
  BY Zenon, <1>1 DEF Types, Threads, ThreadPCs, Cleaning
<1>3. Types'
  BY Zenon, <1>1, <1>2 DEF Types
<1>4. ThreadInv'
  BY Zenon, <1>1, <1>2 DEF ThreadInv, Threads
<1>5. UrefInv'
  <2>1. Files' = Files
    BY Zenon, <1>1 DEF Files, HasFile
  <2>2. /\ Has("close") = 0 /\ Has("close")' = 1 /\ Has("remove")' = Has("remove")
        /\ Has("remove") \in {0, 1}
    BY Zenon, <1>1, <1>2 DEF Has, Cleaning
  <2>3. PICK f : f = Cardinality(Files)
    BY Zenon
  <2>4. 0 + Has("remove") + 1 = 1 + Has("remove") + 0
    BY <2>2
  <2> QED BY Zenon, <1>1, <1>2, <2>1, <2>2, <2>4 DEF UrefInv
<1>6. CleaningBegan'
  BY Zenon, <1>2 DEF CleaningBegan
<1> QED BY Zenon, <1>1, <1>3, <1>4, <1>5, <1>6, ThreadStep

\* synchronize_srcu waits for the commands that may have seen the device.
LEMMA Step_uverbs_disassociate_api_pre ==
    ASSUME UobjInv, uverbs_disassociate_api_pre
    PROVE  UobjInv'
<1>1. /\ Types /\ ThreadInv /\ UrefInv
      /\ thread["remove"] = "idle" /\ ~ib_dev' /\ sync' = Running
      /\ thread' = [thread EXCEPT !["remove"] = "sync"]
      /\ UNCHANGED <<objVars, cmd, readers>>
      /\ UNCHANGED <<ucontext, retryable, todo, uref, writer>>
      /\ UNCHANGED <<ref, usecnt, object, context, listed, handle, frefs>>
  BY Zenon DEF UobjInv, uverbs_disassociate_api_pre, Step, objVars
<1>2. /\ thread' \in [Threads -> ThreadPCs] /\ thread'["remove"] = "sync"
      /\ thread'["close"] = thread["close"]
  BY Zenon, <1>1 DEF Types, Threads, ThreadPCs, Cleaning
<1>3. Types'
  <2>1. sync' \subseteq Cmds
    BY Zenon, <1>1 DEF Running
  <2> QED BY Zenon, <1>1, <1>2, <2>1 DEF Types
<1>4. ThreadInv'
  BY Zenon, <1>1, <1>2 DEF ThreadInv, Threads
<1>5. UrefInv'
  <2>1. Files' = Files
    BY Zenon, <1>1 DEF Files, HasFile
  <2>2. Has("close")' = Has("close") /\ Has("remove")' = Has("remove")
    BY Zenon, <1>1, <1>2 DEF Has, Cleaning
  <2> QED BY Zenon, <1>1, <1>2, <2>1, <2>2 DEF UrefInv
<1>6. CleaningBegan => CleaningBegan'
  BY Zenon, <1>1, <1>2 DEF CleaningBegan
<1>7. \A d \in Cmds : cmd[d].pc # "idle" => d \in sync'
  BY Zenon, <1>1 DEF Running
<1> QED BY Zenon, <1>1, <1>2, <1>3, <1>4, <1>5, <1>6, <1>7, ThreadStep

\* The removal takes a reference to a file that is still on the device's list.
LEMMA Step_ib_uverbs_free_hw_resources ==
    ASSUME UobjInv, ib_uverbs_free_hw_resources
    PROVE  UobjInv'
<1>1. /\ Types /\ ThreadInv /\ UrefInv
      /\ thread["remove"] = "sync" /\ sync = {}
      /\ thread' = [thread EXCEPT !["remove"] = IF onDevice THEN "lock" ELSE "done"]
      /\ uref' = IF onDevice THEN uref + 1 ELSE uref
      /\ UNCHANGED <<objVars, cmd, readers>>
      /\ UNCHANGED <<ucontext, retryable, ib_dev, sync, todo, writer>>
      /\ UNCHANGED <<ref, usecnt, object, context, listed, handle, frefs>>
  BY Zenon DEF UobjInv, ib_uverbs_free_hw_resources, Step, objVars
<1>2. /\ thread' \in [Threads -> ThreadPCs] /\ thread'["close"] = thread["close"]
      /\ thread'["remove"] = IF onDevice THEN "lock" ELSE "done"
  BY Zenon, <1>1 DEF Types, Threads, ThreadPCs, Cleaning
<1>3. Types'
  <2>1. uref' \in Int
    BY <1>1 DEF Types
  <2> QED BY Zenon, <1>1, <1>2, <2>1 DEF Types
<1>4. ThreadInv'
  BY Zenon, <1>1, <1>2 DEF ThreadInv, Threads
<1>5. UrefInv'
  <2>1. Files' = Files
    BY Zenon, <1>1 DEF Files, HasFile
  <2>2. /\ Has("close")' = Has("close") /\ Has("remove") = 0 /\ Has("close") \in {0, 1}
        /\ Has("remove")' = IF onDevice THEN 1 ELSE 0
    BY <1>1, <1>2 DEF Has, Cleaning
  <2>3. PICK f : f = Cardinality(Files)
    BY Zenon
  <2>4. f \in Nat
    <3>1. IsFiniteSet(Files)
      BY Zenon, UobjAssumption, FS_Subset DEF Files
    <3> QED BY Zenon, <2>3, <3>1, FS_CardinalityType
  <2> QED BY <1>1, <1>2, <2>1, <2>2, <2>3, <2>4 DEF UrefInv
<1>6. CleaningBegan'
  BY Zenon, <1>2 DEF CleaningBegan
<1> QED BY Zenon, <1>1, <1>2, <1>3, <1>4, <1>5, <1>6, ThreadStep

\* Once everything is being destroyed and no command has the semaphore, the objects on the
\* list are not locked.
LEMMA ListedIdle ==
    ASSUME UobjInv, CleaningBegan, readers = {}
    PROVE  /\ \A o \in listed : usecnt[o] = 0
           /\ \A d \in Cmds : cmd[d].pc \in {"idle", "found", "got", "oops", "destroyed"}
<1>1. ASSUME NEW d \in Cmds PROVE cmd[d].pc \in {"idle", "found", "got", "oops", "destroyed"}
  <2>1. /\ CmdInv(d) /\ cmd[d].pc \in PCs
        /\ cmd[d].pc # "idle" => cmd[d].mode = "DESTROY" \/ cmd[d].pc \in {"found", "oops"}
    BY Zenon, OnlyDestroyers DEF UobjInv, Types, CmdStates
  <2> QED BY Zenon, <2>1 DEF CmdInv, KnowsOld, PCs
<1>2. ASSUME NEW o \in listed PROVE usecnt[o] = 0
  <2>1. o \in Objs /\ UseInv(o) /\ RefInv(o)
    BY Zenon DEF UobjInv, Types, ObjInv
  <2>2. Shared(o) = {}
    BY Zenon, <1>1 DEF Shared, Using
  <2>3. Exclusive(o) = {}
    <3> SUFFICES ASSUME NEW d \in Exclusive(o) PROVE FALSE
      BY Zenon
    <3>1. d \in Cmds /\ On(d, o)
      BY Zenon DEF Exclusive, Using, On
    <3>2. cmd[d].pc = "destroyed" /\ KnowsOld(d, o)
      BY Zenon, <1>1, <3>1, Members DEF Member, UobjInv, CmdInv, On
    <3> QED BY Zenon, <3>2 DEF KnowsOld
  <2>4. ref[o] > 0
    <3>1. Holders(o) \in SUBSET Cmds
      BY Zenon DEF Holders, Using
    <3>2. Cardinality(Holders(o)) \in Nat /\ ListRef(o) = 1
      BY Zenon, <3>1, CmdCount DEF ListRef
    <3> QED BY <2>1, <3>2 DEF RefInv
  <2>5. Cardinality({}) = 0
    BY Zenon, FS_EmptySet
  <2> QED BY Zenon, <2>1, <2>2, <2>3, <2>4, <2>5 DEF UseInv
<1> QED BY Zenon, <1>1, <1>2

\* A thread goes on with its reference to the ufile.
LEMMA ThreadUref ==
    ASSUME UobjInv, NEW t \in Threads, thread[t] \in Cleaning, NEW pc \in Cleaning,
           thread' = [thread EXCEPT ![t] = pc], UNCHANGED <<uref, handle>>
    PROVE  /\ UrefInv' /\ CleaningBegan' /\ thread' \in [Threads -> ThreadPCs]
           /\ thread'[t] = pc /\ \A u \in Threads : u # t => thread'[u] = thread[u]
           /\ cmd \in [Cmds -> CmdStates]
           /\ \A d \in Cmds : cmd[d].pc # "idle" => thread'["close"] = thread["close"]
<1>1. Types /\ UrefInv /\ thread \in [Threads -> ThreadPCs]
  BY Zenon DEF UobjInv, Types
<1>2. /\ thread' \in [Threads -> ThreadPCs] /\ thread'[t] = pc
      /\ \A u \in Threads : u # t => thread'[u] = thread[u]
  BY Zenon, <1>1 DEF ThreadPCs
<1>3. "close" \in Threads /\ "remove" \in Threads /\ (t = "close" \/ t = "remove")
  BY Zenon DEF Threads
<1>4. \A u \in Threads : (thread'[u] \in Cleaning <=> thread[u] \in Cleaning)
  BY Zenon, <1>2
<1>5. thread'["close"] = "idle" <=> thread["close"] = "idle"
  BY Zenon, <1>2, <1>3 DEF Cleaning
<1>6. Files' = Files
  BY Zenon DEF Files, HasFile
<1>7. UrefInv'
  BY Zenon, <1>1, <1>3, <1>4, <1>5, <1>6 DEF UrefInv, Has
<1>8. CleaningBegan'
  BY Zenon, <1>2, <1>3 DEF CleaningBegan, Cleaning
<1>9. CleaningBegan
  BY Zenon, <1>3 DEF CleaningBegan, Cleaning
<1>10. ASSUME NEW d \in Cmds, cmd[d].pc # "idle" PROVE thread'["close"] = thread["close"]
  <2>1. thread["close"] = "idle"
    BY Zenon, <1>10, AllIdle
  <2> QED BY Zenon, <1>5, <2>1
<1> QED BY Zenon, <1>1, <1>2, <1>7, <1>8, <1>10 DEF Types

\* A thread gets the semaphore: no command has it, and none has locked a listed object.
LEMMA Step_uverbs_destroy_ufile_hw ==
    ASSUME UobjInv, NEW t \in Threads, uverbs_destroy_ufile_hw(t)
    PROVE  UobjInv'
<1>1. PICK pc \in Cleaning : pc = IF ucontext THEN "pass" ELSE "unlock"
  BY Zenon DEF Cleaning
<1>2. /\ Types /\ ThreadInv /\ thread[t] = "lock" /\ readers = {} /\ writer = "none"
      /\ thread' = [thread EXCEPT ![t] = pc]
      /\ writer' = t /\ retryable' = ucontext /\ todo' = listed
      /\ UNCHANGED <<objVars, cmd, readers>>
      /\ UNCHANGED <<ucontext, ib_dev, sync, uref>>
      /\ UNCHANGED <<ref, usecnt, object, context, listed, handle, frefs>>
  BY Zenon, <1>1 DEF UobjInv, uverbs_destroy_ufile_hw, Step, objVars
<1>3. "lock" \in Cleaning /\ (t = "close" \/ t = "remove") /\ t # "none"
  BY Zenon DEF Cleaning, Threads
<1>4. /\ UrefInv' /\ CleaningBegan' /\ thread' \in [Threads -> ThreadPCs]
      /\ thread'[t] = pc /\ \A u \in Threads : u # t => thread'[u] = thread[u]
      /\ \A d \in Cmds : cmd[d].pc # "idle" => thread'["close"] = thread["close"]
  BY Zenon, <1>1, <1>2, <1>3, ThreadUref
<1>5. \A o \in listed : usecnt[o] = 0
  <2>1. CleaningBegan
    BY Zenon, <1>2, <1>3 DEF CleaningBegan
  <2> QED BY Zenon, <1>2, <2>1, ListedIdle
<1>6. Types'
  BY Zenon, <1>2, <1>4 DEF Types
<1>7. ThreadInv'
  <2>1. "close" \in Threads /\ "remove" \in Threads /\ "none" \notin Threads
    BY Zenon DEF Threads
  <2>2. thread'["close"] # "sync"
    BY Zenon, <1>1, <1>2, <1>4, <2>1 DEF ThreadInv
  <2>3. \A u \in Threads : thread'[u] \in {"pass", "unlock"} <=> writer' = u
    <3>1. thread'[t] \in {"pass", "unlock"}
      BY Zenon, <1>1, <1>4
    <3>2. \A u \in Threads : thread[u] \notin {"pass", "unlock"}
      BY Zenon, <1>2, <2>1 DEF ThreadInv
    <3> QED BY Zenon, <1>2, <1>4, <3>1, <3>2
  <2>4. /\ thread'["remove"] = "idle" <=> ib_dev'
        /\ thread'["remove"] \notin {"idle", "sync"} => sync' = {}
    <3>1. CASE t = "remove"
      BY Zenon, <1>1, <1>2, <1>4, <3>1 DEF ThreadInv
    <3>2. CASE t = "close"
      BY Zenon, <1>2, <1>4, <2>1, <3>2 DEF ThreadInv
    <3> QED BY Zenon, <1>3, <3>1, <3>2
  <2> QED BY Zenon, <1>2, <1>5, <2>2, <2>3, <2>4 DEF ThreadInv
<1> QED BY Zenon, <1>2, <1>4, <1>6, <1>7, ThreadStep

\* What a thread that destroys everything relies on.
LEMMA InPass ==
    ASSUME UobjInv, NEW t \in Threads, thread[t] \in {"pass", "unlock"}
    PROVE  /\ writer = t /\ CleaningBegan /\ readers = {} /\ thread[t] \in Cleaning
           /\ \A u \in Threads : u # t => thread[u] \notin {"pass", "unlock"}
           /\ \A o \in listed : usecnt[o] = 0
           /\ \A d \in Cmds : cmd[d].pc \in {"idle", "found", "got", "oops", "destroyed"}
<1>1. writer = t /\ \A u \in Threads : u # t => thread[u] \notin {"pass", "unlock"}
  BY Zenon DEF UobjInv, ThreadInv
<1>2. writer # "none" /\ CleaningBegan /\ thread[t] \in Cleaning
  BY Zenon, <1>1 DEF CleaningBegan, Threads, Cleaning
<1>3. readers = {}
  BY Zenon, <1>2 DEF UobjInv, ThreadInv
<1> QED BY Zenon, <1>1, <1>2, <1>3, ListedIdle

\* __uverbs_cleanup_ufile starts another pass.
LEMMA Step_next_pass ==
    ASSUME UobjInv, NEW t \in Threads, next_pass(t)
    PROVE  UobjInv'
<1>1. /\ Types /\ ThreadInv /\ UrefInv /\ thread[t] = "pass"
      /\ todo' = listed
      /\ UNCHANGED <<objVars, cmd, readers>>
      /\ UNCHANGED <<ucontext, ib_dev, sync, thread, uref, writer>>
      /\ UNCHANGED <<ref, usecnt, object, context, listed, handle, frefs>>
  BY Zenon DEF UobjInv, next_pass, objVars
<1>2. \A o \in listed : usecnt[o] = 0
  BY Zenon, <1>1, InPass
<1>3. Types'
  BY Zenon, <1>1 DEF Types
<1>4. ThreadInv'
  BY Zenon, <1>1, <1>2 DEF ThreadInv
<1>5. UrefInv'
  BY Zenon, <1>1, UrefFrame DEF HasFile
<1>6. CleaningBegan => CleaningBegan'
  BY Zenon, <1>1 DEF CleaningBegan
<1> QED BY Zenon, <1>1, <1>3, <1>4, <1>5, <1>6, ThreadStep

\* After the last pass nothing is left on the list, and the ucontext goes.
LEMMA Step_ufile_destroy_ucontext ==
    ASSUME UobjInv, NEW t \in Threads, ufile_destroy_ucontext(t)
    PROVE  UobjInv'
<1>1. /\ Types /\ ThreadInv /\ thread[t] = "pass" /\ todo = {} /\ ~AnotherPass
      /\ thread' = [thread EXCEPT ![t] = "unlock"] /\ ~retryable'
      /\ UNCHANGED <<objVars, cmd, readers>>
      /\ UNCHANGED <<ib_dev, sync, uref, writer, todo>>
      /\ UNCHANGED <<ref, usecnt, object, context, listed, handle, frefs>>
  BY Zenon DEF UobjInv, ufile_destroy_ucontext, Step, objVars
<1>2. /\ writer = t /\ thread[t] \in Cleaning
      /\ \A u \in Threads : u # t => thread[u] \notin {"pass", "unlock"}
      /\ \A d \in Cmds : cmd[d].pc \in {"idle", "found", "got", "oops", "destroyed"}
  BY Zenon, <1>1, InPass
<1>3. "unlock" \in Cleaning /\ (t = "close" \/ t = "remove") /\ t # "none"
  BY Zenon DEF Cleaning, Threads
<1>4. /\ UrefInv' /\ CleaningBegan' /\ thread' \in [Threads -> ThreadPCs]
      /\ thread'[t] = "unlock" /\ \A u \in Threads : u # t => thread'[u] = thread[u]
      /\ \A d \in Cmds : cmd[d].pc # "idle" => thread'["close"] = thread["close"]
  BY Zenon, <1>1, <1>2, <1>3, ThreadUref
<1>5. listed = {}
  BY Zenon, <1>1 DEF ThreadInv, AnotherPass
<1>6. \A d \in Cmds, o \in Objs : ~Creating(d, o)
  BY Zenon, <1>2 DEF Creating
<1>7. \A o \in Objs : ~context[o]
  BY Zenon, <1>5, <1>6 DEF UobjInv, ObjInv, HwInv
<1>8. Types'
  BY Zenon, <1>1, <1>4 DEF Types
<1>9. ThreadInv'
  <2>1. "close" \in Threads /\ "remove" \in Threads
    BY Zenon DEF Threads
  <2>2. thread'["close"] # "sync"
    BY Zenon, <1>1, <1>4, <2>1 DEF ThreadInv
  <2>3. \A u \in Threads : thread'[u] \in {"pass", "unlock"} <=> writer' = u
    BY Zenon, <1>1, <1>2, <1>4
  <2>4. /\ thread'["remove"] = "idle" <=> ib_dev'
        /\ thread'["remove"] \notin {"idle", "sync"} => sync' = {}
    <3>1. CASE t = "remove"
      BY Zenon, <1>1, <1>4, <3>1 DEF ThreadInv
    <3>2. CASE t = "close"
      BY Zenon, <1>1, <1>4, <2>1, <3>2 DEF ThreadInv
    <3> QED BY Zenon, <1>3, <3>1, <3>2
  <2> QED BY Zenon, <1>1, <1>5, <2>2, <2>3, <2>4 DEF ThreadInv
<1>10. \A d \in Cmds : ~Creating(d, cmd[d].obj)
  BY Zenon, <1>2 DEF Creating
<1> QED BY Zenon, <1>1, <1>4, <1>7, <1>8, <1>9, <1>10, ThreadStep

\* up_write.
LEMMA Step_unlock ==
    ASSUME UobjInv, NEW t \in Threads, unlock(t)
    PROVE  UobjInv'
<1>1. /\ Types /\ ThreadInv /\ thread[t] = "unlock" /\ writer' = "none"
      /\ thread' = [thread EXCEPT ![t] = "put"]
      /\ UNCHANGED <<objVars, cmd, readers>>
      /\ UNCHANGED <<ucontext, retryable, ib_dev, sync, uref, todo>>
      /\ UNCHANGED <<ref, usecnt, object, context, listed, handle, frefs>>
  BY Zenon DEF UobjInv, unlock, Step, objVars
<1>2. /\ writer = t /\ thread[t] \in Cleaning
      /\ \A u \in Threads : u # t => thread[u] \notin {"pass", "unlock"}
  BY Zenon, <1>1, InPass
<1>3. "put" \in Cleaning /\ (t = "close" \/ t = "remove")
  BY Zenon DEF Cleaning, Threads
<1>4. /\ UrefInv' /\ CleaningBegan' /\ thread' \in [Threads -> ThreadPCs]
      /\ thread'[t] = "put" /\ \A u \in Threads : u # t => thread'[u] = thread[u]
      /\ \A d \in Cmds : cmd[d].pc # "idle" => thread'["close"] = thread["close"]
  BY Zenon, <1>1, <1>2, <1>3, ThreadUref
<1>5. Types'
  BY Zenon, <1>1, <1>4 DEF Types
<1>6. ThreadInv'
  <2>1. "close" \in Threads /\ "remove" \in Threads /\ "none" \notin Threads
    BY Zenon DEF Threads
  <2>2. thread'["close"] # "sync"
    BY Zenon, <1>1, <1>4, <2>1 DEF ThreadInv
  <2>3. \A u \in Threads : thread'[u] \notin {"pass", "unlock"} /\ writer' # u
    BY Zenon, <1>1, <1>2, <1>4, <2>1
  <2>4. /\ thread'["remove"] = "idle" <=> ib_dev'
        /\ thread'["remove"] \notin {"idle", "sync"} => sync' = {}
    <3>1. CASE t = "remove"
      BY Zenon, <1>1, <1>4, <3>1 DEF ThreadInv
    <3>2. CASE t = "close"
      BY Zenon, <1>1, <1>4, <2>1, <3>2 DEF ThreadInv
    <3> QED BY Zenon, <1>3, <3>1, <3>2
  <2> QED BY Zenon, <1>1, <2>2, <2>3, <2>4 DEF ThreadInv
<1> QED BY Zenon, <1>1, <1>4, <1>5, <1>6, ThreadStep

\* A step that moves no command keeps the invariant if it does so for the objects, the
\* threads and what each command knows.
LEMMA ObjStep ==
    ASSUME UobjInv, UNCHANGED <<cmd, readers, ib_dev, sync>>, Types', ThreadInv', UrefInv',
           \A p \in Objs : ObjInv(p)',
           \A d \in Cmds : cmd[d].pc # "idle" =>
              /\ thread'["close"] = thread["close"]
              /\ KnowsNew(d, cmd[d].obj)' /\ KnowsOld(d, cmd[d].obj)'
    PROVE  UobjInv'
<1>1. ASSUME NEW d \in Cmds PROVE CmdInv(d)'
  <2>1. CmdInv(d) /\ cmd'[d] = cmd[d]
    BY Zenon DEF UobjInv
  <2> QED BY Zenon, <1>1, <2>1 DEF CmdInv, SawDevice
<1> QED BY Zenon, <1>1 DEF UobjInv

\* What a command knows of an object that a step leaves alone.
LEMMA KnowsSame ==
    ASSUME UobjInv, UNCHANGED <<cmd, ucontext>>, NEW d \in Cmds, cmd[d].pc # "idle",
           SameObj(cmd[d].obj)
    PROVE  KnowsNew(d, cmd[d].obj)' /\ KnowsOld(d, cmd[d].obj)'
<1>1. PICK p \in Objs : p = cmd[d].obj
  BY Zenon DEF UobjInv, CmdInv
<1>2. On(d, p) /\ SameFields(p) /\ usecnt'[p] = usecnt[p] /\ cmd'[d] = cmd[d]
  BY Zenon, <1>1 DEF On, SameFields, SameObj
<1>3. KnowsNew(d, p)' /\ KnowsOld(d, p)'
  BY Zenon, <1>2, KnowsFrame
<1>4. cmd'[d].obj = p /\ p' = p
  BY Zenon, <1>1
<1> QED BY Zenon, <1>1, <1>3

\* __uverbs_cleanup_ufile destroys an object that nobody has locked; a command that has
\* looked it up wants to destroy it.
LEMMA Step_cleanup_uobject ==
    ASSUME UobjInv, NEW t \in Threads, NEW o \in Objs, cleanup_uobject(t, o)
    PROVE  UobjInv'
<1>1. /\ Types /\ ThreadInv /\ UrefInv /\ thread[t] = "pass" /\ o \in todo /\ ObjInv(o)
      /\ todo' = todo \ {o} /\ usecnt' = [usecnt EXCEPT ![o] = 0]
      /\ UNCHANGED <<handle, frefs, cmd, readers, ucontext, retryable, ib_dev, sync, thread,
                     uref, writer>>
      /\ \/ /\ object' = [object EXCEPT ![o] = FALSE]
            /\ context' = [context EXCEPT ![o] = FALSE]
            /\ listed' = listed \ {o} /\ ref' = [ref EXCEPT ![o] = @ - 1]
         \/ retryable /\ UNCHANGED <<object, context, listed, ref>>
  BY Zenon DEF UobjInv, cleanup_uobject, Put
<1>2. /\ writer = t /\ CleaningBegan
      /\ \A u \in Threads : u # t => thread[u] \notin {"pass", "unlock"}
      /\ \A d \in Cmds : cmd[d].pc \in {"idle", "found", "got", "oops", "destroyed"}
  BY Zenon, <1>1, InPass
<1>3. o \in listed /\ usecnt[o] = 0
  BY Zenon, <1>1, <1>2 DEF ThreadInv, Threads
<1>4. /\ \A p \in Objs : p # o => SameObj(p)
      /\ usecnt' \in [Objs -> Int] /\ ref' \in [Objs -> Int]
      /\ \A p \in Objs : usecnt'[p] = usecnt[p]
      /\ object' \in [Objs -> BOOLEAN] /\ context' \in [Objs -> BOOLEAN]
      /\ listed' \subseteq listed
  <2>1. usecnt' \in [Objs -> Int] /\ \A p \in Objs : usecnt'[p] = usecnt[p]
    BY Zenon, <1>1, <1>3 DEF Types
  <2>2. CASE UNCHANGED <<object, context, listed, ref>>
    BY Zenon, <1>1, <2>1, <2>2 DEF Types, SameObj
  <2>3. CASE /\ object' = [object EXCEPT ![o] = FALSE]
             /\ context' = [context EXCEPT ![o] = FALSE]
             /\ listed' = listed \ {o} /\ ref' = [ref EXCEPT ![o] = @ - 1]
    <3>1. ref' \in [Objs -> Int] /\ object' \in [Objs -> BOOLEAN] /\ context' \in [Objs -> BOOLEAN]
      <4>1. ref[o] \in Int
        BY Zenon, <1>1 DEF Types
      <4>2. ref[o] - 1 \in Int
        BY <4>1
      <4> QED BY Zenon, <1>1, <2>3, <4>2 DEF Types
    <3>2. \A p \in Objs : p # o =>
             ref'[p] = ref[p] /\ object'[p] = object[p] /\ context'[p] = context[p]
      BY Zenon, <1>1, <2>3 DEF Types
    <3>3. listed' \subseteq listed /\ \A p \in Objs : p # o => (p \in listed' <=> p \in listed)
      BY Zenon, <2>3
    <3> QED BY Zenon, <1>1, <2>1, <3>1, <3>2, <3>3 DEF SameObj
  <2> QED BY Zenon, <1>1, <2>2, <2>3
<1>5. CleaningBegan' /\ \A p \in Objs : SameUsers(p)
  BY Zenon, <1>1, <1>2 DEF CleaningBegan, SameUsers
<1>6. Types'
  BY Zenon, <1>1, <1>4 DEF Types
<1>7. ThreadInv'
  <2>1. \A p \in todo' : usecnt'[p] = 0 /\ p \in listed'
    BY Zenon, <1>1, <1>2, <1>3, <1>4 DEF ThreadInv, Types, Threads
  <2>2. (\E u \in Threads : thread[u] = "pass") /\ ~retryable => listed' \subseteq todo'
    BY Zenon, <1>1 DEF ThreadInv
  <2> QED BY Zenon, <1>1, <2>1, <2>2 DEF ThreadInv
<1>8. UrefInv'
  BY Zenon, <1>1, UrefFrame DEF HasFile
<1>9. ObjInv(o)'
  <2>1. /\ Holders(o)' = Holders(o) /\ Shared(o)' = Shared(o)
        /\ FileUsers(o)' = FileUsers(o) /\ Exclusive(o)' = Exclusive(o)
    BY Zenon, <1>5, UsersFrame
  <2>2. CASE UNCHANGED <<object, context, listed, ref>>
    <3>1. SameObj(o)
      BY Zenon, <1>1, <1>4, <2>2 DEF SameObj
    <3> QED BY Zenon, <1>1, <1>5, <3>1, ObjFrame
  <2>3. CASE /\ object' = [object EXCEPT ![o] = FALSE]
             /\ context' = [context EXCEPT ![o] = FALSE]
             /\ listed' = listed \ {o} /\ ref' = [ref EXCEPT ![o] = @ - 1]
    <3>1. /\ ~object'[o] /\ ~context'[o] /\ o \notin listed' /\ ref'[o] = ref[o] - 1
          /\ ref[o] \in Int /\ (HasFile(o)' <=> HasFile(o)) /\ handle'[o] = handle[o]
      BY Zenon, <1>1, <2>3 DEF Types, HasFile
    <3>2. RefInv(o)'
      <4>1. Cardinality(Holders(o)) \in Nat
        BY Zenon, CmdCount DEF Holders, Using
      <4>2. ListRef(o) = 1 /\ ListRef(o)' = 0
        BY Zenon, <1>3, <3>1 DEF ListRef
      <4>3. RefInv(o) /\ Cardinality(Holders(o)') = Cardinality(Holders(o))
        BY Zenon, <1>1, <2>1 DEF ObjInv
      <4> QED BY <3>1, <4>1, <4>2, <4>3 DEF RefInv
    <3>3. UseInv(o)'
      <4>1. ref'[o] > 0 => ref[o] > 0
        <5>1. ref'[o] = ref[o] - 1 /\ ref[o] \in Int
          BY Zenon, <3>1
        <5> QED BY <5>1
      <4>2. UseInv(o) /\ usecnt'[o] = usecnt[o]
        BY Zenon, <1>1, <1>4 DEF ObjInv
      <4> QED BY Zenon, <2>1, <3>1, <4>1, <4>2 DEF UseInv
    <3>4. FileInv(o)'
      BY Zenon, <1>1, <2>1, <3>1 DEF FileInv, ObjInv
    <3>5. HwInv(o)'
      BY Zenon, <1>1, <1>5, <3>1 DEF HwInv, ObjInv
    <3> QED BY Zenon, <3>2, <3>3, <3>4, <3>5 DEF ObjInv
  <2> QED BY Zenon, <1>1, <2>2, <2>3
<1>10. ASSUME NEW p \in Objs PROVE ObjInv(p)'
  <2>1. CASE p = o
    BY Zenon, <1>9, <2>1
  <2>2. CASE p # o
    <3>1. ObjInv(p) /\ SameObj(p) /\ SameUsers(p) /\ ucontext' = ucontext
      BY Zenon, <1>1, <1>4, <1>5, <2>2 DEF UobjInv
    <3> QED BY Zenon, <1>5, <3>1, ObjFrame
  <2> QED BY Zenon, <2>1, <2>2
<1>11. ASSUME NEW d \in Cmds, cmd[d].pc # "idle"
       PROVE  KnowsNew(d, cmd[d].obj)' /\ KnowsOld(d, cmd[d].obj)'
  <2>1. CASE cmd[d].obj # o
    <3>1. SameObj(cmd[d].obj)
      BY Zenon, <1>4, <1>11, <2>1 DEF UobjInv, CmdInv
    <3> QED BY Zenon, <1>1, <1>11, <3>1, KnowsSame
  <2>2. CASE cmd[d].obj = o
    <3>1. /\ KnowsOld(d, o) /\ cmd[d].pc \in {"found", "got", "oops", "destroyed"}
          /\ cmd[d].pc = "got" => cmd[d].mode = "DESTROY"
      BY Zenon, <1>2, <1>11, <2>2, OnlyDestroyers DEF UobjInv, CmdInv
    <3>2. cmd[d].pc \in {"found", "got", "oops"} /\ cmd'[d] = cmd[d]
      BY Zenon, <1>1, <1>3, <3>1 DEF KnowsOld
    <3>3. HasFile(o) /\ HasFile(o)' /\ handle'[o] = handle[o] /\ (object'[o] => object[o])
      <4>1. usecnt[o] # -1
        BY <1>3
      <4>2. HasFile(o)' <=> HasFile(o)
        BY Zenon, <1>1 DEF HasFile
      <4>3. object'[o] => object[o]
        BY Zenon, <1>1 DEF Types
      <4> QED BY Zenon, <1>1, <3>1, <3>2, <4>1, <4>2, <4>3 DEF KnowsOld
    <3>4. KnowsNew(d, o)' /\ KnowsOld(d, o)'
      <4>1. cmd[d].pc = "got" => o \notin Fds
        BY Zenon, <3>1 DEF KnowsOld
      <4> QED BY Zenon, <3>1, <3>2, <3>3, <4>1 DEF KnowsNew, KnowsOld
    <3>5. cmd'[d].obj = o
      BY Zenon, <1>1, <2>2
    <3> QED BY Zenon, <3>4, <3>5
  <2> QED BY Zenon, <2>1, <2>2
<1> QED BY Zenon, <1>1, <1>6, <1>7, <1>8, <1>10, <1>11, ObjStep

\* User space closes the fd: the file goes on, with one reference less.
LEMMA Step_close_fd ==
    ASSUME UobjInv, NEW o \in Fds, close_fd(o)
    PROVE  UobjInv'
<1>1. /\ Types /\ ThreadInv /\ UrefInv /\ o \in Objs /\ ObjInv(o) /\ handle[o] = "stored"
      /\ handle' = [handle EXCEPT ![o] = "closed"] /\ frefs' = [frefs EXCEPT ![o] = @ - 1]
      /\ UNCHANGED <<ref, usecnt, object, context, listed, cmd, readers>>
      /\ UNCHANGED <<ucontext, retryable, ib_dev, sync, thread, todo, uref, writer>>
  BY Zenon, UobjAssumption DEF UobjInv, close_fd, fileVars
<1>2. /\ handle' \in [Objs -> Handles] /\ frefs' \in [Fds -> Int]
      /\ handle'[o] = "closed" /\ frefs'[o] = frefs[o] - 1 /\ frefs[o] \in Int
      /\ \A p \in Objs : p # o => SameObj(p)
  BY <1>1 DEF Types, SameObj, Handles
<1>3. HasFile(o) /\ HasFile(o)' /\ \A p \in Objs : HasFile(p)' <=> HasFile(p)
  BY Zenon, <1>1, <1>2 DEF HasFile, SameObj
<1>4. Types' /\ ThreadInv'
  BY Zenon, <1>1, <1>2 DEF Types, ThreadInv
<1>5. UrefInv'
  BY Zenon, <1>1, <1>3, UobjAssumption, UrefFrame
<1>6. (CleaningBegan' <=> CleaningBegan) /\ \A p \in Objs : SameUsers(p)
  BY Zenon, <1>1 DEF CleaningBegan, SameUsers
<1>7. ObjInv(o)'
  <2>1. /\ Holders(o)' = Holders(o) /\ Shared(o)' = Shared(o)
        /\ FileUsers(o)' = FileUsers(o) /\ Exclusive(o)' = Exclusive(o)
    BY Zenon, <1>1, <1>6, UsersFrame
  <2>2. RefInv(o)'
    BY Zenon, <1>1, <1>3, <2>1 DEF RefInv, ObjInv, ListRef
  <2>3. UseInv(o)'
    BY Zenon, <1>1, <1>2, <2>1 DEF UseInv, ObjInv
  <2>4. FileInv(o)'
    <3>1. Cardinality(FileUsers(o)) \in Nat /\ FileInv(o)
      BY Zenon, <1>1, CmdCount DEF FileUsers, Using, ObjInv
    <3>2. Cardinality(FileUsers(o)') = Cardinality(FileUsers(o))
      BY Zenon, <2>1
    <3>3. /\ o \in Fds /\ handle[o] = "stored" /\ handle'[o] = "closed"
          /\ frefs'[o] = frefs[o] - 1
      BY Zenon, <1>1, <1>2
    <3> QED BY <3>1, <3>2, <3>3 DEF FileInv
  <2>5. HwInv(o)'
    BY Zenon, <1>1, <1>6 DEF HwInv, ObjInv, Creating
  <2> QED BY Zenon, <2>2, <2>3, <2>4, <2>5 DEF ObjInv
<1>8. ASSUME NEW p \in Objs PROVE ObjInv(p)'
  <2>1. CASE p # o
    <3>1. ObjInv(p) /\ SameObj(p) /\ SameUsers(p) /\ ucontext' = ucontext
      BY Zenon, <1>1, <1>2, <1>6, <2>1 DEF UobjInv
    <3> QED BY Zenon, <1>6, <3>1, ObjFrame
  <2> QED BY Zenon, <1>7, <2>1
<1>9. ASSUME NEW d \in Cmds, cmd[d].pc # "idle"
      PROVE  KnowsNew(d, cmd[d].obj)' /\ KnowsOld(d, cmd[d].obj)'
  <2>1. CASE cmd[d].obj # o
    <3>1. SameObj(cmd[d].obj)
      BY Zenon, <1>2, <1>9, <2>1 DEF UobjInv, CmdInv
    <3> QED BY Zenon, <1>1, <1>9, <3>1, KnowsSame
  <2>2. CASE cmd[d].obj = o
    <3>1. KnowsOld(d, o) /\ KnowsNew(d, o)
      BY Zenon, <1>9, <2>2 DEF UobjInv, CmdInv
    <3>2. cmd[d].pc \notin {"create", "created"}
      BY Zenon, <1>1, <3>1 DEF KnowsNew
    <3>3. handle'[o] # "reserved"
      BY Zenon, <1>2
    <3>4. cmd[d].pc # "destroyed"
      BY Zenon, <1>1, <3>1 DEF KnowsOld
    <3>5. KnowsNew(d, o)' /\ KnowsOld(d, o)'
      BY Zenon, <1>1, <1>3, <3>1, <3>2, <3>3, <3>4 DEF KnowsNew, KnowsOld
    <3>6. cmd'[d].obj = o
      BY Zenon, <1>1, <2>2
    <3> QED BY Zenon, <3>5, <3>6
  <2> QED BY Zenon, <2>1, <2>2
<1> QED BY Zenon, <1>1, <1>4, <1>5, <1>8, <1>9, ObjStep

\* An object that the last put of the ufile takes out of the IDR, or one left alone.
Freed(p) ==
    /\ p \notin Fds /\ handle[p] = "stored" /\ handle'[p] = "none" /\ ref'[p] = ref[p] - 1
    /\ usecnt'[p] = usecnt[p] /\ object'[p] = object[p] /\ context'[p] = context[p]
    /\ p \in listed' <=> p \in listed
    /\ thread["close"] # "idle"
Left(p) == SameObj(p) \/ Freed(p)

PutDone(gone, refs) ==
    /\ ref' \in [Objs -> Int] /\ handle' \in [Objs -> Handles] /\ uref' = uref - 1
    /\ \A p \in gone : handle'[p] = "none" /\ ref'[p] = refs[p]
    /\ \A p \in Objs \ gone :
          \/ handle'[p] = handle[p] /\ ref'[p] = refs[p]
          \/ /\ p \notin Fds /\ handle[p] = "stored" /\ handle'[p] = "none"
             /\ ref'[p] = refs[p] - 1 /\ uref = 1

\* What kref_put of the ufile does to the handles and the krefs of objects.
LEMMA PutEffects ==
    ASSUME Types, NEW gone \in SUBSET Fds, NEW refs \in [Objs -> Int], PutUfile(gone, refs)
    PROVE  PutDone(gone, refs)
<1>1. /\ uref' = uref - 1
      /\ handle' = [o \in Objs |-> IF o \in Released \cup gone THEN "none" ELSE handle[o]]
      /\ ref' = [o \in Objs |-> refs[o] - (IF o \in Released THEN 1 ELSE 0)]
      /\ handle \in [Objs -> Handles] /\ gone \subseteq Objs
  BY Zenon, UobjAssumption DEF PutUfile, Types
<1>2. \A p \in Released : p \in Objs /\ p \notin Fds /\ handle[p] = "stored" /\ uref = 1
  BY Zenon DEF Released
<1>3. \A p \in Objs : /\ handle'[p] = IF p \in Released \cup gone THEN "none" ELSE handle[p]
                      /\ ref'[p] = refs[p] - (IF p \in Released THEN 1 ELSE 0)
                      /\ refs[p] \in Int
  BY Zenon, <1>1
<1>4. handle' \in [Objs -> Handles]
  BY Zenon, <1>1, <1>3 DEF Handles
<1>5. ref' \in [Objs -> Int]
  BY <1>1, <1>3
<1>6. \A p \in gone : p \in Objs /\ p \notin Released
  BY Zenon, <1>1, <1>2
<1>7. \A p \in gone : handle'[p] = "none" /\ ref'[p] = refs[p]
  BY <1>3, <1>6
<1>8. ASSUME NEW p \in Objs \ gone
      PROVE  \/ handle'[p] = handle[p] /\ ref'[p] = refs[p]
             \/ /\ p \notin Fds /\ handle[p] = "stored" /\ handle'[p] = "none"
                /\ ref'[p] = refs[p] - 1 /\ uref = 1
  <2>1. CASE p \in Released
    BY Zenon, <1>2, <1>3, <2>1
  <2>2. CASE p \notin Released
    BY <1>3, <2>2
  <2> QED BY Zenon, <2>1, <2>2
<1> QED BY Zenon, <1>1, <1>4, <1>5, <1>7, <1>8 DEF PutDone

\* Taking an object out of the IDR drops the reference of its handle.
LEMMA FreedObject ==
    ASSUME UobjInv, NEW p \in Objs, Freed(p), UNCHANGED <<cmd, ucontext>>, CleaningBegan'
    PROVE  ObjInv(p)'
<1>1. /\ RefInv(p) /\ UseInv(p) /\ HwInv(p) /\ ref[p] \in Int
      /\ p \notin Fds /\ handle[p] = "stored" /\ handle'[p] = "none" /\ ref'[p] = ref[p] - 1
      /\ usecnt'[p] = usecnt[p] /\ object'[p] = object[p] /\ context'[p] = context[p]
      /\ p \in listed' <=> p \in listed
  BY Zenon DEF UobjInv, ObjInv, Types, Freed
<1>2. /\ Holders(p)' = Holders(p) /\ Shared(p)' = Shared(p)
      /\ FileUsers(p)' = FileUsers(p) /\ Exclusive(p)' = Exclusive(p)
  BY Zenon, UsersFrame DEF SameUsers
<1>3. RefInv(p)'
  <2>1. Cardinality(Holders(p)) \in Nat
    BY Zenon, CmdCount DEF Holders, Using
  <2>2. ListRef(p)' = ListRef(p) /\ ListRef(p) \in {0, 1}
    BY Zenon, <1>1 DEF ListRef
  <2>3. HasFile(p) /\ ~HasFile(p)'
    BY Zenon, <1>1 DEF HasFile
  <2>4. Cardinality(Holders(p)') = Cardinality(Holders(p))
    BY Zenon, <1>2
  <2> QED BY <1>1, <2>1, <2>2, <2>3, <2>4 DEF RefInv
<1>4. UseInv(p)'
  <2>1. ref'[p] > 0 => ref[p] > 0
    BY <1>1
  <2> QED BY Zenon, <1>1, <1>2, <2>1 DEF UseInv
<1>5. FileInv(p)'
  BY Zenon, <1>1 DEF FileInv
<1>6. HwInv(p)'
  <2>1. handle'[p] # "closed"
    BY Zenon, <1>1
  <2> QED BY Zenon, <1>1, <2>1 DEF HwInv, Creating
<1> QED BY Zenon, <1>3, <1>4, <1>5, <1>6 DEF ObjInv

\* With what the put leaves alone or takes out of the IDR, every object keeps its invariant
\* and every command what it knows.
LEMMA LeftObjects ==
    ASSUME UobjInv, NEW p \in Objs, Left(p), UNCHANGED <<cmd, ucontext>>,
           CleaningBegan => CleaningBegan',
           thread["close"] # "idle" => CleaningBegan'
    PROVE  /\ ObjInv(p)'
           /\ \A d \in Cmds : On(d, p) => KnowsNew(d, cmd[d].obj)' /\ KnowsOld(d, cmd[d].obj)'
<1>1. CASE SameObj(p)
  <2>1. ObjInv(p) /\ SameUsers(p)
    BY Zenon DEF UobjInv, SameUsers
  <2>2. ObjInv(p)'
    BY Zenon, <1>1, <2>1, ObjFrame
  <2> QED BY Zenon, <1>1, <2>2, KnowsSame DEF On
<1>2. CASE Freed(p)
  <2>1. \A d \in Cmds : ~On(d, p)
    BY Zenon, <1>2, AllIdle DEF Freed, On
  <2>2. ObjInv(p)'
    BY Zenon, <1>2, FreedObject DEF Freed
  <2> QED BY Zenon, <2>1, <2>2
<1> QED BY Zenon, <1>1, <1>2 DEF Left

\* The close or the removal puts its reference to the ufile.
LEMMA Step_put_ufile ==
    ASSUME UobjInv, NEW t \in Threads, put_ufile(t)
    PROVE  UobjInv'
<1>1. /\ Types /\ ThreadInv /\ UrefInv /\ thread[t] = "put"
      /\ thread' = [thread EXCEPT ![t] = "done"] /\ PutUfile({}, ref)
      /\ UNCHANGED <<usecnt, object, context, listed, frefs, cmd, readers>>
      /\ UNCHANGED <<ucontext, retryable, ib_dev, sync, todo, writer>>
      /\ ref \in [Objs -> Int] /\ uref \in Int /\ thread \in [Threads -> ThreadPCs]
  BY Zenon DEF UobjInv, put_ufile, Step, Types
<1>2. /\ ref' \in [Objs -> Int] /\ handle' \in [Objs -> Handles] /\ uref' = uref - 1
      /\ \A p \in Objs :
             \/ handle'[p] = handle[p] /\ ref'[p] = ref[p]
             \/ /\ p \notin Fds /\ handle[p] = "stored" /\ handle'[p] = "none"
                /\ ref'[p] = ref[p] - 1 /\ uref = 1
  <2>1. PICK gone \in SUBSET Fds : gone = {}
    BY Zenon
  <2>2. PICK refs \in [Objs -> Int] : refs = ref
    BY Zenon, <1>1
  <2>3. PutUfile(gone, refs) /\ Types
    BY Zenon, <1>1, <2>1, <2>2
  <2>4. PutDone(gone, refs)
    BY Zenon, <2>3, PutEffects
  <2>5. \A p \in Objs : p \in Objs \ gone
    BY Zenon, <2>1
  <2> QED BY Zenon, <2>2, <2>4, <2>5 DEF PutDone
<1>3. /\ "close" \in Threads /\ "remove" \in Threads /\ (t = "close" \/ t = "remove")
      /\ "done" \in ThreadPCs /\ "done" \notin Cleaning /\ "put" \in Cleaning
      /\ "done" # "idle" /\ "done" # "sync" /\ "put" # "idle" /\ "put" # "sync"
  BY Zenon DEF Threads, ThreadPCs, Cleaning
<1>4. /\ thread' \in [Threads -> ThreadPCs] /\ thread'[t] = "done"
      /\ \A u \in Threads : u # t => thread'[u] = thread[u]
  BY Zenon, <1>1, <1>3
<1>5. (thread'["close"] = "idle" <=> thread["close"] = "idle") /\ CleaningBegan' /\ CleaningBegan
  BY Zenon, <1>1, <1>3, <1>4 DEF CleaningBegan
<1>6. Files' = Files
  BY Zenon, <1>2, UobjAssumption DEF Files, HasFile
<1>7. Cardinality(Files) \in Nat
  BY Zenon, UobjAssumption, FS_Subset, FS_CardinalityType DEF Files
<1>8. Has(t) = 1 /\ Has(t)' = 0 /\ \A u \in Threads : Has(u) \in {0, 1} /\ (u # t => Has(u)' = Has(u))
  BY Zenon, <1>1, <1>3, <1>4 DEF Has
<1>9. UrefInv'
  <2>1. Cardinality(Files)' = Cardinality(Files)
    BY Zenon, <1>6
  <2> QED BY <1>1, <1>2, <1>3, <1>5, <1>7, <1>8, <2>1 DEF UrefInv
<1>10. uref = 1 => thread["close"] # "idle"
  BY <1>1, <1>3, <1>7, <1>8 DEF UrefInv
<1>11. \A p \in Objs : Left(p)
  BY Zenon, <1>1, <1>2, <1>10 DEF Left, SameObj, Freed
<1>12. Types'
  <2>1. uref' \in Int
    BY <1>1, <1>2
  <2> QED BY Zenon, <1>1, <1>2, <1>4, <2>1 DEF Types
<1>13. ThreadInv'
  <2>1. thread'["close"] # "sync"
    BY Zenon, <1>1, <1>3, <1>4 DEF ThreadInv
  <2>2. \A u \in Threads : thread'[u] \in {"pass", "unlock"} <=> thread[u] \in {"pass", "unlock"}
    BY Zenon, <1>1, <1>4
  <2>3. \A u \in Threads : thread'[u] = "pass" => thread[u] = "pass"
    BY Zenon, <1>1, <1>4
  <2>4. /\ thread'["remove"] = "idle" <=> thread["remove"] = "idle"
        /\ thread'["remove"] \in {"idle", "sync"} <=> thread["remove"] \in {"idle", "sync"}
    BY Zenon, <1>1, <1>3, <1>4
  <2> QED BY Zenon, <1>1, <2>1, <2>2, <2>3, <2>4 DEF ThreadInv
<1>14. ASSUME NEW d \in Cmds, cmd[d].pc # "idle"
       PROVE  /\ thread'["close"] = thread["close"]
              /\ KnowsNew(d, cmd[d].obj)' /\ KnowsOld(d, cmd[d].obj)'
  <2>1. thread["close"] = "idle"
    BY Zenon, <1>14, AllIdle
  <2>2. PICK p \in Objs : p = cmd[d].obj
    BY Zenon, <1>14 DEF UobjInv, CmdInv
  <2>3. On(d, p) /\ Left(p)
    BY Zenon, <1>11, <1>14, <2>2 DEF On
  <2> QED BY Zenon, <1>1, <1>5, <2>1, <2>3, LeftObjects
<1>15. \A p \in Objs : ObjInv(p)'
  BY Zenon, <1>1, <1>5, <1>11, LeftObjects
<1> QED BY Zenon, <1>1, <1>9, <1>12, <1>13, <1>14, <1>15, ObjStep

\* Nobody uses an FD object whose file has no reference left.
LEMMA ReleasedFile ==
    ASSUME UobjInv, NEW o \in Fds, handle[o] = "closed", frefs[o] = 0
    PROVE  /\ \A d \in Cmds : ~On(d, o)
           /\ Cardinality(Holders(o)) = 0 /\ Cardinality(FileUsers(o)) = 0
           /\ Exclusive(o) = {} /\ Shared(o) = {} /\ usecnt[o] = 0
<1>1. o \in Objs /\ ObjInv(o) /\ Types
  BY Zenon, UobjAssumption DEF UobjInv
<1>2. FileUsers(o) \in SUBSET Cmds /\ Holders(o) \in SUBSET Cmds /\ Shared(o) \in SUBSET Cmds
  BY Zenon DEF FileUsers, Holders, Shared, Using
<1>3. Cardinality(FileUsers(o)) \in Nat /\ Cardinality(FileUsers(o)) = 0
  <2>1. Cardinality(FileUsers(o)) \in Nat
    BY Zenon, <1>2, CmdCount
  <2>2. FileInv(o)
    BY Zenon, <1>1 DEF ObjInv
  <2> QED BY <2>1, <2>2 DEF FileInv
<1>4. FileUsers(o) = {}
  BY Zenon, <1>2, <1>3, CmdCount
<1>5. ASSUME NEW d \in Cmds, On(d, o) PROVE FALSE
  <2>1. cmd[d].pc # "idle" /\ cmd[d].obj = o /\ KnowsNew(d, o) /\ KnowsOld(d, o)
    BY Zenon, <1>5 DEF UobjInv, CmdInv, On
  <2>2. cmd[d].pc \in PCs
    BY Zenon, <1>1 DEF Types, CmdStates
  <2>3. cmd[d].pc \notin {"found", "got", "oops", "locked"}
    BY Zenon, <1>4, <2>1 DEF FileUsers, Using
  <2>4. cmd[d].pc \notin {"create", "created"}
    BY Zenon, <2>1 DEF KnowsNew
  <2>5. cmd[d].pc \notin {"destroy", "destroyed"}
    BY Zenon, <2>1 DEF KnowsOld
  <2> QED BY Zenon, <2>1, <2>2, <2>3, <2>4, <2>5 DEF PCs
<1>6. Holders(o) = {} /\ Shared(o) = {}
  BY Zenon, <1>5 DEF Holders, Shared, Using, On
<1>7. Exclusive(o) = {} /\ usecnt[o] = Cardinality(Shared(o))
  BY Zenon, FdObject DEF HasFile
<1>8. Cardinality(Holders(o)) = 0 /\ Cardinality(Shared(o)) = 0
  BY Zenon, <1>2, <1>6, CmdCount
<1> QED BY Zenon, <1>3, <1>5, <1>6, <1>7, <1>8

\* The release of an FD object's file destroys the object, or leaves it to the thread that
\* destroys everything; it may put the ufile for the last time.
LEMMA Step_uverbs_uobject_fd_release ==
    ASSUME UobjInv, NEW o \in Fds, uverbs_uobject_fd_release(o)
    PROVE  UobjInv'
<1>1. PICK n \in Int : n = IF CanRead THEN ListRef(o) ELSE 0
  BY DEF ListRef
<1>2. /\ Types /\ ThreadInv /\ UrefInv /\ o \in Objs /\ ObjInv(o)
      /\ handle[o] = "closed" /\ frefs[o] = 0
      /\ object' = [object EXCEPT ![o] = @ /\ ~CanRead]
      /\ context' = [context EXCEPT ![o] = @ /\ ~CanRead]
      /\ listed' = IF CanRead THEN listed \ {o} ELSE listed
      /\ PutUfile({o}, [ref EXCEPT ![o] = @ - 1 - n])
      /\ UNCHANGED <<usecnt, frefs, cmd, readers, ucontext, retryable, ib_dev, sync, thread,
                     todo, writer>>
      /\ ref \in [Objs -> Int] /\ uref \in Int
      /\ object \in [Objs -> BOOLEAN] /\ context \in [Objs -> BOOLEAN]
  BY Zenon, <1>1, UobjAssumption DEF UobjInv, uverbs_uobject_fd_release, Types
<1>3. PICK refs \in [Objs -> Int] : refs = [ref EXCEPT ![o] = @ - 1 - n]
  <2>1. ref[o] \in Int
    BY Zenon, <1>2
  <2>2. ref[o] - 1 - n \in Int
    BY <1>1, <2>1
  <2> QED BY Zenon, <1>2, <2>2
<1>4. refs[o] = ref[o] - 1 - n /\ ref[o] \in Int /\ \A p \in Objs : p # o => refs[p] = ref[p]
  BY Zenon, <1>2, <1>3
<1>5. PICK gone \in SUBSET Fds : gone = {o}
  BY Zenon
<1>6. /\ ref' \in [Objs -> Int] /\ handle' \in [Objs -> Handles] /\ uref' = uref - 1
      /\ handle'[o] = "none" /\ ref'[o] = ref[o] - 1 - n
      /\ \A p \in Objs : p # o =>
             \/ handle'[p] = handle[p] /\ ref'[p] = ref[p]
             \/ /\ p \notin Fds /\ handle[p] = "stored" /\ handle'[p] = "none"
                /\ ref'[p] = ref[p] - 1 /\ uref = 1
  <2>1. PutUfile(gone, refs) /\ Types
    BY Zenon, <1>2, <1>3, <1>5
  <2>2. PutDone(gone, refs)
    BY Zenon, <2>1, PutEffects
  <2>3. o \in gone /\ \A p \in Objs : p # o => p \in Objs \ gone
    BY Zenon, <1>5
  <2> QED BY Zenon, <1>4, <2>2, <2>3 DEF PutDone
<1>7. /\ \A d \in Cmds : ~On(d, o)
      /\ Cardinality(Holders(o)) = 0 /\ Cardinality(FileUsers(o)) = 0
      /\ Exclusive(o) = {} /\ Shared(o) = {} /\ usecnt[o] = 0
  BY Zenon, <1>2, ReleasedFile
<1>8. /\ object' \in [Objs -> BOOLEAN] /\ context' \in [Objs -> BOOLEAN]
      /\ object'[o] = (object[o] /\ ~CanRead) /\ context'[o] = (context[o] /\ ~CanRead)
      /\ \A p \in Objs : p # o => object'[p] = object[p] /\ context'[p] = context[p]
                                  /\ (p \in listed' <=> p \in listed)
      /\ listed' \subseteq Objs
  <2>1. object' \in [Objs -> BOOLEAN] /\ context' \in [Objs -> BOOLEAN]
    BY Zenon, <1>2
  <2>2. listed' \subseteq Objs /\ \A p \in Objs : p # o => (p \in listed' <=> p \in listed)
    BY Zenon, <1>2 DEF Types
  <2>3. /\ object'[o] = (object[o] /\ ~CanRead) /\ context'[o] = (context[o] /\ ~CanRead)
        /\ \A p \in Objs : p # o => object'[p] = object[p] /\ context'[p] = context[p]
    BY Zenon, <1>2
  <2> QED BY Zenon, <2>1, <2>2, <2>3
<1>9. HasFile(o) /\ ~HasFile(o)' /\ \A p \in Fds : p # o => (HasFile(p)' <=> HasFile(p))
  BY Zenon, <1>2, <1>6, UobjAssumption DEF HasFile
<1>10. UrefInv'
  <2>1. PICK k \in Int : k = -1
    OBVIOUS
  <2>2. uref' = uref + k
    BY Zenon, <1>2, <1>6, <2>1
  <2>3. k = (IF o \in Fds /\ HasFile(o)' THEN 1 ELSE 0) - (IF o \in Fds /\ HasFile(o) THEN 1 ELSE 0)
    BY <1>9, <2>1
  <2> QED BY Zenon, <1>2, <1>9, <2>2, <2>3, UrefStep
<1>11. uref = 1 => thread["close"] # "idle"
  <2>1. Files \in SUBSET Objs /\ o \in Files
    BY Zenon, <1>9, UobjAssumption DEF Files
  <2>2. Cardinality(Files) \in Nat /\ Cardinality(Files) # 0
    BY Zenon, <2>1, UobjAssumption, FS_Subset, FS_CardinalityType, FS_EmptySet
  <2>3. Has("close") \in {0, 1} /\ Has("remove") \in {0, 1}
    BY Zenon DEF Has
  <2>4. UrefInv
    BY Zenon, <1>2
  <2> QED BY <2>2, <2>3, <2>4 DEF UrefInv
<1>12. \A p \in Objs : p # o => Left(p)
  BY Zenon, <1>2, <1>6, <1>8, <1>11 DEF Left, SameObj, Freed
<1>13. Types'
  <2>1. uref \in Int /\ uref' = uref - 1
    BY Zenon, <1>2, <1>6
  <2>2. uref' \in Int
    BY <2>1
  <2> QED BY Zenon, <1>2, <1>6, <1>8, <2>2 DEF Types
<1>14. ThreadInv'
  <2>1. writer # "none" => listed' = listed
    BY Zenon, <1>2 DEF CanRead
  <2>2. (\E t \in Threads : thread[t] = "pass") => writer # "none"
    BY Zenon, <1>2 DEF ThreadInv, Threads
  <2> QED BY Zenon, <1>2, <2>1, <2>2 DEF ThreadInv
<1>15. CleaningBegan' <=> CleaningBegan
  BY Zenon, <1>2 DEF CleaningBegan
<1>16. ObjInv(o)'
  <2>1. SameUsers(o)
    BY Zenon, <1>2 DEF SameUsers
  <2>2. /\ Holders(o)' = Holders(o) /\ Shared(o)' = Shared(o)
        /\ FileUsers(o)' = FileUsers(o) /\ Exclusive(o)' = Exclusive(o)
    BY Zenon, <1>2, <2>1, UsersFrame
  <2>3. ref[o] = ListRef(o) + 1
    <3>1. RefInv(o) /\ ListRef(o) \in {0, 1}
      BY Zenon, <1>2 DEF ObjInv, ListRef
    <3>2. HasFile(o) /\ Cardinality(Holders(o)) = 0
      BY Zenon, <1>7, <1>9
    <3> QED BY <3>1, <3>2 DEF RefInv
  <2>4. ref'[o] = ListRef(o)' /\ (CanRead => ref'[o] = 0)
    <3>1. ref'[o] = ref[o] - 1 - n /\ ListRef(o) \in {0, 1}
      BY Zenon, <1>6 DEF ListRef
    <3>2. CASE CanRead
      <4>1. n = ListRef(o) /\ ListRef(o)' = 0
        BY Zenon, <1>1, <1>2, <3>2 DEF ListRef
      <4> QED BY <2>3, <3>1, <4>1
    <3>3. CASE ~CanRead
      <4>1. n = 0 /\ ListRef(o)' = ListRef(o)
        BY Zenon, <1>1, <1>2, <3>3 DEF ListRef
      <4>2. ref'[o] = ListRef(o)'
        BY <2>3, <3>1, <4>1
      <4> QED BY Zenon, <3>3, <4>2
    <3> QED BY Zenon, <3>2, <3>3
  <2>5. RefInv(o)'
    <3>1. Cardinality(Holders(o)') = 0
      BY Zenon, <1>7, <2>2
    <3>2. ListRef(o)' \in {0, 1}
      BY Zenon DEF ListRef
    <3> QED BY <1>9, <2>4, <3>1, <3>2 DEF RefInv
  <2>6. UseInv(o)'
    <3>1. Cardinality(Shared(o)') = 0
      BY Zenon, <1>7, <2>2, CmdCount
    <3> QED BY Zenon, <1>2, <1>7, <2>2, <3>1 DEF UseInv
  <2>7. FileInv(o)'
    <3>1. Cardinality(FileUsers(o)') = 0
      BY Zenon, <1>7, <2>2
    <3>2. frefs'[o] = 0 /\ handle'[o] # "stored"
      BY Zenon, <1>2, <1>6
    <3> QED BY <3>1, <3>2 DEF FileInv
  <2>8. HwInv(o)'
    <3>1. HwInv(o) /\ ucontext' = ucontext /\ handle'[o] # "closed"
      BY Zenon, <1>2, <1>6 DEF ObjInv
    <3>2. CASE CanRead
      <4>1. ~object'[o] /\ ~context'[o]
        BY Zenon, <1>8, <3>2
      <4>2. ~(ref'[o] > 0)
        BY <2>4, <3>2
      <4> QED BY Zenon, <3>1, <4>1, <4>2 DEF HwInv
    <3>3. CASE ~CanRead
      <4>1. CleaningBegan'
        BY Zenon, <1>15, <3>3, WriterCleans
      <4>2. object'[o] = object[o] /\ context'[o] = context[o] /\ listed' = listed
        BY Zenon, <1>2, <3>3
      <4>3. \A d \in Cmds : Creating(d, o) => Creating(d, o)'
        BY Zenon, <1>2 DEF Creating
      <4> QED BY Zenon, <3>1, <4>1, <4>2, <4>3 DEF HwInv
    <3> QED BY Zenon, <3>2, <3>3
  <2> QED BY Zenon, <2>5, <2>6, <2>7, <2>8 DEF ObjInv
<1>17. \A p \in Objs : p # o => ObjInv(p)'
  <2>1. thread["close"] # "idle" => CleaningBegan'
    BY Zenon, <1>15 DEF CleaningBegan
  <2> QED BY Zenon, <1>2, <1>12, <1>15, <2>1, LeftObjects
<1>18. ASSUME NEW d \in Cmds, cmd[d].pc # "idle"
       PROVE  KnowsNew(d, cmd[d].obj)' /\ KnowsOld(d, cmd[d].obj)'
  <2>1. PICK p \in Objs : p = cmd[d].obj
    BY Zenon, <1>18 DEF UobjInv, CmdInv
  <2>2. On(d, p) /\ p # o
    BY Zenon, <1>7, <1>18, <2>1 DEF On
  <2>3. Left(p) /\ (thread["close"] # "idle" => CleaningBegan')
    BY Zenon, <1>12, <1>15, <2>2 DEF CleaningBegan
  <2> QED BY Zenon, <1>2, <1>15, <2>2, <2>3, LeftObjects
<1>19. \A p \in Objs : ObjInv(p)'
  BY Zenon, <1>16, <1>17
<1> QED BY Zenon, <1>2, <1>10, <1>13, <1>14, <1>18, <1>19, ObjStep

-----------------------------------------------------------------------------
(* The invariant is inductive.                                             *)

\* No object and no command, and the open file has the only reference to the ufile.
LEMMA UobjInvInit == Init => UobjInv
<1> SUFFICES ASSUME Init PROVE UobjInv
  BY Zenon
<1>1. /\ "close" \in Threads /\ "remove" \in Threads
      /\ thread["close"] = "idle" /\ thread["remove"] = "idle"
      /\ \A t \in Threads : thread[t] = "idle"
  BY Zenon DEF Init, Threads
<1>2. /\ \A c \in Cmds : cmd[c].pc = "idle" /\ cmd[c] \in CmdStates
      /\ cmd \in [Cmds -> CmdStates]
  BY Zenon DEF Init, Idle, CmdStates, PCs, Modes
<1>3. /\ readers = {} /\ writer = "none" /\ sync = {} /\ listed = {} /\ todo = {}
      /\ ib_dev /\ ucontext /\ ~retryable /\ uref = 1
  BY Zenon DEF Init
<1>4. \A o \in Objs : /\ ref[o] = 0 /\ usecnt[o] = 0 /\ ~object[o] /\ ~context[o]
                      /\ handle[o] = "none"
  BY Zenon DEF Init
<1>5. Types
  <2>1. /\ ref \in [Objs -> Int] /\ usecnt \in [Objs -> Int] /\ \A o \in Objs : usecnt[o] >= -1
        /\ frefs \in [Fds -> Int] /\ uref \in Int
    BY DEF Init
  <2>2. object \in [Objs -> BOOLEAN] /\ context \in [Objs -> BOOLEAN]
    BY Zenon DEF Init
  <2>3. handle \in [Objs -> Handles] /\ thread \in [Threads -> ThreadPCs]
    BY Zenon DEF Init, Handles, ThreadPCs
  <2>4. /\ listed \subseteq Objs /\ todo \subseteq Objs
        /\ readers \subseteq Cmds /\ sync \subseteq Cmds /\ writer \in Threads \cup {"none"}
    BY Zenon, <1>3
  <2> QED BY Zenon, <1>2, <2>1, <2>2, <2>3, <2>4 DEF Types
<1>6. ThreadInv
  BY Zenon, <1>1, <1>3 DEF ThreadInv, Threads
<1>7. UrefInv
  <2>1. Files = {}
    BY Zenon, <1>4, UobjAssumption DEF Files, HasFile
  <2>2. Cardinality(Files) = 0
    BY Zenon, <2>1, FS_EmptySet
  <2>3. Has("close") = 0 /\ Has("remove") = 0
    BY Zenon, <1>1 DEF Has, Cleaning
  <2> QED BY <1>1, <1>3, <2>2, <2>3 DEF UrefInv
<1>8. ASSUME NEW c \in Cmds PROVE CmdInv(c)
  BY Zenon, <1>2, <1>3 DEF CmdInv
<1>9. ASSUME NEW o \in Objs PROVE ObjInv(o)
  <2>1. Holders(o) = {} /\ FileUsers(o) = {}
    BY Zenon, <1>2 DEF Holders, FileUsers, Using
  <2>2. Cardinality(Holders(o)) = 0 /\ Cardinality(FileUsers(o)) = 0
    BY Zenon, <2>1, FS_EmptySet
  <2>3. RefInv(o)
    BY <1>3, <1>4, <2>2 DEF RefInv, ListRef, HasFile
  <2>4. UseInv(o)
    BY <1>4 DEF UseInv
  <2>5. FileInv(o)
    BY <1>4, <2>2 DEF FileInv, Init
  <2>6. HwInv(o)
    BY <1>4 DEF HwInv
  <2> QED BY Zenon, <2>3, <2>4, <2>5, <2>6 DEF ObjInv
<1> QED BY Zenon, <1>5, <1>6, <1>7, <1>8, <1>9 DEF UobjInv

\* A step that changes nothing.
LEMMA UobjInvStutter == UobjInv /\ UNCHANGED vars => UobjInv'
<1> SUFFICES ASSUME UobjInv, UNCHANGED vars PROVE UobjInv'
  BY Zenon
<1>1. /\ UNCHANGED <<objVars, cmd, readers>>
      /\ UNCHANGED <<ref, usecnt, object, context, listed, handle, frefs>>
      /\ UNCHANGED <<ucontext, retryable, ib_dev, sync, thread, todo, uref, writer>>
  BY Zenon DEF vars, objVars, fileVars
<1>2. Types' /\ ThreadInv'
  BY Zenon, <1>1 DEF UobjInv, Types, ThreadInv
<1>3. UrefInv'
  BY Zenon, <1>1, UrefFrame DEF UobjInv, HasFile
<1>4. CleaningBegan => CleaningBegan'
  BY Zenon, <1>1 DEF CleaningBegan
<1> QED BY Zenon, <1>1, <1>2, <1>3, <1>4, ThreadStep

\* Every step of a command, of user space, of the close and of the removal keeps UobjInv.
LEMMA UobjInvStep == UobjInv /\ [Next]_vars => UobjInv'
<1> SUFFICES ASSUME UobjInv, [Next]_vars PROVE UobjInv'
  BY Zenon
<1>1. ASSUME NEW c \in Cmds, Ends(c) PROVE UobjInv'
  BY Zenon, <1>1, Step_rdma_alloc_commit_uobject, Step_rdma_alloc_abort_uobject, Step_create_hw,
     Step_lookup_test, Step_lookup_lock, Step_rdma_lookup_put_uobject, Step_uobj_destroy, Step_destroy_uobject,
     Step_uobj_put_destroy DEF Ends
<1>2. ASSUME NEW t \in Threads, Cleans(t) PROVE UobjInv'
  BY Zenon, <1>2, Step_uverbs_destroy_ufile_hw, Step_next_pass, Step_ufile_destroy_ucontext,
     Step_unlock, Step_put_ufile, Step_cleanup_uobject DEF Cleans
<1>3. ASSUME NEW c \in Cmds, NEW o \in Objs, rdma_alloc_begin_uobject(c, o) PROVE UobjInv'
  BY Zenon, <1>3, Step_rdma_alloc_begin_uobject
<1>4. ASSUME NEW c \in Cmds, NEW o \in Objs, NEW mode \in {"READ", "WRITE", "DESTROY"},
             rdma_lookup_get_uobject(c, o, mode)
      PROVE  UobjInv'
  BY Zenon, <1>4, Step_rdma_lookup_get_uobject
<1>5. ASSUME NEW o \in Fds, close_fd(o) \/ uverbs_uobject_fd_release(o) PROVE UobjInv'
  BY Zenon, <1>5, Step_close_fd, Step_uverbs_uobject_fd_release
<1>6. CASE ib_uverbs_close \/ uverbs_disassociate_api_pre \/ ib_uverbs_free_hw_resources
  BY Zenon, <1>6, Step_ib_uverbs_close, Step_uverbs_disassociate_api_pre,
     Step_ib_uverbs_free_hw_resources
<1>7. CASE UNCHANGED vars
  BY Zenon, <1>7, UobjInvStutter
<1> QED BY Zenon, <1>1, <1>2, <1>3, <1>4, <1>5, <1>6, <1>7 DEF Next

\* UobjInv holds in every reachable state.
THEOREM UobjInvHolds == Spec => []UobjInv
BY UobjInvInit, UobjInvStep, PTL DEF Spec

-----------------------------------------------------------------------------
(* What it shows of the objects.                                           *)

\* What the threads are at, as a count.
LEMMA ThreadCount ==
    ASSUME NEW S \in SUBSET Threads
    PROVE  Cardinality(S) = (IF "close" \in S THEN 1 ELSE 0) + (IF "remove" \in S THEN 1 ELSE 0)
<1>1. Cardinality({}) = 0 /\ \A x : Cardinality({x}) = 1
  BY Zenon, FS_EmptySet, SingleCount
<1>2. CASE "close" \in S /\ "remove" \in S
  <2>1. S = {"close"} \cup {"remove"} /\ "remove" \notin {"close"} /\ IsFiniteSet({"close"})
    BY Zenon, <1>2, FS_Singleton DEF Threads
  <2>2. Cardinality({"close"} \cup {"remove"}) = Cardinality({"close"}) + 1
    BY Zenon, <2>1, FS_AddElement
  <2> QED BY Zenon, <1>1, <1>2, <2>1, <2>2
<1>3. CASE "close" \in S /\ "remove" \notin S
  <2>1. S = {"close"}
    BY Zenon, <1>3 DEF Threads
  <2>2. Cardinality(S) = 1
    BY Zenon, <1>1, <2>1
  <2> QED BY <1>3, <2>2
<1>4. CASE "close" \notin S /\ "remove" \in S
  <2>1. S = {"remove"}
    BY Zenon, <1>4 DEF Threads
  <2>2. Cardinality(S) = 1
    BY Zenon, <1>1, <2>1
  <2> QED BY <1>4, <2>2
<1>5. CASE "close" \notin S /\ "remove" \notin S
  <2>1. S = {}
    BY Zenon, <1>5 DEF Threads
  <2> QED BY <1>1, <1>5, <2>1
<1> QED BY Zenon, <1>2, <1>3, <1>4, <1>5

\* No count of an object, of its file or of the ufile goes below its bound: uverbs_uobject_put,
\* fput and kref_put never drop a reference that was not taken.
THEOREM TypeCorrect == Spec => []TypeOK
<1>1. UobjInv => TypeOK
  <2> SUFFICES ASSUME UobjInv PROVE TypeOK
    BY Zenon
  <2>1. Types /\ UrefInv
    BY Zenon DEF UobjInv
  <2>2. ASSUME NEW o \in Objs PROVE ref[o] \in Nat /\ (o \in Fds => frefs[o] \in Nat)
    <3>1. Holders(o) \in SUBSET Cmds /\ FileUsers(o) \in SUBSET Cmds
      BY Zenon DEF Holders, FileUsers, Using
    <3>2. Cardinality(Holders(o)) \in Nat /\ Cardinality(FileUsers(o)) \in Nat
      BY Zenon, <3>1, CmdCount
    <3>3. RefInv(o) /\ FileInv(o)
      BY Zenon DEF UobjInv, ObjInv
    <3> QED BY <3>2, <3>3 DEF RefInv, FileInv, ListRef
  <2>3. uref \in Nat
    <3>1. Cardinality(Files) \in Nat
      BY Zenon, UobjAssumption, FS_Subset, FS_CardinalityType DEF Files
    <3>2. Has("close") \in {0, 1} /\ Has("remove") \in {0, 1}
      BY Zenon DEF Has
    <3> QED BY <2>1, <3>1, <3>2 DEF UrefInv
  <2>4. /\ \A o \in Objs : usecnt[o] >= -1
        /\ listed \subseteq Objs /\ todo \subseteq Objs
        /\ writer \in Threads \cup {"none"} /\ readers \subseteq Cmds
    BY Zenon, <2>1 DEF Types
  <2> QED BY Zenon, <2>2, <2>3, <2>4, UobjAssumption DEF TypeOK
<1> QED BY <1>1, UobjInvHolds, PTL

\* usecnt is the lock that uverbs_try_lock_object describes, for any number of commands.
THEOREM UseCountsHold == Spec => []UseCounts
<1>1. UobjInv => UseCounts
  <2> SUFFICES ASSUME UobjInv, NEW o \in Objs, ref[o] > 0
               PROVE  \/ Exclusive(o) = {} /\ usecnt[o] = Cardinality(Shared(o))
                      \/ Cardinality(Exclusive(o)) = 1 /\ Shared(o) = {} /\ usecnt[o] = -1
                      \/ /\ Exclusive(o) = {} /\ Shared(o) = {} /\ handle[o] = "none"
                         /\ usecnt[o] = -1
    BY Zenon DEF UseCounts
  <2>1. UseInv(o)
    BY Zenon DEF UobjInv, ObjInv
  <2>2. (\E c \in Cmds : Exclusive(o) = {c}) => Cardinality(Exclusive(o)) = 1
    BY Zenon, SingleCount
  <2> QED BY Zenon, <2>1, <2>2 DEF UseInv
<1> QED BY <1>1, UobjInvHolds, PTL

\* The krefs of an object and of the ufile are exactly the references there are.
THEOREM KrefsHold == Spec => []Krefs
<1>1. UobjInv => Krefs
  <2> SUFFICES ASSUME UobjInv PROVE Krefs
    BY Zenon
  <2>1. ASSUME NEW o \in Objs
        PROVE  ref[o] = ListRef(o)
                        + (IF handle[o] \in {"stored", "closed"} THEN 1 ELSE 0)
                        + Cardinality(Using(o, {"create", "created", "found", "got", "locked",
                                                "destroy", "destroyed", "oops"}))
    <3>1. RefInv(o)
      BY Zenon DEF UobjInv, ObjInv
    <3>2. PCs \ {"idle"} = {"create", "created", "found", "got", "locked", "destroy",
                          "destroyed", "oops"}
      BY Zenon DEF PCs
    <3> QED BY Zenon, <3>1, <3>2 DEF RefInv, Holders, HasFile
  <2>2. PICK S \in SUBSET Threads : S = {t \in Threads : thread[t] \in Cleaning}
    BY Zenon
  <2>3. Cardinality(S) = Has("close") + Has("remove")
    <3>1. /\ "close" \in S <=> thread["close"] \in Cleaning
          /\ "remove" \in S <=> thread["remove"] \in Cleaning
      BY Zenon, <2>2 DEF Threads
    <3> QED BY Zenon, <3>1, ThreadCount DEF Has
  <2>4. uref = Cardinality({t \in Threads : thread[t] \in {"lock", "pass", "unlock", "put"}})
               + (IF thread["close"] = "idle" THEN 1 ELSE 0)
               + Cardinality({o \in Fds : handle[o] \in {"stored", "closed"}})
    <3>1. UrefInv
      BY Zenon DEF UobjInv
    <3> QED BY Zenon, <2>2, <2>3, <3>1 DEF UrefInv, Files, HasFile, Cleaning
  <2> QED BY Zenon, <2>1, <2>4 DEF Krefs
<1> QED BY <1>1, UobjInvHolds, PTL

\* A command that has locked an object finds its HW object and its ucontext, one that has
\* looked up an FD object and been let past ib_dev finds the file, nothing outlives the
\* ucontext, and the fput of lookup_put_fd_uobject misses its file only in a lookup that is
\* refused after the removal has begun to destroy everything.
THEOREM ObjectAlwaysThere == Spec => []ObjectThere
<1>1. UobjInv => ObjectThere
  <2> SUFFICES ASSUME UobjInv PROVE ObjectThere
    BY Zenon
  <2>1. ASSUME NEW o \in Objs, NEW c \in Using(o, {"locked"}) PROVE object[o] /\ context[o]
    <3>1. c \in Cmds /\ cmd[c].obj = o /\ cmd[c].pc = "locked"
      BY Zenon, <2>1 DEF Using
    <3>2. KnowsOld(c, o)
      BY Zenon, <3>1 DEF UobjInv, CmdInv
    <3> QED BY Zenon, <3>1, <3>2 DEF KnowsOld
  <2>2. ASSUME NEW o \in Fds, NEW c \in Using(o, {"got"}) PROVE object[o]
    <3>1. c \in Cmds /\ cmd[c].obj = o /\ cmd[c].pc = "got"
      BY Zenon, <2>2 DEF Using
    <3>2. KnowsOld(c, o)
      BY Zenon, <3>1 DEF UobjInv, CmdInv
    <3> QED BY Zenon, <3>1, <3>2 DEF KnowsOld
  <2>3. ASSUME ~ucontext, NEW o \in Objs PROVE ~object[o] /\ ~context[o]
    BY Zenon, <2>3 DEF UobjInv, ObjInv, HwInv
  <2>4. ASSUME NEW o \in Objs, NEW c \in Using(o, {"oops"})
        PROVE  /\ o \in Fds /\ ~object[o]
               /\ thread["remove"] \in {"lock", "pass", "unlock", "put", "done"}
    <3>1. c \in Cmds /\ cmd[c].obj = o /\ cmd[c].pc = "oops"
      BY Zenon, <2>4 DEF Using
    <3>2. KnowsOld(c, o) /\ thread["close"] = "idle"
      BY Zenon, <3>1 DEF UobjInv, CmdInv
    <3>3. o \in Fds /\ ~object[o] /\ HasFile(o)
      BY Zenon, <3>1, <3>2 DEF KnowsOld
    <3>4. thread["remove"] \notin {"idle", "sync"}
      BY Zenon, <3>2, <3>3, FdObject DEF CleaningBegan
    <3> QED BY Zenon, <3>3, <3>4 DEF UobjInv, Types, Threads, ThreadPCs, Cleaning
  <2> QED BY Zenon, <2>1, <2>2, <2>3, <2>4 DEF ObjectThere
<1> QED BY <1>1, UobjInvHolds, PTL

\* Whoever destroys everything meets neither a locked object nor a command that creates or
\* destroys one, and the release of an FD object's file always gets the object's lock.
THEOREM CleanupAlwaysAlone == Spec => []CleanupAlone
<1>1. UobjInv => CleanupAlone
  <2> SUFFICES ASSUME UobjInv PROVE CleanupAlone
    BY Zenon
  <2>1. writer # "none" => readers = {} /\ \A o \in todo : usecnt[o] = 0 /\ o \in listed
    BY Zenon DEF UobjInv, ThreadInv
  <2>2. \A o \in Fds : handle[o] = "closed" /\ frefs[o] = 0 => usecnt[o] = 0
    BY Zenon, ReleasedFile
  <2> QED BY Zenon, <2>1, <2>2 DEF CleanupAlone
<1> QED BY <1>1, UobjInvHolds, PTL

=============================================================================
