---------------------------- MODULE CmdContract ----------------------------
(***************************************************************************)
(* What the issuer of a firmware command is promised by cmd_exec,          *)
(* mlx5_cmd_exec_cb and mlx5_cmd_comp_handler (mlx5/core/cmd.c): a command *)
(* is refused outright, or it is answered once and for all, and an answer  *)
(* that says "ok" is about a command the firmware has executed.            *)
(***************************************************************************)
CONSTANT Cmds
VARIABLES
    st,         \* "new", "issued", or the answer the issuer got
    executed    \* commands the firmware has finished

Refusals == {"internal", "nomem"}
Answers == {"ok", "timeout", "again", "canceled", "internal", "aborted"}

Init == st = [c \in Cmds |-> "new"] /\ executed = {}

Issue(c) ==
    /\ st[c] = "new"
    /\ st' = [st EXCEPT ![c] = "issued"]
    /\ UNCHANGED executed

Refuse(c) ==
    /\ st[c] = "new"
    /\ \E r \in Refusals : st' = [st EXCEPT ![c] = r]
    /\ UNCHANGED executed

\* The firmware may finish a command long after its issuer gave up on it.
Execute(c) ==
    /\ st[c] # "new"
    /\ executed' = executed \cup {c}
    /\ UNCHANGED st

Answer(c) ==
    /\ st[c] = "issued"
    /\ \E r \in Answers :
          /\ r = "ok" => c \in executed
          /\ st' = [st EXCEPT ![c] = r]
    /\ UNCHANGED executed

Next == \E c \in Cmds : Issue(c) \/ Refuse(c) \/ Execute(c) \/ Answer(c)

Spec == Init /\ [][Next]_<<st, executed>>
=============================================================================
