----------------------------- MODULE RemoteCall -----------------------------
(***************************************************************************)
(* What the command queue promises the tasks that use it: a call of the    *)
(* master is served once, by the loop, and returns afterwards, or it is    *)
(* refused and has no effect; and every call ends.  CommandQueue           *)
(* implements this.                                                        *)
(***************************************************************************)
CONSTANTS Clients, Commands, Effect(_)

VARIABLES
  status,     \* of each client: "idle", "called" or "served"
  command,    \* what each client called for last
  output      \* what the commands that were served have left

vars == <<status, command, output>>

Init ==
  /\ status = [c \in Clients |-> "idle"]
  /\ command \in [Clients -> Commands]
  /\ output = FALSE

Call(c, cmd) ==
  /\ status[c] = "idle"
  /\ status' = [status EXCEPT ![c] = "called"]
  /\ command' = [command EXCEPT ![c] = cmd]
  /\ UNCHANGED output

Serve(c) ==
  /\ status[c] = "called"
  /\ status' = [status EXCEPT ![c] = "served"]
  /\ output' = Effect(command[c])
  /\ UNCHANGED command

Refuse(c) ==
  /\ status[c] = "called"
  /\ status' = [status EXCEPT ![c] = "idle"]
  /\ UNCHANGED <<command, output>>

Return(c) ==
  /\ status[c] = "served"
  /\ status' = [status EXCEPT ![c] = "idle"]
  /\ UNCHANGED <<command, output>>

\* The loop runs a command of its own.
Direct(cmd) ==
  /\ output' = Effect(cmd)
  /\ UNCHANGED <<status, command>>

Next ==
  \/ \E c \in Clients, cmd \in Commands : Call(c, cmd)
  \/ \E c \in Clients : Serve(c) \/ Refuse(c) \/ Return(c)
  \/ \E cmd \in Commands : Direct(cmd)

Safety == Init /\ [][Next]_vars

Spec ==
  /\ Safety
  /\ \A c \in Clients : WF_vars(Serve(c) \/ Refuse(c)) /\ WF_vars(Return(c))

=============================================================================
