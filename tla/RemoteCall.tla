----------------------------- MODULE RemoteCall -----------------------------
(***************************************************************************)
(* What the client of an injected HeatNG server counts on: it has one       *)
(* command outstanding at a time, the server executes a command at most     *)
(* once, and the answer is the status of that very execution.  Only when    *)
(* the connection is lost is the answer worth nothing.                      *)
(***************************************************************************)
CONSTANTS Commands,   \* what can be asked of the server
          NoCommand   \* the client is not waiting for an answer

VARIABLES pending,    \* the command the client waits for
          outcome,    \* "none", or the status of executing it
          answer,     \* what the client was last told
          connected   \* client and server are both there

vars == <<pending, outcome, answer, connected>>

Status == {"ok", "failed"}

Init == /\ pending = NoCommand
        /\ outcome = "none"
        /\ answer = "none"
        /\ connected = TRUE

Invoke(c) == /\ pending = NoCommand
             /\ pending' = c
             /\ UNCHANGED <<outcome, answer, connected>>

Execute(s) == /\ pending # NoCommand
              /\ outcome = "none"
              /\ connected
              /\ outcome' = s
              /\ UNCHANGED <<pending, answer, connected>>

Answer == /\ outcome # "none"
          /\ answer' = outcome
          /\ pending' = NoCommand
          /\ outcome' = "none"
          /\ UNCHANGED connected

\* Either end goes; if it is the client nobody waits any more.
Disconnect == /\ connected' = FALSE
              /\ outcome' = "none"
              /\ pending' \in {pending, NoCommand}
              /\ UNCHANGED answer

Abandon(s) == /\ pending # NoCommand
              /\ ~connected
              /\ answer' = s
              /\ pending' = NoCommand
              /\ UNCHANGED <<outcome, connected>>

Next == \/ \E c \in Commands : Invoke(c)
        \/ \E s \in Status : Execute(s) \/ Abandon(s)
        \/ Answer
        \/ Disconnect

Spec == Init /\ [][Next]_vars
=============================================================================
