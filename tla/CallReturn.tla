----------------------------- MODULE CallReturn -----------------------------
(***************************************************************************)
(* What an intercepted program must still be able to rely on: a call        *)
(* remembers the site it was made from, and the matching return resumes at  *)
(* exactly that site.  The stubs HeatNG writes around an intercepted        *)
(* function take the return address off the machine stack and put it back   *)
(* later; InterceptStubs shows that this cannot be noticed.                 *)
(***************************************************************************)
EXTENDS Naturals, Sequences

CONSTANTS Threads,   \* threads of the application under test
          Sites,     \* return addresses: the places calls are made from
          NoSite     \* "has not returned from a call yet"

VARIABLES callers,   \* callers[t]: the sites of t's pending calls, oldest first
          resumed    \* resumed[t]: the site t's last return went to

vars == <<callers, resumed>>

Init == /\ callers = [t \in Threads |-> <<>>]
        /\ resumed = [t \in Threads |-> NoSite]

Call(t, s) == /\ callers' = [callers EXCEPT ![t] = Append(@, s)]
              /\ UNCHANGED resumed

Return(t) == /\ callers[t] # <<>>
             /\ resumed' = [resumed EXCEPT ![t] = callers[t][Len(callers[t])]]
             /\ callers' = [callers EXCEPT ![t] = SubSeq(@, 1, Len(@) - 1)]

Next == \E t \in Threads : Return(t) \/ \E s \in Sites : Call(t, s)

Spec == Init /\ [][Next]_vars
=============================================================================
