--------------------------- MODULE SessionContract ---------------------------
(***************************************************************************)
(* What CServer promises the content about a session id, as the header     *)
(* NetServer.h describes OnAccept, OnMessage and OnRelease: callbacks of    *)
(* one session never overlap, they lie between its OnAccept and the end of  *)
(* the session, and OnRelease comes once, after the end.                    *)
(***************************************************************************)
EXTENDS Integers

CONSTANT MaxSid

Sids == 1 .. MaxSid

VARIABLES app,      \* what the content was told: "none", "open", "released"
          running,  \* ids with OnAccept or OnMessage running
          ended     \* ids the library has given up

vars == <<app, running, ended>>

Init == /\ app = [s \in Sids |-> "none"]
        /\ running = {} /\ ended = {}

OnAccept(s) ==
    /\ app[s] = "none" /\ s \notin ended
    /\ app' = [app EXCEPT ![s] = "open"]
    /\ running' = running \cup {s}
    /\ UNCHANGED ended

OnMessage(s) ==
    /\ app[s] = "open" /\ s \notin ended /\ s \notin running
    /\ running' = running \cup {s}
    /\ UNCHANGED <<app, ended>>

CallbackReturns(s) ==
    /\ s \in running
    /\ running' = running \ {s}
    /\ UNCHANGED <<app, ended>>

\* A session may end without its OnAccept: registration on the port failed.
End(s) ==
    /\ s \notin ended /\ s \notin running
    /\ ended' = ended \cup {s}
    /\ UNCHANGED <<app, running>>

OnRelease(s) ==
    /\ s \in ended /\ app[s] # "released"
    /\ app' = [app EXCEPT ![s] = "released"]
    /\ UNCHANGED <<running, ended>>

Next == \E s \in Sids :
            \/ OnAccept(s) \/ OnMessage(s) \/ CallbackReturns(s)
            \/ End(s) \/ OnRelease(s)

Spec == Init /\ [][Next]_vars
=============================================================================
