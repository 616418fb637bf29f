---------------------------- MODULE OneShotLink ----------------------------
(***************************************************************************)
(* What a continuation link promises: once published it can be taken by    *)
(* one request, before its deadline, and never again.                      *)
(***************************************************************************)
EXTENDS Naturals

CONSTANTS Tokens, Requests, Never

VARIABLES clock,    \* the time of the database and of the API
          deadline, \* when a published link expires; Never: not published
          taken     \* which request took which link

linkVars == <<clock, deadline, taken>>

LinkInit == clock = 0 /\ deadline = [t \in Tokens |-> Never] /\ taken = {}

Pass == clock' = clock + 1 /\ UNCHANGED <<deadline, taken>>

Publish(t) ==
    /\ deadline[t] = Never
    /\ deadline'[t] \in Nat
    /\ deadline' = [deadline EXCEPT ![t] = deadline'[t]]
    /\ UNCHANGED <<clock, taken>>

Take(r, t) ==
    /\ deadline[t] # Never /\ clock < deadline[t]
    /\ \A other \in taken : other.token # t
    /\ taken' = taken \cup {[request |-> r, token |-> t]}
    /\ UNCHANGED <<clock, deadline>>

LinkNext ==
    \/ Pass
    \/ \E t \in Tokens : Publish(t)
    \/ \E r \in Requests, t \in Tokens : Take(r, t)

LinkSpec == LinkInit /\ [][LinkNext]_linkVars
=============================================================================
