--------------------------- MODULE Continuations ---------------------------
(***************************************************************************)
(* continuations.service.ts: a link that carries a seal from one browser   *)
(* to another.  A request is cut at its awaits: it prunes, then creates a  *)
(* row; or it prunes, reads the row, claims it with a conditional update,  *)
(* and replies.  Requests interleave, time passes between the steps, and a *)
(* request may be lost at any of them.                                     *)
(***************************************************************************)
EXTENDS Naturals

CONSTANTS
    Tokens,     \* link tokens, drawn at random: never drawn twice
    Requests,   \* requests to create or to open a link
    TTL,        \* lifetime of a link (20 minutes)
    MaxTime,    \* bound on the clock
    Never       \* no deadline, no token, no row

ASSUME ContinuationAssumption ==
    /\ TTL \in Nat \ {0} /\ MaxTime \in Nat
    /\ Never \notin Nat \cup Tokens
    /\ Never \notin [expiresAt : Nat, consumed : BOOLEAN]

VARIABLES
    now,      \* Date.now()
    row,      \* the continuation table by token hash
    deadline, \* expiresAt as told to the creator of the link
    req       \* where each request is

vars == <<now, row, deadline, req>>

Row == [expiresAt : Nat, consumed : BOOLEAN]

Outcomes == {"none", "created", "payload", "not_found", "used", "expired", "lost"}

Request == [pc : {"idle", "create", "prune", "read", "claim", "reply", "done"},
            token : Tokens \cup {Never}, expiresAt : Nat, won : BOOLEAN,
            outcome : Outcomes]

Fresh == [pc |-> "idle", token |-> Never, expiresAt |-> 0, won |-> FALSE, outcome |-> "none"]

(* Shape of the table and of the requests. *)
TypeOK ==
    /\ now \in 0 .. MaxTime
    /\ row \in [Tokens -> Row \cup {Never}]
    /\ deadline \in [Tokens -> Nat \cup {Never}]
    /\ req \in [Requests -> Request]

Init ==
    /\ now = 0
    /\ row = [t \in Tokens |-> Never]
    /\ deadline = [t \in Tokens |-> Never]
    /\ req = [r \in Requests |-> Fresh]

Tick == now < MaxTime /\ now' = now + 1 /\ UNCHANGED <<row, deadline, req>>

-----------------------------------------------------------------------------

(* Mutant: prune also drops links nobody has opened. *)
PrunedAll(rows) == [t \in Tokens |-> Never]

(* deleteMany of what has expired or was consumed. *)
Pruned(rows) ==
    [t \in Tokens |->
        IF rows[t] # Never /\ (rows[t].expiresAt <= now \/ rows[t].consumed)
          THEN Never ELSE rows[t]]

Finish(r, outcome) ==
    req' = [req EXCEPT ![r].pc = "done", ![r].outcome = outcome]

(* create: the deadline is computed after the prune, before the insertion. *)
CreatePrune(r, t) ==
    /\ req[r].pc = "idle"
    /\ row[t] = Never /\ deadline[t] = Never
    /\ \A q \in Requests : req[q].token # t
    /\ row' = Pruned(row)
    /\ req' = [req EXCEPT ![r] = [Fresh EXCEPT !.pc = "create", !.token = t,
                                    !.expiresAt = now + TTL]]
    /\ UNCHANGED <<now, deadline>>

CreateRow(r) ==
    LET t == req[r].token
    IN  /\ req[r].pc = "create"
        /\ row' = [row EXCEPT ![t] = [expiresAt |-> req[r].expiresAt, consumed |-> FALSE]]
        /\ deadline' = [deadline EXCEPT ![t] = req[r].expiresAt]
        /\ Finish(r, "created")
        /\ UNCHANGED now

(* consume *)
ConsumePrune(r, t) ==
    /\ req[r].pc = "idle"
    /\ deadline[t] # Never
    /\ row' = Pruned(row)
    /\ req' = [req EXCEPT ![r] = [Fresh EXCEPT !.pc = "read", !.token = t]]
    /\ UNCHANGED <<now, deadline>>

(* The first check of the row read that fails, or None. *)
ReadError(stored) ==
    CASE stored = Never          -> "not_found"
      [] stored.consumed         -> "used"
      [] stored.expiresAt <= now -> "expired"
      [] OTHER                   -> "none"

ConsumeRead(r) ==
    LET error == ReadError(row[req[r].token])
    IN  /\ req[r].pc = "read"
        /\ IF error = "none"
             THEN req' = [req EXCEPT ![r].pc = "claim"]
             ELSE Finish(r, error)
        /\ UNCHANGED <<now, row, deadline>>

(* Mutant: the update is not conditional on what the row is by now. *)
StillThere(stored) == stored # Never

(* The where clause of updateMany. *)
Claimable(stored) == stored # Never /\ ~stored.consumed /\ stored.expiresAt > now

ConsumeClaim(r) ==
    LET t == req[r].token
    IN  /\ req[r].pc = "claim"
        /\ IF Claimable(row[t])
             THEN /\ row' = [row EXCEPT ![t].consumed = TRUE]
                  /\ req' = [req EXCEPT ![r].pc = "reply", ![r].won = TRUE]
             ELSE Finish(r, "used") /\ UNCHANGED row
        /\ UNCHANGED <<now, deadline>>

Reply(r) ==
    /\ req[r].pc = "reply"
    /\ Finish(r, "payload")
    /\ UNCHANGED <<now, row, deadline>>

(* The database or the connection fails, or the process stops. *)
Lose(r) ==
    /\ req[r].pc \notin {"idle", "done"}
    /\ Finish(r, "lost")
    /\ UNCHANGED <<now, row, deadline>>

Next ==
    \/ Tick
    \/ \E r \in Requests, t \in Tokens : CreatePrune(r, t) \/ ConsumePrune(r, t)
    \/ \E r \in Requests : \/ CreateRow(r) \/ ConsumeRead(r) \/ ConsumeClaim(r)
                           \/ Reply(r) \/ Lose(r)

Spec == Init /\ [][Next]_vars

-----------------------------------------------------------------------------

(***************************************************************************)
(* A link is refused only when it is spent: a request that is told         *)
(* not_found, used or expired asked for a link that somebody claimed or    *)
(* whose time is over, whatever the pruning of other requests deleted      *)
(* between its steps (continuations.service.ts:88-118).                    *)
(***************************************************************************)
RefusedOnlyWhenSpent ==
    \A r \in Requests :
        req[r].outcome \in {"not_found", "used", "expired"} =>
            \/ now >= deadline[req[r].token]
            \/ \E q \in Requests : req[q].won /\ req[q].token = req[r].token

(***************************************************************************)
(* The table and its requests implement a link that is taken once, before  *)
(* its deadline: two browsers that race for it, with requests that prune   *)
(* in between, do not both get the seal.                                   *)
(***************************************************************************)
Link == INSTANCE OneShotLink WITH
            clock <- now,
            taken <- {[request |-> r, token |-> req[r].token] :
                         r \in {q \in Requests : req[q].won}}

ImplementsOneShotLink == Link!LinkSpec
=============================================================================
