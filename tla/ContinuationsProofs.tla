-------------------------- MODULE ContinuationsProofs --------------------------
(***************************************************************************)
(* One seal for each link, for any number of links, requests and instants. *)
(*                                                                         *)
(* The table forgets: a pruned row no longer says whether it was consumed  *)
(* or has expired.  The invariant therefore ties a missing or consumed row *)
(* of a published link to the request that won it or to its deadline       *)
(* (GoneOnlyWhenSpent, WinnersTookRows), and keeps the tokens of creations *)
(* under way apart (CreatesApart).                                         *)
(***************************************************************************)
EXTENDS Continuations, TLAPS

Won(t) == \E q \in Requests : req[q].won /\ req[q].token = t

Spent(t) == now >= deadline[t] \/ Won(t)

RowsAsPublished == \A t \in Tokens : row[t] # Never => deadline[t] = row[t].expiresAt

GoneOnlyWhenSpent ==
    \A t \in Tokens :
        /\ row[t] = Never /\ deadline[t] # Never => Spent(t)
        /\ row[t] # Never /\ row[t].consumed => Won(t)

WinnersTookRows ==
    \A r \in Requests :
        req[r].won /\ row[req[r].token] # Never => row[req[r].token].consumed

CreatesApart ==
    \A r \in Requests : req[r].pc = "create" =>
        /\ req[r].token \in Tokens /\ deadline[req[r].token] = Never
        /\ \A q \in Requests \ {r} : req[q].token # req[r].token

Known ==
    \A r \in Requests :
        /\ req[r].pc = "idle" => ~req[r].won
        /\ \/ req[r].pc \in {"read", "claim", "reply"} \/ req[r].won
           \/ req[r].outcome \in {"not_found", "used", "expired"}
           => req[r].token \in Tokens /\ deadline[req[r].token] # Never

LinkInv ==
    /\ TypeOK /\ RowsAsPublished /\ GoneOnlyWhenSpent /\ WinnersTookRows
    /\ CreatesApart /\ Known /\ RefusedOnlyWhenSpent

LEMMA LinkStart == Init => LinkInv
  BY ContinuationAssumption
     DEF Init, LinkInv, TypeOK, RowsAsPublished, GoneOnlyWhenSpent, WinnersTookRows,
         CreatesApart, Known, RefusedOnlyWhenSpent, Fresh, Request, Outcomes

-----------------------------------------------------------------------------
(* Time passes: what was spent stays spent. *)
LEMMA TickKeeps == ASSUME LinkInv, Tick PROVE LinkInv'
  <1> USE ContinuationAssumption DEF LinkInv, TypeOK, Tick
  <1>1. now' = now + 1 /\ now \in Nat /\ now' \in 0 .. MaxTime /\ UNCHANGED <<row, deadline, req>>
    OBVIOUS
  <1>2. \A t \in Tokens : deadline[t] # Never /\ Spent(t) => Spent(t)'
    BY <1>1 DEF Spent, Won
  <1>3. RefusedOnlyWhenSpent'
    BY <1>1, <1>2 DEF RefusedOnlyWhenSpent, Known, Spent, Won
  <1>4. QED
    BY <1>1, <1>2, <1>3
       DEF RowsAsPublished, GoneOnlyWhenSpent, WinnersTookRows, CreatesApart, Known, Won

(* What a prune leaves of a row, and what the deleted rows were. *)
LEMMA Prunes ==
    ASSUME LinkInv, row' = Pruned(row), UNCHANGED <<now, deadline>>,
           \A r \in Requests : req[r].won => req'[r].won /\ req'[r].token = req[r].token,
           \A r \in Requests : req'[r].won => req[r].won /\ req'[r].token = req[r].token
    PROVE  /\ row' \in [Tokens -> Row \cup {Never}]
           /\ RowsAsPublished' /\ GoneOnlyWhenSpent' /\ WinnersTookRows'
           /\ \A t \in Tokens : Spent(t) => Spent(t)'
  <1> USE DEF LinkInv, TypeOK
  <1>1. \A t \in Tokens : row'[t] \in {row[t], Never}
    BY DEF Pruned
  <1>2. \A t \in Tokens : Won(t) => Won(t)'
    BY DEF Won
  <1>3. \A t \in Tokens : Spent(t) => Spent(t)'
    BY <1>2 DEF Spent
  <1>4. row' \in [Tokens -> Row \cup {Never}]
    BY DEF Pruned
  <1>5. \A t \in Tokens : row[t] # Never /\ row'[t] = Never => Spent(t)
    <2> SUFFICES ASSUME NEW t \in Tokens, row[t] # Never, row'[t] = Never PROVE Spent(t)
      OBVIOUS
    <2>1. row[t].expiresAt <= now \/ row[t].consumed
      BY DEF Pruned
    <2>2. CASE row[t].expiresAt <= now
      BY <2>2, ContinuationAssumption DEF RowsAsPublished, Spent, Row
    <2>3. CASE row[t].consumed
      BY <2>3 DEF GoneOnlyWhenSpent, Spent
    <2>4. QED
      BY <2>1, <2>2, <2>3
  <1>6. GoneOnlyWhenSpent'
    BY <1>1, <1>2, <1>3, <1>5 DEF GoneOnlyWhenSpent
  <1>7. RowsAsPublished'
    BY <1>1 DEF RowsAsPublished
  <1>8. WinnersTookRows'
    <2> SUFFICES ASSUME NEW r \in Requests, req'[r].won, row'[req'[r].token] # Never
                 PROVE  row'[req'[r].token].consumed
      BY DEF WinnersTookRows
    <2>1. req[r].won /\ req'[r].token = req[r].token /\ req[r].token \in Tokens
      BY DEF Known
    <2>2. QED
      BY <1>1, <2>1 DEF WinnersTookRows
  <1>9. QED
    BY <1>3, <1>4, <1>6, <1>7, <1>8

LEMMA Made ==
    ASSUME NEW t \in Tokens, NEW n \in Nat
    PROVE  LET made == [Fresh EXCEPT !.pc = "create", !.token = t, !.expiresAt = n]
           IN  /\ made \in Request /\ made.pc = "create" /\ made.token = t /\ ~made.won
               /\ made.outcome = "none"
  BY DEF Fresh, Request, Outcomes

LEMMA CreatePruneKeeps ==
    ASSUME LinkInv, NEW r \in Requests, NEW t \in Tokens, CreatePrune(r, t)
    PROVE  LinkInv'
  <1> USE DEF LinkInv, TypeOK, CreatePrune
  <1> DEFINE made == [Fresh EXCEPT !.pc = "create", !.token = t, !.expiresAt = now + TTL]
  <1>1. /\ made \in Request /\ made.pc = "create" /\ made.token = t /\ ~made.won
        /\ made.outcome = "none"
    <2>1. now + TTL \in Nat
      BY ContinuationAssumption
    <2>2. QED
      BY <2>1, Made
  <1>2. req' = [req EXCEPT ![r] = made] /\ req[r].pc = "idle"
    OBVIOUS
  <1> HIDE DEF made
  <1>3. req'[r] = made /\ \A q \in Requests \ {r} : req'[q] = req[q]
    BY <1>2
  <1>4. req' \in [Requests -> Request]
    BY <1>1, <1>2
  <1>5. \A q \in Requests : (req[q].won <=> req'[q].won) /\ (req[q].won => req'[q].token = req[q].token)
    BY <1>1, <1>2, <1>3 DEF Known
  <1>6. /\ row' \in [Tokens -> Row \cup {Never}]
        /\ RowsAsPublished' /\ GoneOnlyWhenSpent' /\ WinnersTookRows'
        /\ \A u \in Tokens : Spent(u) => Spent(u)'
    BY <1>5, Prunes
  <1>7. CreatesApart'
    BY <1>1, <1>3 DEF CreatesApart
  <1>8. Known'
    BY <1>1, <1>3 DEF Known
  <1>9. RefusedOnlyWhenSpent'
    <2> SUFFICES ASSUME NEW q \in Requests,
                        req'[q].outcome \in {"not_found", "used", "expired"}
                 PROVE  Spent(req[q].token)'
      BY DEF RefusedOnlyWhenSpent, Spent, Won
    <2>1. q # r /\ req'[q] = req[q]
      BY <1>1, <1>3
    <2>2. PICK u \in Tokens : u = req[q].token
      BY <2>1 DEF Known
    <2>3. Spent(u)
      BY <2>1, <2>2 DEF RefusedOnlyWhenSpent, Spent, Won
    <2>4. Spent(u)'
      BY <1>6, <2>3
    <2>5. QED
      BY <2>1, <2>2, <2>4 DEF Spent, Won
  <1>10. QED
    BY <1>4, <1>6, <1>7, <1>8, <1>9

LEMMA ConsumePruneKeeps ==
    ASSUME LinkInv, NEW r \in Requests, NEW t \in Tokens, ConsumePrune(r, t)
    PROVE  LinkInv'
  <1> USE DEF LinkInv, TypeOK, ConsumePrune
  <1> DEFINE made == [Fresh EXCEPT !.pc = "read", !.token = t]
  <1>1. /\ made \in Request /\ made.pc = "read" /\ made.token = t /\ ~made.won
        /\ made.outcome = "none"
    BY ContinuationAssumption DEF Fresh, Request, Outcomes
  <1>2. req' = [req EXCEPT ![r] = made] /\ req[r].pc = "idle"
    OBVIOUS
  <1> HIDE DEF made
  <1>3. req'[r] = made /\ \A q \in Requests \ {r} : req'[q] = req[q]
    BY <1>2
  <1>4. req' \in [Requests -> Request]
    BY <1>1, <1>2
  <1>5. \A q \in Requests : (req[q].won <=> req'[q].won) /\ (req[q].won => req'[q].token = req[q].token)
    BY <1>1, <1>2, <1>3 DEF Known
  <1>6. /\ row' \in [Tokens -> Row \cup {Never}]
        /\ RowsAsPublished' /\ GoneOnlyWhenSpent' /\ WinnersTookRows'
        /\ \A u \in Tokens : Spent(u) => Spent(u)'
    BY <1>5, Prunes
  <1>7. CreatesApart'
    BY <1>1, <1>3 DEF CreatesApart
  <1>8. Known'
    BY <1>1, <1>3 DEF Known
  <1>9. RefusedOnlyWhenSpent'
    <2> SUFFICES ASSUME NEW q \in Requests,
                        req'[q].outcome \in {"not_found", "used", "expired"}
                 PROVE  Spent(req[q].token)'
      BY DEF RefusedOnlyWhenSpent, Spent, Won
    <2>1. q # r /\ req'[q] = req[q]
      BY <1>1, <1>3
    <2>2. PICK u \in Tokens : u = req[q].token
      BY <2>1 DEF Known
    <2>3. Spent(u)
      BY <2>1, <2>2 DEF RefusedOnlyWhenSpent, Spent, Won
    <2>4. Spent(u)'
      BY <1>6, <2>3
    <2>5. QED
      BY <2>1, <2>2, <2>4 DEF Spent, Won
  <1>10. QED
    BY <1>4, <1>6, <1>7, <1>8, <1>9

-----------------------------------------------------------------------------
(* A request that ends: with a refusal of a link that is spent, or not.    *)
LEMMA FinishKeeps ==
    ASSUME LinkInv, NEW r \in Requests, NEW outcome \in Outcomes,
           Finish(r, outcome), UNCHANGED <<now, row, deadline>>,
           req[r].pc # "idle",
           outcome \in {"not_found", "used", "expired"} =>
               /\ req[r].token \in Tokens /\ deadline[req[r].token] # Never
               /\ Spent(req[r].token)
    PROVE  LinkInv'
  <1> USE DEF LinkInv, TypeOK
  <1>1. /\ req' \in [Requests -> Request]
        /\ req'[r].pc = "done" /\ req'[r].outcome = outcome
        /\ \A q \in Requests : req'[q].won = req[q].won /\ req'[q].token = req[q].token
        /\ \A q \in Requests \ {r} : req'[q] = req[q]
    BY DEF Finish, Request
  <1>2. \A t \in Tokens : (Won(t) <=> Won(t)') /\ (Spent(t) <=> Spent(t)')
    BY <1>1 DEF Won, Spent
  <1>3. GoneOnlyWhenSpent'
    BY <1>2 DEF GoneOnlyWhenSpent
  <1>4. WinnersTookRows' /\ CreatesApart' /\ Known'
    BY <1>1 DEF WinnersTookRows, CreatesApart, Known
  <1>5. RefusedOnlyWhenSpent'
    BY <1>1 DEF RefusedOnlyWhenSpent, Spent, Won
  <1>6. QED
    BY <1>1, <1>3, <1>4, <1>5 DEF RowsAsPublished

LEMMA CreateRowKeeps ==
    ASSUME LinkInv, NEW r \in Requests, CreateRow(r)
    PROVE  LinkInv'
  <1> USE DEF LinkInv, TypeOK
  <1> DEFINE t == req[r].token
             made == [expiresAt |-> req[r].expiresAt, consumed |-> FALSE]
  <1>1. /\ req[r].pc = "create" /\ t \in Tokens /\ deadline[t] = Never /\ row[t] = Never
        /\ \A q \in Requests \ {r} : req[q].token # t
    BY ContinuationAssumption DEF CreateRow, CreatesApart, RowsAsPublished, Row
  <1>2. made \in Row /\ made # Never /\ made.expiresAt = req[r].expiresAt /\ ~made.consumed
        /\ req[r].expiresAt \in Nat /\ req[r].expiresAt # Never
    <2>1. req[r].expiresAt \in Nat
      BY DEF Request
    <2>2. made \in Row
      BY <2>1 DEF Row
    <2>3. QED
      BY <2>1, <2>2, ContinuationAssumption DEF Row
  <1>3. /\ row' = [row EXCEPT ![t] = made]
        /\ deadline' = [deadline EXCEPT ![t] = req[r].expiresAt]
        /\ Finish(r, "created") /\ now' = now
    BY DEF CreateRow
  <1> HIDE DEF made
  <1>4. /\ req' \in [Requests -> Request]
        /\ req'[r].pc = "done" /\ req'[r].outcome = "created"
        /\ \A q \in Requests : req'[q].won = req[q].won /\ req'[q].token = req[q].token
        /\ \A q \in Requests \ {r} : req'[q] = req[q]
    BY <1>3 DEF Finish, Request, Outcomes
  <1>5. /\ row' \in [Tokens -> Row \cup {Never}] /\ row'[t] = made
        /\ deadline' \in [Tokens -> Nat \cup {Never}] /\ deadline'[t] = req[r].expiresAt
        /\ \A u \in Tokens \ {t} : row'[u] = row[u] /\ deadline'[u] = deadline[u]
    BY <1>1, <1>2, <1>3
  <1>6. RowsAsPublished'
    BY <1>2, <1>5 DEF RowsAsPublished
  <1>7. \A u \in Tokens : (Won(u) <=> Won(u)')
    BY <1>4 DEF Won
  <1>8. \A u \in Tokens \ {t} : (Spent(u) <=> Spent(u)')
    BY <1>3, <1>5, <1>7 DEF Spent
  <1>9. GoneOnlyWhenSpent'
    BY <1>2, <1>5, <1>7, <1>8 DEF GoneOnlyWhenSpent
  <1>10. ~req[r].won /\ req[r].outcome \notin {"not_found", "used", "expired"}
    BY <1>1 DEF Known
  <1>11. WinnersTookRows' /\ CreatesApart' /\ Known'
    BY <1>1, <1>2, <1>4, <1>5, <1>10 DEF WinnersTookRows, CreatesApart, Known
  <1>12. RefusedOnlyWhenSpent'
    BY <1>1, <1>3, <1>4, <1>5, <1>8 DEF RefusedOnlyWhenSpent, Known, Spent, Won
  <1>13. QED
    BY <1>3, <1>4, <1>5, <1>6, <1>9, <1>11, <1>12

LEMMA ConsumeReadKeeps ==
    ASSUME LinkInv, NEW r \in Requests, ConsumeRead(r)
    PROVE  LinkInv'
  <1> USE DEF LinkInv, TypeOK
  <1> DEFINE t == req[r].token
             error == ReadError(row[t])
  <1>1. /\ req[r].pc = "read" /\ t \in Tokens /\ deadline[t] # Never
        /\ UNCHANGED <<now, row, deadline>>
        /\ IF error = "none" THEN req' = [req EXCEPT ![r].pc = "claim"] ELSE Finish(r, error)
    BY DEF ConsumeRead, Known
  <1>2. CASE error = "none"
    <2>1. /\ req' \in [Requests -> Request] /\ req'[r].pc = "claim"
          /\ \A q \in Requests : /\ req'[q].won = req[q].won /\ req'[q].token = req[q].token
                                 /\ req'[q].outcome = req[q].outcome
          /\ \A q \in Requests \ {r} : req'[q] = req[q]
      BY <1>1, <1>2 DEF Request
    <2>2. \A u \in Tokens : (Won(u) <=> Won(u)') /\ (Spent(u) <=> Spent(u)')
      BY <1>1, <2>1 DEF Won, Spent
    <2>3. GoneOnlyWhenSpent'
      BY <1>1, <2>2 DEF GoneOnlyWhenSpent
    <2>4. WinnersTookRows' /\ CreatesApart' /\ Known'
      BY <1>1, <2>1 DEF WinnersTookRows, CreatesApart, Known
    <2>5. RefusedOnlyWhenSpent'
      BY <1>1, <2>1 DEF RefusedOnlyWhenSpent, Spent, Won
    <2>6. QED
      BY <1>1, <2>1, <2>3, <2>4, <2>5 DEF RowsAsPublished
  <1>3. CASE error # "none"
    <2>1. error \in {"not_found", "used", "expired"}
      BY <1>3 DEF ReadError
    <2>2. Spent(t)
      BY <1>1, <1>3, ContinuationAssumption
         DEF ReadError, GoneOnlyWhenSpent, RowsAsPublished, Spent, Row
    <2>3. QED
      BY <1>1, <1>3, <2>1, <2>2, FinishKeeps DEF Outcomes
  <1>4. QED
    BY <1>2, <1>3

(* The conditional update: it takes the row of a link nobody took.         *)
LEMMA Taken ==
    ASSUME LinkInv, NEW r \in Requests, ConsumeClaim(r), Claimable(row[req[r].token])
    PROVE  /\ req[r].token \in Tokens /\ deadline[req[r].token] # Never
           /\ now < deadline[req[r].token] /\ ~Won(req[r].token)
           /\ row' = [row EXCEPT ![req[r].token].consumed = TRUE]
           /\ req' = [req EXCEPT ![r].pc = "reply", ![r].won = TRUE]
           /\ UNCHANGED <<now, deadline>>
  <1> USE DEF LinkInv, TypeOK
  <1>1. req[r].token \in Tokens /\ deadline[req[r].token] # Never
    BY DEF ConsumeClaim, Known
  <1>2. /\ row[req[r].token] # Never /\ ~row[req[r].token].consumed
        /\ now < deadline[req[r].token]
    BY <1>1, ContinuationAssumption DEF Claimable, RowsAsPublished, Row
  <1>3. ~Won(req[r].token)
    BY <1>2 DEF WinnersTookRows, Won
  <1>4. QED
    BY <1>1, <1>2, <1>3 DEF ConsumeClaim

LEMMA ConsumeClaimKeeps ==
    ASSUME LinkInv, NEW r \in Requests, ConsumeClaim(r)
    PROVE  LinkInv'
  <1> USE DEF LinkInv, TypeOK
  <1> DEFINE t == req[r].token
  <1>1. req[r].pc = "claim" /\ t \in Tokens /\ deadline[t] # Never
    BY DEF ConsumeClaim, Known
  <1>2. CASE Claimable(row[t])
    <2>1. /\ row' = [row EXCEPT ![t].consumed = TRUE]
          /\ req' = [req EXCEPT ![r].pc = "reply", ![r].won = TRUE]
          /\ UNCHANGED <<now, deadline>>
      BY <1>2, Taken
    <2>2. row[t] # Never
      BY <1>2 DEF Claimable
    <2>3. /\ req' \in [Requests -> Request] /\ req'[r].pc = "reply" /\ req'[r].won
          /\ \A q \in Requests : req'[q].token = req[q].token /\ req'[q].outcome = req[q].outcome
          /\ \A q \in Requests \ {r} : req'[q] = req[q]
      BY <2>1 DEF Request
    <2>4. /\ row' \in [Tokens -> Row \cup {Never}]
          /\ row'[t] # Never /\ row'[t].consumed /\ row'[t].expiresAt = row[t].expiresAt
          /\ \A u \in Tokens \ {t} : row'[u] = row[u]
      BY <1>1, <2>1, <2>2, ContinuationAssumption DEF Row
    <2>5. /\ \A u \in Tokens : Won(u) => Won(u)'
          /\ Won(t)'
      BY <1>1, <2>3 DEF Won
    <2>6. \A u \in Tokens : Spent(u) => Spent(u)'
      BY <2>1, <2>5 DEF Spent
    <2>7. RowsAsPublished'
      BY <1>1, <2>1, <2>2, <2>4 DEF RowsAsPublished
    <2>8. GoneOnlyWhenSpent'
      BY <2>1, <2>4, <2>5, <2>6 DEF GoneOnlyWhenSpent
    <2>9. WinnersTookRows' /\ CreatesApart' /\ Known'
      <3>1. WinnersTookRows'
        BY <1>1, <2>3, <2>4 DEF WinnersTookRows, Known
      <3>2. CreatesApart'
        BY <1>1, <2>1, <2>3 DEF CreatesApart
      <3>3. Known'
        BY <1>1, <2>1, <2>3 DEF Known
      <3>4. QED
        BY <3>1, <3>2, <3>3
    <2>10. RefusedOnlyWhenSpent'
      BY <1>1, <2>1, <2>3, <2>6 DEF RefusedOnlyWhenSpent, Known, Spent, Won
    <2>11. QED
      BY <2>1, <2>3, <2>4, <2>7, <2>8, <2>9, <2>10
  <1>3. CASE ~Claimable(row[t])
    <2>1. Spent(t)
      BY <1>1, <1>3, ContinuationAssumption
         DEF Claimable, GoneOnlyWhenSpent, RowsAsPublished, Spent, Row
    <2>2. QED
      BY <1>1, <1>3, <2>1, FinishKeeps DEF ConsumeClaim, Outcomes
  <1>4. QED
    BY <1>2, <1>3

LEMMA LinkStep == LinkInv /\ [Next]_vars => LinkInv'
  <1> SUFFICES ASSUME LinkInv, [Next]_vars PROVE LinkInv'
    OBVIOUS
  <1>1. ASSUME NEW r \in Requests, Reply(r) PROVE LinkInv'
    BY <1>1, FinishKeeps DEF Reply, Outcomes
  <1>2. ASSUME NEW r \in Requests, Lose(r) PROVE LinkInv'
    BY <1>2, FinishKeeps DEF Lose, Outcomes
  <1>3. CASE UNCHANGED vars
    BY <1>3 DEF vars, LinkInv, TypeOK, RowsAsPublished, GoneOnlyWhenSpent, Spent, Won,
                WinnersTookRows, CreatesApart, Known, RefusedOnlyWhenSpent
  <1>4. QED
    BY <1>1, <1>2, <1>3, TickKeeps, CreatePruneKeeps, ConsumePruneKeeps, CreateRowKeeps,
       ConsumeReadKeeps, ConsumeClaimKeeps DEF Next

LEMMA LinkKept == Spec => []LinkInv
  BY LinkStart, LinkStep, PTL DEF Spec

-----------------------------------------------------------------------------
(***************************************************************************)
(* A link is refused only when it was taken or is over                     *)
(* (continuations.service.ts:88-118), for any number of requests.          *)
(***************************************************************************)
THEOREM RefusalsJustified == Spec => []RefusedOnlyWhenSpent
  BY LinkKept, PTL DEF LinkInv

takenBar == {[request |-> r, token |-> req[r].token] : r \in {q \in Requests : req[q].won}}

(* What keeps every winner and its token keeps what was taken. *)
LEMMA SameTaken ==
    ASSUME \A q \in Requests : req'[q].won = req[q].won,
           \A q \in Requests : req[q].won => req'[q].token = req[q].token
    PROVE  takenBar' = takenBar
  BY DEF takenBar

LEMMA Stutter ==
    ASSUME UNCHANGED <<now, deadline, takenBar>>
    PROVE  UNCHANGED Link!linkVars
  BY DEF Link!linkVars, takenBar

(***************************************************************************)
(* The table implements the link that is taken once: of any number of      *)
(* requests that read, claim and prune in any order, one gets the seal.    *)
(***************************************************************************)
THEOREM LinkTakenOnce == Spec => ImplementsOneShotLink
  <1>1. Init => Link!LinkInit
    BY DEF Init, Link!LinkInit, Fresh
  <1>2. LinkInv /\ [Next]_vars => [Link!LinkNext]_(Link!linkVars)
    <2> SUFFICES ASSUME LinkInv, [Next]_vars PROVE [Link!LinkNext]_(Link!linkVars)
      OBVIOUS
    <2> USE DEF LinkInv, TypeOK
    <2>1. CASE Tick
      BY <2>1 DEF Tick, Link!LinkNext, Link!Pass
    <2>2. ASSUME NEW r \in Requests, NEW t \in Tokens, CreatePrune(r, t) \/ ConsumePrune(r, t)
          PROVE  UNCHANGED Link!linkVars
      <3>1. PICK made : ~made.won /\ req' = [req EXCEPT ![r] = made]
        <4>1. ~[Fresh EXCEPT !.pc = "create", !.token = t, !.expiresAt = now + TTL].won
          BY DEF Fresh
        <4>2. ~[Fresh EXCEPT !.pc = "read", !.token = t].won
          BY DEF Fresh
        <4>3. QED
          BY <2>2, <4>1, <4>2 DEF CreatePrune, ConsumePrune
      <3>2. ~req[r].won /\ UNCHANGED <<now, deadline>>
        BY <2>2 DEF CreatePrune, ConsumePrune, Known
      <3>3. /\ \A q \in Requests : req'[q].won <=> req[q].won
            /\ \A q \in Requests : req[q].won => req'[q] = req[q]
        BY <3>1, <3>2
      <3>4. takenBar' = takenBar
        BY <3>3 DEF takenBar
      <3>5. QED
        BY <3>2, <3>4, Stutter
    <2>3. ASSUME NEW r \in Requests, CreateRow(r) PROVE Link!LinkNext
      <3> DEFINE t == req[r].token
      <3>1. t \in Tokens /\ deadline[t] = Never /\ req[r].expiresAt \in Nat
        BY <2>3 DEF CreateRow, CreatesApart, Request
      <3>2. /\ deadline' = [deadline EXCEPT ![t] = req[r].expiresAt]
            /\ Finish(r, "created") /\ now' = now
        BY <2>3 DEF CreateRow
      <3>3. deadline'[t] = req[r].expiresAt
        BY <3>1, <3>2
      <3>4. takenBar' = takenBar
        BY <3>2, SameTaken DEF Finish, Request
      <3>5. Link!Publish(t)
        BY <3>1, <3>2, <3>3, <3>4 DEF Link!Publish, takenBar
      <3>6. QED
        BY <3>1, <3>5 DEF Link!LinkNext
    <2>4. ASSUME NEW r \in Requests, ConsumeRead(r) \/ Reply(r) \/ Lose(r)
          PROVE  UNCHANGED Link!linkVars
      <3>1. /\ \A q \in Requests : req'[q].won = req[q].won
            /\ \A q \in Requests : req[q].won => req'[q].token = req[q].token
            /\ UNCHANGED <<now, deadline>>
        BY <2>4 DEF ConsumeRead, Reply, Lose, Finish, Request
      <3>2. QED
        BY <3>1, SameTaken, Stutter
    <2>5. ASSUME NEW r \in Requests, ConsumeClaim(r)
          PROVE  Link!LinkNext \/ UNCHANGED Link!linkVars
      <3> DEFINE t == req[r].token
      <3>1. CASE Claimable(row[t])
        <4>1. /\ t \in Tokens /\ deadline[t] # Never /\ now < deadline[t] /\ ~Won(t)
              /\ req' = [req EXCEPT ![r].pc = "reply", ![r].won = TRUE]
              /\ UNCHANGED <<now, deadline>>
          BY <2>5, <3>1, Taken
        <4>2. /\ req'[r].won /\ req'[r].token = t
              /\ \A q \in Requests \ {r} : req'[q] = req[q]
          BY <4>1 DEF Request
        <4>3. takenBar' = takenBar \cup {[request |-> r, token |-> t]}
          BY <4>2, Zenon DEF takenBar
        <4>4. \A other \in takenBar : other.token # t
          BY <4>1 DEF takenBar, Won
        <4>5. PICK u \in Tokens : u = t
          BY <4>1
        <4>6. Link!Take(r, u)
          BY <4>1, <4>3, <4>4, <4>5 DEF Link!Take, takenBar
        <4>7. QED
          BY <4>6, Zenon DEF Link!LinkNext
      <3>2. CASE ~Claimable(row[t])
        <4>1. /\ \A q \in Requests : req'[q].won = req[q].won
              /\ \A q \in Requests : req[q].won => req'[q].token = req[q].token
              /\ UNCHANGED <<now, deadline>>
          BY <2>5, <3>2 DEF ConsumeClaim, Finish, Request
        <4>2. takenBar' = takenBar
          BY <4>1, SameTaken
        <4>3. now' = now /\ deadline' = deadline
          BY <2>5 DEF ConsumeClaim
        <4>4. QED
          BY <4>2, <4>3, Stutter
      <3>3. QED
        BY <3>1, <3>2
    <2>6. CASE UNCHANGED vars
      BY <2>6 DEF vars, Link!linkVars
    <2>7. QED
      BY <2>1, <2>2, <2>3, <2>4, <2>5, <2>6 DEF Next
  <1>3. QED
    BY LinkKept, <1>1, <1>2, PTL DEF Spec, ImplementsOneShotLink, Link!LinkSpec
=============================================================================
