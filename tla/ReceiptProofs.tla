---------------------------- MODULE ReceiptProofs ----------------------------
(***************************************************************************)
(* Theorems about ReceiptStore and ReceiptPages, for every set of          *)
(* accounts, hashes, tabs and identifiers and every bound.                 *)
(*                                                                         *)
(* A kept stamp is found because the entry behind a listed hash is never   *)
(* taken away or made older (Filed), because a save that wrote the index   *)
(* finds its hash there until a race (SavesSound), and because in every    *)
(* set of entries there is a newest one (HasNewest).                       *)
(***************************************************************************)
EXTENDS ReceiptStore, ReceiptPages, TLAPS

-----------------------------------------------------------------------------
(* The store *)

(* The entry of a hash is a receipt of a claim. *)
IsClaim(a, h) == saved[a][h] # None /\ saved[a][h].action = "submit_claim"

StoreTypes ==
    /\ saved \in [Accounts -> [Hashes -> StoredReceipt \cup {None}]]
    /\ index \in [Accounts -> SUBSET Hashes]
    /\ legacy \in [Accounts -> StoredReceipt \cup {None}]
    /\ saves \in Nat /\ saves <= MaxSaves
    /\ save \in [Tabs -> Save \cup {None}]
    /\ done \in [Accounts -> Nat \cup {None}]
    /\ raced \in [Accounts -> BOOLEAN]

(* An entry is filed under its account and is no newer than the clock; the *)
(* index lists only entries.                                               *)
Filed ==
    \A a \in Accounts :
        /\ \A h \in Hashes : saved[a][h] # None =>
              saved[a][h].account = a /\ saved[a][h].savedAt <= saves
        /\ \A h \in index[a] : saved[a][h] # None
        /\ legacy[a] # None => legacy[a].account = a /\ legacy[a].action = "submit_claim"

(* What a save under way holds. *)
SaveSound(s) ==
    LET a == s.receipt.account
        h == s.receipt.hash
    IN  /\ IsClaim(a, h) /\ saved[a][h].savedAt >= s.receipt.savedAt
        /\ s.receipt.action = "submit_claim"
        /\ \A k \in s.keys : saved[a][k] # None
        /\ s.pc = "legacy" =>
              \/ h \in index[a]
              \/ raced[a] /\ \E k \in index[a] : IsClaim(a, k)

SavesSound == \A t \in Tabs : save[t] # None => SaveSound(save[t])

(* A stamp that was kept is listed, or was kept before there was an index. *)
Kept(a) ==
    \/ done[a] = 0 /\ legacy[a] # None
    \/ /\ \E k \in index[a] : IsClaim(a, k)
       /\ \/ raced[a]
          \/ \E k \in index[a] : IsClaim(a, k) /\ saved[a][k].savedAt >= done[a]

DoneSound == \A a \in Accounts : done[a] # None => Kept(a)

HasNewest ==
    \A a \in Accounts : \A S \in SUBSET Hashes :
        (\E h \in S : IsClaim(a, h)) =>
            \E m \in S : /\ IsClaim(a, m)
                         /\ \A h \in S : IsClaim(a, h) => saved[a][h].savedAt <= saved[a][m].savedAt

StoreInv == StoreTypes /\ Filed /\ SavesSound /\ DoneSound /\ HasNewest

LEMMA StoreStarts == StoreInit => StoreInv
  <1> SUFFICES ASSUME StoreInit PROVE StoreInv
    OBVIOUS
  <1>1. PICK old \in [Accounts -> Hashes \cup {None}],
             registered \in [Accounts -> Hashes \cup {None}] :
          /\ legacy = [a \in Accounts |->
                          IF old[a] = None THEN None ELSE Older(a, old[a], "submit_claim")]
          /\ done = [a \in Accounts |-> IF old[a] = None THEN None ELSE 0]
          /\ index = [a \in Accounts |-> {registered[a]} \ {None}]
          /\ saved = [a \in Accounts |-> [h \in Hashes |->
                          IF h = registered[a] THEN Older(a, h, "register_researcher") ELSE None]]
    BY DEF StoreInit
  <1>2. \A a \in Accounts, h \in Hashes, action \in ReceiptAction :
            /\ Older(a, h, action) \in StoredReceipt /\ Older(a, h, action) # None
            /\ Older(a, h, action).account = a /\ Older(a, h, action).action = action
            /\ Older(a, h, action).savedAt = 0
    BY StoreAssumption DEF Older, StoredReceipt, ReceiptAction
  <1>3. saves = 0 /\ save = [t \in Tabs |-> None] /\ raced = [a \in Accounts |-> FALSE]
    BY DEF StoreInit
  <1>4. /\ saved \in [Accounts -> [Hashes -> StoredReceipt \cup {None}]]
        /\ legacy \in [Accounts -> StoredReceipt \cup {None}]
    BY <1>1, <1>2 DEF ReceiptAction
  <1>5. index \in [Accounts -> SUBSET Hashes]
    BY <1>1
  <1>6. StoreTypes
    BY <1>1, <1>3, <1>4, <1>5, StoreAssumption DEF StoreTypes
  <1>7. \A a \in Accounts, h \in Hashes : saved[a][h] # None =>
            /\ h = registered[a] /\ saved[a][h] = Older(a, h, "register_researcher")
    BY <1>1
  <1>8. Filed
    <2> SUFFICES ASSUME NEW a \in Accounts
                 PROVE  /\ \A h \in Hashes : saved[a][h] # None =>
                              saved[a][h].account = a /\ saved[a][h].savedAt <= saves
                        /\ \A h \in index[a] : saved[a][h] # None
                        /\ legacy[a] # None =>
                              legacy[a].account = a /\ legacy[a].action = "submit_claim"
      BY DEF Filed
    <2>1. \A h \in Hashes : saved[a][h] # None =>
              saved[a][h].account = a /\ saved[a][h].savedAt <= saves
      BY <1>2, <1>3, <1>7 DEF ReceiptAction
    <2>2. \A h \in index[a] : saved[a][h] # None
      BY <1>1, <1>2 DEF ReceiptAction
    <2>3. legacy[a] # None => legacy[a].account = a /\ legacy[a].action = "submit_claim"
      BY <1>1, <1>2 DEF ReceiptAction
    <2>4. QED
      BY <2>1, <2>2, <2>3
  <1>9. \A a \in Accounts, h \in Hashes : ~IsClaim(a, h)
    BY <1>2, <1>7 DEF IsClaim, ReceiptAction
  <1>10. HasNewest
    BY <1>9 DEF HasNewest
  <1>11. DoneSound
    BY <1>1, <1>2 DEF DoneSound, Kept, ReceiptAction
  <1>12. SavesSound
    BY <1>3 DEF SavesSound
  <1>13. QED
    BY <1>6, <1>8, <1>10, <1>11, <1>12 DEF StoreInv

(* Writing an entry takes none away and makes none older. *)
LEMMA PutGrows ==
    ASSUME StoreInv, NEW t \in Tabs, NEW a \in Accounts, NEW h \in Hashes, PutReceipt(t, a, h)
    PROVE  /\ ClaimReceipt(a, h) \in StoredReceipt /\ ClaimReceipt(a, h) # None
           /\ saved'[a][h] = ClaimReceipt(a, h) /\ IsClaim(a, h)'
           /\ saved' \in [Accounts -> [Hashes -> StoredReceipt \cup {None}]]
           /\ \A b \in Accounts, k \in Hashes :
                 b # a \/ k # h => saved'[b][k] = saved[b][k]
           /\ \A b \in Accounts, k \in Hashes :
                 /\ saved[b][k] # None => saved'[b][k] # None
                 /\ IsClaim(b, k) =>
                       IsClaim(b, k)' /\ saved[b][k].savedAt <= saved'[b][k].savedAt
  <1>1. /\ saved' = [saved EXCEPT ![a][h] = ClaimReceipt(a, h)]
        /\ saves \in Nat
        /\ saved \in [Accounts -> [Hashes -> StoredReceipt \cup {None}]]
    BY DEF PutReceipt, StoreInv, StoreTypes
  <1>2. /\ ClaimReceipt(a, h) \in StoredReceipt /\ ClaimReceipt(a, h) # None
        /\ ClaimReceipt(a, h).account = a /\ ClaimReceipt(a, h).action = "submit_claim"
        /\ ClaimReceipt(a, h).savedAt = saves + 1
    BY <1>1, StoreAssumption DEF ClaimReceipt, StoredReceipt, ReceiptAction
  <1>3. /\ saved'[a][h] = ClaimReceipt(a, h)
        /\ saved' \in [Accounts -> [Hashes -> StoredReceipt \cup {None}]]
        /\ \A b \in Accounts, k \in Hashes : b # a \/ k # h => saved'[b][k] = saved[b][k]
    BY <1>1, <1>2
  <1>4. IsClaim(a, h)'
    BY <1>2, <1>3 DEF IsClaim
  <1>5. \A b \in Accounts, k \in Hashes :
            saved[b][k] # None => saved[b][k].savedAt \in Nat /\ saved[b][k].savedAt <= saves
    <2> SUFFICES ASSUME NEW b \in Accounts, NEW k \in Hashes, saved[b][k] # None
                 PROVE  saved[b][k].savedAt \in Nat /\ saved[b][k].savedAt <= saves
      OBVIOUS
    <2>1. saved[b][k] \in StoredReceipt
      BY <1>1
    <2>2. QED
      BY <2>1 DEF StoredReceipt, StoreInv, Filed
  <1>6. ASSUME NEW b \in Accounts, NEW k \in Hashes
        PROVE  /\ saved[b][k] # None => saved'[b][k] # None
               /\ IsClaim(b, k) => IsClaim(b, k)' /\ saved[b][k].savedAt <= saved'[b][k].savedAt
    <2>1. CASE b = a /\ k = h
      BY <1>1, <1>2, <1>3, <1>4, <1>5, <2>1 DEF IsClaim
    <2>2. CASE ~(b = a /\ k = h)
      BY <1>3, <1>5, <2>2 DEF IsClaim
    <2>3. QED
      BY <2>1, <2>2
  <1>7. QED
    BY <1>2, <1>3, <1>4, <1>6

LEMMA PutKeepsInv ==
    ASSUME StoreInv, NEW t \in Tabs, NEW a \in Accounts, NEW h \in Hashes, PutReceipt(t, a, h)
    PROVE  StoreInv'
  <1> DEFINE r == ClaimReceipt(a, h)
  <1> DEFINE s == [pc |-> "index", receipt |-> r, keys |-> {}]
  <1>1. /\ saves' = saves + 1 /\ saves < MaxSaves /\ save' = [save EXCEPT ![t] = s]
        /\ UNCHANGED <<index, legacy, done, raced>>
    BY DEF PutReceipt
  <1>2. /\ StoreTypes /\ Filed /\ SavesSound /\ DoneSound /\ HasNewest
        /\ saves \in Nat /\ index \in [Accounts -> SUBSET Hashes]
    BY DEF StoreInv, StoreTypes
  <1>3. /\ r.account = a /\ r.hash = h /\ r.action = "submit_claim" /\ r.savedAt = saves + 1
    BY DEF ClaimReceipt
  <1>4. \A b \in Accounts, k \in Hashes : saved[b][k] # None =>
            saved[b][k].account = b /\ saved[b][k].savedAt \in Nat /\ saved[b][k].savedAt <= saves
    <2> SUFFICES ASSUME NEW b \in Accounts, NEW k \in Hashes, saved[b][k] # None
                 PROVE  /\ saved[b][k].account = b /\ saved[b][k].savedAt \in Nat
                        /\ saved[b][k].savedAt <= saves
      OBVIOUS
    <2>1. saved[b][k] \in StoredReceipt
      BY <1>2 DEF StoreTypes
    <2>2. QED
      BY <1>2, <2>1 DEF StoredReceipt, Filed
  <1>5. StoreTypes'
    <2>1. s \in Save
      BY PutGrows DEF Save
    <2>2. save' \in [Tabs -> Save \cup {None}]
      BY <1>1, <1>2, <2>1 DEF StoreTypes
    <2>3. saves' \in Nat /\ saves' <= MaxSaves
      BY <1>1, <1>2, StoreAssumption
    <2>4. QED
      BY <1>1, <1>2, <2>2, <2>3, PutGrows DEF StoreTypes
  <1>6. Filed'
    <2> SUFFICES ASSUME NEW b \in Accounts
                 PROVE  /\ \A k \in Hashes : saved'[b][k] # None =>
                              saved'[b][k].account = b /\ saved'[b][k].savedAt <= saves'
                        /\ \A k \in index'[b] : saved'[b][k] # None
                        /\ legacy'[b] # None =>
                              legacy'[b].account = b /\ legacy'[b].action = "submit_claim"
      BY DEF Filed
    <2>1. ASSUME NEW k \in Hashes, saved'[b][k] # None
          PROVE  saved'[b][k].account = b /\ saved'[b][k].savedAt <= saves'
      <3>1. CASE b = a /\ k = h
        BY <1>1, <1>2, <1>3, <3>1, PutGrows
      <3>2. CASE ~(b = a /\ k = h)
        <4>1. saved'[b][k] = saved[b][k]
          BY <3>2, PutGrows
        <4>2. QED
          BY <1>1, <1>2, <1>4, <2>1, <4>1
      <3>3. QED
        BY <3>1, <3>2
    <2>2. \A k \in index'[b] : saved'[b][k] # None
      BY <1>1, <1>2, PutGrows DEF Filed
    <2>3. QED
      BY <1>1, <1>2, <2>1, <2>2 DEF Filed
  <1>7. SavesSound'
    <2> SUFFICES ASSUME NEW u \in Tabs, save'[u] # None
                 PROVE  SaveSound(save[u])'
      BY DEF SavesSound
    <2>1. CASE u = t
      <3>1. save'[u] = s
        BY <1>1, <1>2, <2>1 DEF StoreTypes
      <3> HIDE DEF r
      <3>2. QED
        BY <1>2, <1>3, <3>1, PutGrows DEF SaveSound, IsClaim, r
    <2>2. CASE u # t
      <3>1. save'[u] = save[u] /\ SaveSound(save[u]) /\ save[u] \in Save
        BY <1>1, <1>2, <2>2 DEF StoreTypes, SavesSound
      <3>2. /\ save[u].receipt.account \in Accounts /\ save[u].receipt.hash \in Hashes
            /\ save[u].receipt.savedAt \in Nat /\ save[u].keys \in SUBSET Hashes
        BY <3>1 DEF Save, StoredReceipt
      <3>3. \A b \in Accounts, k \in Hashes :
                /\ saved[b][k] # None => saved'[b][k] # None
                /\ IsClaim(b, k) => /\ IsClaim(b, k)'
                                    /\ saved[b][k].savedAt <= saved'[b][k].savedAt
                                    /\ saved[b][k].savedAt \in Nat
        BY <1>4, PutGrows DEF IsClaim
      <3>4. \A b \in Accounts, k \in Hashes : IsClaim(b, k)' => saved'[b][k].savedAt \in Nat
        <4> SUFFICES ASSUME NEW b \in Accounts, NEW k \in Hashes, IsClaim(b, k)'
                     PROVE  saved'[b][k].savedAt \in Nat
          OBVIOUS
        <4>1. saved'[b][k] \in StoredReceipt
          BY PutGrows DEF IsClaim
        <4>2. QED
          BY <4>1 DEF StoredReceipt
      <3>5. QED
        BY <1>1, <1>2, <3>1, <3>2, <3>3, <3>4 DEF SaveSound, StoreTypes
    <2>3. QED
      BY <2>1, <2>2
  <1>8. DoneSound'
    <2> SUFFICES ASSUME NEW b \in Accounts, done'[b] # None PROVE Kept(b)'
      BY DEF DoneSound
    <2>1. Kept(b) /\ done[b] \in Nat
      BY <1>1, <1>2 DEF DoneSound, StoreTypes
    <2>2. \A k \in index[b] : IsClaim(b, k) =>
              /\ IsClaim(b, k)' /\ saved[b][k].savedAt \in Nat /\ saved'[b][k].savedAt \in Nat
              /\ saved[b][k].savedAt <= saved'[b][k].savedAt
      <3> SUFFICES ASSUME NEW k \in index[b], IsClaim(b, k)
                   PROVE  /\ IsClaim(b, k)' /\ saved[b][k].savedAt \in Nat
                          /\ saved'[b][k].savedAt \in Nat
                          /\ saved[b][k].savedAt <= saved'[b][k].savedAt
        OBVIOUS
      <3>1. k \in Hashes
        BY <1>2
      <3>2. saved'[b][k] \in StoredReceipt
        BY <3>1, PutGrows DEF IsClaim
      <3>3. QED
        BY <1>4, <3>1, <3>2, PutGrows DEF IsClaim, StoredReceipt
    <2>3. QED
      BY <1>1, <2>1, <2>2 DEF Kept
  <1>9. HasNewest'
    <2> SUFFICES ASSUME NEW b \in Accounts, NEW S \in SUBSET Hashes,
                        \E k \in S : IsClaim(b, k)'
                 PROVE  \E m \in S : /\ IsClaim(b, m)'
                                     /\ \A k \in S : IsClaim(b, k)' =>
                                           saved'[b][k].savedAt <= saved'[b][m].savedAt
      BY DEF HasNewest
    <2>1. CASE b = a /\ h \in S
      <3>1. ASSUME NEW k \in S, IsClaim(b, k)'
            PROVE  saved'[b][k].savedAt <= saved'[a][h].savedAt
        <4>1. CASE k = h
          BY <1>2, <1>3, <2>1, <4>1, PutGrows
        <4>2. CASE k # h
          BY <1>2, <1>3, <1>4, <2>1, <3>1, <4>2, PutGrows DEF IsClaim
        <4>3. QED
          BY <4>1, <4>2
      <3>2. QED
        BY <2>1, <3>1, PutGrows
    <2>2. CASE ~(b = a /\ h \in S)
      <3>1. \A k \in S : saved'[b][k] = saved[b][k]
        BY <2>2, PutGrows
      <3>2. \A k \in S : IsClaim(b, k)' <=> IsClaim(b, k)
        BY <3>1 DEF IsClaim
      <3>3. PICK m \in S : /\ IsClaim(b, m)
                           /\ \A k \in S : IsClaim(b, k) => saved[b][k].savedAt <= saved[b][m].savedAt
        BY <1>2, <3>2 DEF HasNewest
      <3>4. QED
        BY <3>1, <3>2, <3>3
    <2>3. QED
      BY <2>1, <2>2
  <1>10. QED
    BY <1>5, <1>6, <1>7, <1>8, <1>9 DEF StoreInv

(* What a step leaves alone when no entry is written. *)
LEMMA SameEntries ==
    ASSUME UNCHANGED saved
    PROVE  \A a \in Accounts, h \in Hashes : IsClaim(a, h)' <=> IsClaim(a, h)
  BY DEF IsClaim

LEMMA SaveTyped ==
    ASSUME StoreInv, NEW t \in Tabs, save[t] # None
    PROVE  /\ save[t] \in Save /\ SaveSound(save[t])
           /\ save[t].receipt \in StoredReceipt /\ save[t].receipt.account \in Accounts
           /\ save[t].receipt.hash \in Hashes /\ save[t].receipt.savedAt \in Nat
           /\ save[t].keys \in SUBSET Hashes
  BY DEF StoreInv, StoreTypes, SavesSound, Save, StoredReceipt

LEMMA EntryTyped ==
    ASSUME StoreInv, NEW a \in Accounts, NEW h \in Hashes, saved[a][h] # None
    PROVE  /\ saved[a][h] \in StoredReceipt /\ saved[a][h].account = a
           /\ saved[a][h].action \in ReceiptAction /\ saved[a][h].savedAt \in Nat
  <1>1. saved[a][h] \in StoredReceipt
    BY DEF StoreInv, StoreTypes
  <1>2. QED
    BY <1>1 DEF StoreInv, Filed, StoredReceipt

LEMMA ReadKeepsInv ==
    ASSUME StoreInv, NEW t \in Tabs, ReadIndex(t)
    PROVE  StoreInv'
  <1> DEFINE s == [save[t] EXCEPT !.pc = "merge", !.keys = index[save[t].receipt.account]]
  <1>1. /\ save[t] # None /\ save' = [save EXCEPT ![t] = s]
        /\ UNCHANGED <<saved, index, legacy, saves, done, raced>>
    BY DEF ReadIndex
  <1>2. /\ save[t] \in Save /\ SaveSound(save[t]) /\ save[t].receipt.account \in Accounts
    BY <1>1, SaveTyped
  <1>3. /\ save \in [Tabs -> Save \cup {None}] /\ index \in [Accounts -> SUBSET Hashes]
    BY DEF StoreInv, StoreTypes
  <1>4. s \in Save
    BY <1>2, <1>3 DEF Save
  <1>5. s.pc = "merge" /\ s.receipt = save[t].receipt /\ s.keys = index[s.receipt.account]
    BY <1>2 DEF Save
  <1> HIDE DEF s
  <1>6. \A x \in Save : x = s => SaveSound(x)'
    <2> SUFFICES ASSUME NEW x \in Save, x = s PROVE SaveSound(x)'
      OBVIOUS
    <2>1. /\ x.receipt = save[t].receipt /\ x.pc = "merge"
          /\ x.keys = index[x.receipt.account] /\ x.receipt.account \in Accounts
      BY <1>2, <1>5
    <2>2. \A k \in x.keys : saved[x.receipt.account][k] # None
      BY <2>1 DEF StoreInv, Filed
    <2>3. QED
      BY <1>1, <1>2, <2>1, <2>2 DEF SaveSound, IsClaim
  <1>7. SavesSound'
    <2> SUFFICES ASSUME NEW u \in Tabs, save'[u] # None
                 PROVE  SaveSound(save[u])'
      BY DEF SavesSound
    <2>1. CASE u = t
      <3>1. save'[u] = s
        BY <1>1, <1>3, <2>1
      <3>2. QED
        BY <1>4, <1>6, <3>1 DEF SaveSound, IsClaim
    <2>2. CASE u # t
      <3>1. save'[u] = save[u]
        BY <1>1, <1>3, <2>2
      <3>2. QED
        BY <1>1, <3>1, SaveTyped DEF SaveSound, IsClaim
    <2>3. QED
      BY <2>1, <2>2
  <1>8. save' \in [Tabs -> Save \cup {None}]
    BY <1>1, <1>3, <1>4
  <1>9. QED
    BY <1>1, <1>7, <1>8
       DEF StoreInv, StoreTypes, Filed, DoneSound, Kept, HasNewest, IsClaim

(***************************************************************************)
(* The index is written from the keys read before: when it changed in      *)
(* between, the race is recorded; when it did not, nothing is lost.        *)
(***************************************************************************)
LEMMA WriteKeepsInv ==
    ASSUME StoreInv, NEW t \in Tabs, WriteIndex(t)
    PROVE  StoreInv'
  <1> DEFINE r == save[t].receipt
             a == r.account
             s == [save[t] EXCEPT !.pc = "legacy"]
  <1>1. /\ save[t] # None /\ save[t].pc = "merge"
        /\ index' = [index EXCEPT ![a] = {r.hash} \cup save[t].keys]
        /\ raced' = [raced EXCEPT ![a] = raced[a] \/ index[a] # save[t].keys]
        /\ save' = [save EXCEPT ![t] = s]
        /\ UNCHANGED <<saved, legacy, saves, done>>
    BY DEF WriteIndex, NextKeys
  <1>2. /\ save[t] \in Save /\ SaveSound(save[t]) /\ a \in Accounts /\ r.hash \in Hashes
        /\ save[t].keys \in SUBSET Hashes /\ r \in StoredReceipt
    BY <1>1, SaveTyped
  <1>3. /\ save \in [Tabs -> Save \cup {None}] /\ index \in [Accounts -> SUBSET Hashes]
        /\ raced \in [Accounts -> BOOLEAN]
    BY DEF StoreInv, StoreTypes
  <1>4. s \in Save /\ s.pc = "legacy" /\ s.receipt = r /\ s.keys = save[t].keys
    BY <1>2 DEF Save
  <1> HIDE DEF s
  <1>5. /\ IsClaim(a, r.hash) /\ r.action = "submit_claim"
        /\ saved[a][r.hash].savedAt >= r.savedAt
        /\ \A k \in save[t].keys : saved[a][k] # None
    BY <1>2 DEF SaveSound
  <1> HIDE DEF r
  <1>6. /\ index'[a] = {r.hash} \cup save[t].keys
        /\ raced'[a] <=> raced[a] \/ index[a] # save[t].keys
        /\ \A b \in Accounts : b # a => index'[b] = index[b] /\ raced'[b] = raced[b]
        /\ index' \in [Accounts -> SUBSET Hashes] /\ raced' \in [Accounts -> BOOLEAN]
    BY <1>1, <1>2, <1>3
  <1>7. \A b \in Accounts : /\ raced[b] => raced'[b]
                            /\ ~raced'[b] => index[b] \subseteq index'[b]
                            /\ raced'[b] /\ ~raced[b] => b = a
    BY <1>6
  <1>8. \A b \in Accounts, k \in Hashes : IsClaim(b, k)' <=> IsClaim(b, k)
    BY <1>1, SameEntries
  <1>9. \A b \in Accounts :
            (\E k \in index[b] : IsClaim(b, k)) => \E k \in index'[b] : IsClaim(b, k)
    BY <1>5, <1>6
  <1>10. StoreTypes'
    <2>1. save' \in [Tabs -> Save \cup {None}]
      BY <1>1, <1>3, <1>4
    <2>2. QED
      BY <1>1, <1>6, <2>1 DEF StoreInv, StoreTypes
  <1>11. Filed'
    <2>1. \A b \in Accounts : \A k \in index'[b] : saved[b][k] # None
      BY <1>5, <1>6 DEF IsClaim, StoreInv, Filed
    <2>2. QED
      BY <1>1, <2>1 DEF StoreInv, Filed
  <1>12. SavesSound'
    <2> SUFFICES ASSUME NEW u \in Tabs, save'[u] # None
                 PROVE  SaveSound(save[u])'
      BY DEF SavesSound
    <2>1. CASE u = t
      <3>1. save'[u] = s
        BY <1>1, <1>3, <2>1
      <3>2. PICK x \in Save : x = save'[u]
        BY <1>4, <3>1
      <3>3. x.pc = "legacy" /\ x.receipt = r /\ x.keys = save[t].keys
        BY <1>4, <3>1, <3>2
      <3>4. /\ saved'[a][r.hash] # None /\ saved'[a][r.hash].action = "submit_claim"
            /\ saved'[a][r.hash].savedAt >= r.savedAt
            /\ \A k \in save[t].keys : saved'[a][k] # None
            /\ r.hash \in index'[a]
        BY <1>1, <1>5, <1>6 DEF IsClaim
      <3>5. SaveSound(x)'
        BY <1>5, <3>3, <3>4 DEF SaveSound, IsClaim
      <3>6. QED
        BY <3>2, <3>5 DEF SaveSound, IsClaim
    <2>2. CASE u # t
      <3>1. save'[u] = save[u]
        BY <1>1, <1>3, <2>2
      <3>a. PICK x \in Save : x = save[u]
        BY <1>1, <2>2, <3>1, SaveTyped
      <3> DEFINE b == x.receipt.account
                 h == x.receipt.hash
      <3>2. /\ SaveSound(x) /\ b \in Accounts /\ h \in Hashes
            /\ x.keys \in SUBSET Hashes
        BY <1>1, <2>2, <3>a, <3>1, SaveTyped
      <3>3. x.pc = "legacy" => h \in index'[b] \/ raced'[b]
        BY <1>7, <3>2 DEF SaveSound
      <3>4. x.pc = "legacy" => \E k \in index[b] : IsClaim(b, k)
        BY <3>2 DEF SaveSound
      <3>5. x.pc = "legacy" => \E k \in index'[b] : IsClaim(b, k)
        BY <1>9, <3>2, <3>4
      <3>6. x.pc = "legacy" => \E k \in index'[b] : IsClaim(b, k)'
        BY <1>6, <1>8, <3>2, <3>5
      <3>7. IsClaim(b, h)'
        BY <1>8, <3>2 DEF SaveSound
      <3> HIDE DEF b, h
      <3>8. /\ saved'[b][h].savedAt >= x.receipt.savedAt
            /\ x.receipt.action = "submit_claim"
            /\ \A k \in x.keys : saved'[b][k] # None
        BY <1>1, <3>2 DEF SaveSound, b, h
      <3>9. SaveSound(x)'
        BY <3>3, <3>6, <3>7, <3>8 DEF SaveSound, b, h
      <3>10. QED
        BY <3>a, <3>1, <3>9 DEF SaveSound, IsClaim
    <2>3. QED
      BY <2>1, <2>2
  <1>13. DoneSound'
    <2> SUFFICES ASSUME NEW b \in Accounts, done'[b] # None PROVE Kept(b)'
      BY DEF DoneSound
    <2>1. Kept(b)
      BY <1>1 DEF StoreInv, DoneSound
    <2>2. CASE done[b] = 0 /\ legacy[b] # None
      BY <1>1, <2>2 DEF Kept
    <2>3. CASE ~(done[b] = 0 /\ legacy[b] # None)
      <3>1. /\ \E k \in index[b] : IsClaim(b, k)
            /\ raced[b] \/ \E k \in index[b] : IsClaim(b, k) /\ saved[b][k].savedAt >= done[b]
        BY <2>1, <2>3 DEF Kept
      <3>2. \E k \in index'[b] : IsClaim(b, k)'
        BY <1>6, <1>8, <1>9, <3>1
      <3>3. CASE raced'[b]
        BY <3>2, <3>3 DEF Kept
      <3>4. CASE ~raced'[b]
        <4>1. PICK k \in index[b] : IsClaim(b, k) /\ saved[b][k].savedAt >= done[b]
          BY <1>7, <3>1, <3>4
        <4>2. k \in index'[b] /\ k \in Hashes
          BY <1>3, <1>7, <3>4
        <4>3. IsClaim(b, k)' /\ saved'[b][k].savedAt >= done'[b]
          BY <1>1, <1>8, <4>1, <4>2
        <4>4. QED
          BY <3>2, <4>2, <4>3 DEF Kept
      <3>5. QED
        BY <3>3, <3>4
    <2>4. QED
      BY <2>2, <2>3
  <1>14. HasNewest'
    BY <1>1 DEF StoreInv, HasNewest, IsClaim
  <1>15. QED
    BY <1>10, <1>11, <1>12, <1>13, <1>14 DEF StoreInv

LEMMA LegacyKeepsInv ==
    ASSUME StoreInv, NEW t \in Tabs, WriteLegacy(t)
    PROVE  StoreInv'
  <1> DEFINE r == save[t].receipt
             a == r.account
             d == IF done[a] # None /\ done[a] > r.savedAt THEN done[a] ELSE r.savedAt
  <1>1. /\ save[t] # None /\ save[t].pc = "legacy"
        /\ legacy' = [legacy EXCEPT ![a] = r]
        /\ done' = [done EXCEPT ![a] = d]
        /\ save' = [save EXCEPT ![t] = None]
        /\ UNCHANGED <<saved, index, saves, raced>>
    BY DEF WriteLegacy
  <1>2. /\ SaveSound(save[t]) /\ r \in StoredReceipt /\ a \in Accounts
        /\ r.hash \in Hashes /\ r.savedAt \in Nat
    BY <1>1, SaveTyped
  <1>3. /\ save \in [Tabs -> Save \cup {None}] /\ legacy \in [Accounts -> StoredReceipt \cup {None}]
        /\ done \in [Accounts -> Nat \cup {None}] /\ index \in [Accounts -> SUBSET Hashes]
    BY DEF StoreInv, StoreTypes
  <1>4. /\ IsClaim(a, r.hash) /\ saved[a][r.hash].savedAt >= r.savedAt
        /\ r.action = "submit_claim"
        /\ r.hash \in index[a] \/ raced[a]
        /\ \E k \in index[a] : IsClaim(a, k)
    BY <1>1, <1>2 DEF SaveSound
  <1>5. d \in Nat /\ d >= r.savedAt /\ (done[a] # None => d >= done[a])
        /\ (d = r.savedAt \/ (done[a] # None /\ d = done[a]))
    <2>1. CASE done[a] # None /\ done[a] > r.savedAt
      <3>1. d = done[a]
        BY <2>1
      <3>2. done[a] \in Nat
        BY <1>2, <1>3, <2>1
      <3> HIDE DEF d
      <3>3. QED
        BY <1>2, <2>1, <3>1, <3>2
    <2>2. CASE ~(done[a] # None /\ done[a] > r.savedAt)
      <3>1. d = r.savedAt
        BY <2>2
      <3>2. done[a] # None => done[a] \in Nat
        BY <1>2, <1>3
      <3> HIDE DEF d
      <3>3. QED
        BY <1>2, <2>2, <3>1, <3>2
    <2>3. QED
      BY <2>1, <2>2
  <1>6. \A b \in Accounts, k \in Hashes : IsClaim(b, k)' <=> IsClaim(b, k)
    BY <1>1, SameEntries
  <1> HIDE DEF d
  <1>7. StoreTypes'
    <2>1. /\ legacy' \in [Accounts -> StoredReceipt \cup {None}]
          /\ done' \in [Accounts -> Nat \cup {None}]
          /\ save' \in [Tabs -> Save \cup {None}]
      BY <1>1, <1>2, <1>3, <1>5
    <2>2. QED
      BY <1>1, <2>1 DEF StoreInv, StoreTypes
  <1>8. Filed'
    <2>1. \A b \in Accounts : legacy'[b] # None =>
              legacy'[b].account = b /\ legacy'[b].action = "submit_claim"
      BY <1>1, <1>2, <1>3, <1>4 DEF StoreInv, Filed
    <2>2. QED
      BY <1>1, <2>1 DEF StoreInv, Filed
  <1>9. SavesSound'
    <2> SUFFICES ASSUME NEW u \in Tabs, save'[u] # None
                 PROVE  SaveSound(save[u])'
      BY DEF SavesSound
    <2>1. save'[u] = save[u]
      BY <1>1, <1>3
    <2>2. QED
      BY <1>1, <2>1, SaveTyped DEF SaveSound, IsClaim
  <1>10. DoneSound'
    <2> SUFFICES ASSUME NEW b \in Accounts, done'[b] # None PROVE Kept(b)'
      BY DEF DoneSound
    <2>1. CASE b # a
      BY <1>1, <1>3, <2>1 DEF StoreInv, DoneSound, Kept, IsClaim
    <2>2. CASE b = a
      <3>1. done'[b] = d
        BY <1>1, <1>3, <2>2
      <3>2. \E k \in index'[b] : IsClaim(b, k)'
        BY <1>1, <1>3, <1>4, <1>6, <2>2
      <3>3. ASSUME ~raced[b]
            PROVE  \E k \in index[b] : IsClaim(b, k) /\ saved[b][k].savedAt >= d
        <4>1. CASE d = r.savedAt
          BY <1>4, <2>2, <3>3, <4>1
        <4>2. CASE done[a] # None /\ d = done[a]
          <5>1. Kept(b) /\ r.hash \in index[b]
            BY <1>4, <2>2, <3>3, <4>2 DEF StoreInv, DoneSound
          <5>2. CASE d = 0
            <6>1. saved[b][r.hash].savedAt \in Nat
              BY <1>2, <1>4, <2>2, EntryTyped DEF IsClaim
            <6>2. QED
              BY <1>4, <2>2, <5>1, <5>2, <6>1
          <5>3. CASE d # 0
            BY <2>2, <3>3, <4>2, <5>1, <5>3 DEF Kept
          <5>4. QED
            BY <5>2, <5>3
        <4>3. QED
          BY <1>5, <4>1, <4>2
      <3>4. ~raced'[b] => \E k \in index'[b] : IsClaim(b, k)' /\ saved'[b][k].savedAt >= done'[b]
        BY <1>1, <1>3, <1>6, <3>1, <3>3
      <3>5. QED
        BY <3>2, <3>4 DEF Kept
    <2>3. QED
      BY <2>1, <2>2
  <1>11. HasNewest'
    BY <1>1 DEF StoreInv, HasNewest, IsClaim
  <1>12. QED
    BY <1>7, <1>8, <1>9, <1>10, <1>11 DEF StoreInv

LEMMA StopKeepsInv ==
    ASSUME StoreInv, NEW t \in Tabs, StopSave(t)
    PROVE  StoreInv'
  <1>1. save' = [save EXCEPT ![t] = None] /\ UNCHANGED <<saved, index, legacy, saves, done, raced>>
    BY DEF StopSave
  <1>2. save \in [Tabs -> Save \cup {None}]
    BY DEF StoreInv, StoreTypes
  <1>3. \A u \in Tabs : save'[u] # None => save'[u] = save[u]
    BY <1>1, <1>2
  <1>4. SavesSound'
    BY <1>1, <1>3 DEF StoreInv, SavesSound, SaveSound, IsClaim
  <1>5. save' \in [Tabs -> Save \cup {None}]
    BY <1>1, <1>2
  <1>6. QED
    BY <1>1, <1>4, <1>5 DEF StoreInv, StoreTypes, Filed, DoneSound, Kept, HasNewest, IsClaim

LEMMA StoreKept == StoreSpec => []StoreInv
  <1>1. StoreInv /\ [StoreNext]_storeVars => StoreInv'
    <2> SUFFICES ASSUME StoreInv, [StoreNext]_storeVars PROVE StoreInv'
      OBVIOUS
    <2>1. CASE UNCHANGED storeVars
      BY <2>1 DEF storeVars, StoreInv, StoreTypes, Filed, SavesSound, SaveSound, DoneSound,
                  Kept, HasNewest, IsClaim
    <2>2. CASE StoreNext
      BY <2>2, PutKeepsInv, ReadKeepsInv, WriteKeepsInv, LegacyKeepsInv, StopKeepsInv
         DEF StoreNext
    <2>3. QED
      BY <2>1, <2>2
  <1>2. QED
    BY <1>1, StoreStarts, PTL DEF StoreSpec

(* What is read of an account: the claim entries of its index, confirmed.  *)
LEMMA Read ==
    ASSUME StoreInv, NEW a \in Accounts
    PROVE  /\ \A k \in index[a] : IsClaim(a, k) =>
                 \E r \in readReceipts(a) : /\ r.action = "submit_claim"
                                            /\ r.savedAt = saved[a][k].savedAt
           /\ \A r \in readReceipts(a) :
                 /\ r.account = a /\ r.status = "confirmed" /\ r.savedAt \in Nat
                 /\ r.action = "submit_claim" =>
                       \E k \in index[a] : IsClaim(a, k) /\ saved[a][k].savedAt = r.savedAt
  <1>1. index[a] \subseteq Hashes
    BY DEF StoreInv, StoreTypes
  <1>2. ASSUME NEW k \in Hashes, saved[a][k] # None
        PROVE  LET n == normalizeReceipt(saved[a][k])
               IN  /\ n.account = a /\ n.status = "confirmed" /\ n.savedAt \in Nat
                   /\ n.action = saved[a][k].action /\ n.savedAt = saved[a][k].savedAt
    BY <1>2, EntryTyped DEF normalizeReceipt, StoredReceipt
  <1>3. ASSUME NEW k \in index[a], IsClaim(a, k)
        PROVE  \E r \in readReceipts(a) : /\ r.action = "submit_claim"
                                          /\ r.savedAt = saved[a][k].savedAt
    <2>1. normalizeReceipt(saved[a][k]) \in readReceipts(a)
      BY <1>3 DEF readReceipts, IsClaim
    <2>2. QED
      BY <1>1, <1>2, <1>3, <2>1 DEF IsClaim
  <1>4. ASSUME NEW r \in readReceipts(a)
        PROVE  /\ r.account = a /\ r.status = "confirmed" /\ r.savedAt \in Nat
               /\ r.action = "submit_claim" =>
                     \E k \in index[a] : IsClaim(a, k) /\ saved[a][k].savedAt = r.savedAt
    <2>1. PICK k \in index[a] : saved[a][k] # None /\ r = normalizeReceipt(saved[a][k])
      BY <1>4 DEF readReceipts
    <2>2. QED
      BY <1>1, <1>2, <2>1 DEF IsClaim
  <1>5. QED
    BY <1>3, <1>4

LEMMA NewestIsNewest ==
    ASSUME NEW R, NEW m \in R, \A q \in R : q.savedAt <= m.savedAt
    PROVE  Newest(R) \in R /\ \A q \in R : q.savedAt <= Newest(R).savedAt
  BY DEF Newest

LEMMA FoundIsKept == StoreInv => KeptStampIsFound
  <1> SUFFICES ASSUME StoreInv, NEW a \in Accounts, done[a] # None
               PROVE  /\ readReceipt(a) # None
                      /\ readReceipt(a).account = a
                      /\ readReceipt(a).action = "submit_claim"
                      /\ readReceipt(a).status = "confirmed"
                      /\ raced[a] \/ readReceipt(a).savedAt >= done[a]
    BY DEF KeptStampIsFound
  <1> DEFINE current == {r \in readReceipts(a) : r.action = "submit_claim"}
  <1>1. Kept(a) /\ done[a] \in Nat
    BY DEF StoreInv, DoneSound, StoreTypes
  <1>2. index[a] \in SUBSET Hashes
    BY DEF StoreInv, StoreTypes
  <1>3. CASE current = {}
    <2>1. \A k \in index[a] : ~IsClaim(a, k)
      BY <1>3, Read
    <2>2. done[a] = 0 /\ legacy[a] # None
      BY <1>1, <2>1 DEF Kept
    <2>3. /\ legacy[a] \in StoredReceipt /\ legacy[a].account = a
          /\ legacy[a].action = "submit_claim"
      BY <2>2 DEF StoreInv, StoreTypes, Filed
    <2>4. readReceipt(a) = normalizeReceipt(legacy[a])
      BY <1>3, <2>2, <2>3 DEF readReceipt
    <2>5. normalizeReceipt(legacy[a]) \in StoredReceipt
      BY <2>3 DEF normalizeReceipt, StoredReceipt
    <2>6. /\ normalizeReceipt(legacy[a]).account = a
          /\ normalizeReceipt(legacy[a]).action = "submit_claim"
          /\ normalizeReceipt(legacy[a]).status = "confirmed"
          /\ normalizeReceipt(legacy[a]).savedAt \in Nat
      BY <2>3 DEF normalizeReceipt, StoredReceipt
    <2>7. QED
      BY <2>2, <2>4, <2>5, <2>6, StoreAssumption
  <1>4. CASE current # {}
    <2>1. \E k \in index[a] : IsClaim(a, k)
      BY <1>4, Read
    <2>2. PICK m \in index[a] :
              /\ IsClaim(a, m)
              /\ \A k \in index[a] : IsClaim(a, k) => saved[a][k].savedAt <= saved[a][m].savedAt
      BY <1>2, <2>1 DEF StoreInv, HasNewest
    <2>3. PICK r \in current : r.savedAt = saved[a][m].savedAt
      BY <2>2, Read
    <2>4. \A q \in current : q.savedAt <= r.savedAt
      BY <2>2, <2>3, Read
    <2>5. readReceipt(a) = Newest(current)
      BY <1>4 DEF readReceipt
    <2> DEFINE found == Newest(current)
    <2>6. found \in current /\ \A q \in current : q.savedAt <= found.savedAt
      BY <2>4, NewestIsNewest
    <2>7. /\ found.account = a /\ found.status = "confirmed" /\ found.savedAt \in Nat
          /\ found.action = "submit_claim" /\ found # None
      <3>1. found \in readReceipts(a) /\ found.action = "submit_claim"
        BY <2>6
      <3>2. PICK k \in index[a] : saved[a][k] # None /\ found = normalizeReceipt(saved[a][k])
        BY <3>1 DEF readReceipts
      <3>3. found \in StoredReceipt
        BY <1>2, <3>2, EntryTyped DEF normalizeReceipt, StoredReceipt
      <3> HIDE DEF found
      <3>4. QED
        BY <3>1, <3>3, Read, StoreAssumption
    <2>8. ASSUME ~raced[a]
          PROVE  found.savedAt >= done[a]
      <3>1. PICK k \in index[a] : IsClaim(a, k) /\ saved[a][k].savedAt >= done[a]
        <4>1. CASE done[a] = 0 /\ legacy[a] # None
          <5>1. saved[a][m].savedAt \in Nat
            BY <1>2, <2>2, EntryTyped DEF IsClaim
          <5>2. QED
            BY <2>2, <4>1, <5>1
        <4>2. CASE ~(done[a] = 0 /\ legacy[a] # None)
          BY <1>1, <2>8, <4>2 DEF Kept
        <4>3. QED
          BY <4>1, <4>2
      <3>2. PICK q \in current : q.savedAt = saved[a][k].savedAt
        BY <3>1, Read
      <3>3. q.savedAt <= found.savedAt /\ q.savedAt \in Nat
        BY <2>6, Read
      <3> HIDE DEF found
      <3>4. QED
        BY <1>1, <2>7, <3>1, <3>2, <3>3
    <2>9. QED
      BY <2>5, <2>7, <2>8
  <1>5. QED
    BY <1>3, <1>4

(***************************************************************************)
(* Whatever tabs save, race and stop, the storage keeps its shape.         *)
(***************************************************************************)
THEOREM StoreTypesHold == StoreSpec => []StoreTypeOK
  <1>1. StoreInv => StoreTypeOK
    BY StoreAssumption DEF StoreInv, StoreTypes, StoreTypeOK
  <1>2. QED
    BY <1>1, StoreKept, PTL

(***************************************************************************)
(* A stamp that a tab kept to the last write is found again, and unless    *)
(* two tabs raced on the index nothing older hides it.                     *)
(***************************************************************************)
THEOREM KeptStampIsFoundHolds == StoreSpec => []KeptStampIsFound
  BY StoreKept, FoundIsKept, PTL

-----------------------------------------------------------------------------
(***************************************************************************)
(* The pages.  The request of the board that is not cancelled is for the   *)
(* wallet's account (AskedIsWallet); as long as no link overlapped two     *)
(* requests, at most one is under way, for the identifier asked for last   *)
(* (OneRequest).                                                           *)
(***************************************************************************)
AskedIsWallet == page.at = "home" => page.asked \in {address, Blank}

OneRequest ==
    page.at = "verify" /\ ~page.overlapped =>
        /\ \A i \in InFlight(page) : i = page.retry /\ page.flights[i] = 1
        /\ InFlight(page) # {} => page.result = Blank /\ page.error = "none"

PageInv ==
    /\ PageTypeOK /\ AskedIsWallet /\ OneRequest
    /\ BoardIsOfWallet /\ ReceiptIsOfLink /\ VerdictIsOfLastAsked

LEMMA PageKinds ==
    ASSUME PageTypeOK
    PROVE  /\ page.at = "home" => page \in HomePage
           /\ page.at = "receipt" => page \in ReceiptPage
           /\ page.at = "verify" => page \in VerifyPage
           /\ page.at \in {"home", "receipt", "verify"}
           /\ address \in Connected
  BY DEF PageTypeOK, HomePage, ReceiptPage, VerifyPage

(* On the home page only the board can go wrong. *)
LEMMA OnHome ==
    ASSUME page' \in HomePage, address' \in Connected,
           AskedIsWallet', BoardIsOfWallet'
    PROVE  PageInv'
  <1>1. page'.at = "home"
    BY DEF HomePage
  <1>2. QED
    BY <1>1 DEF PageInv, PageTypeOK, OneRequest, ReceiptIsOfLink, VerdictIsOfLastAsked

LEMMA FollowedHome ==
    ASSUME NEW home \in HomePage, NEW a \in Connected
    PROVE  /\ Followed(home, a) \in HomePage
           /\ Followed(home, a).asked = a /\ Followed(home, a).reading
           /\ Followed(home, a).clearing = (a = Blank)
           /\ Followed(home, a).at = "home"
  BY DEF Followed, HomePage, Connected

LEMMA MountedHome ==
    ASSUME address \in Connected
    PROVE  /\ HomeMounted \in HomePage /\ HomeMounted.at = "home"
           /\ HomeMounted.asked = address /\ HomeMounted.reading
           /\ HomeMounted.clearing = (address = Blank)
  <1> DEFINE home == [at |-> "home", list |-> "loading", rows |-> {}, claimReceipt |-> Blank,
                      latest |-> Blank, asked |-> Blank, flights |-> {}, api |-> "idle",
                      reading |-> FALSE, loading |-> FALSE, clearing |-> FALSE]
  <1>1. home \in HomePage
    BY DEF HomePage, Connected
  <1>2. HomeMounted = Followed(home, address)
    BY DEF HomeMounted
  <1>3. QED
    BY <1>1, <1>2, FollowedHome

LEMMA PageStarts == PageInit => PageInv
  <1> SUFFICES ASSUME PageInit PROVE PageInv
    OBVIOUS
  <1>1. address = Blank /\ page = HomeMounted
    BY DEF PageInit
  <1>2. address \in Connected
    BY <1>1 DEF Connected
  <1>3. page \in HomePage /\ page.at = "home" /\ page.asked = address /\ page.reading /\ page.clearing
    BY <1>1, <1>2, MountedHome
  <1>4. QED
    BY <1>2, <1>3 DEF PageInv, PageTypeOK, AskedIsWallet, OneRequest, BoardIsOfWallet,
                      ReceiptIsOfLink, VerdictIsOfLastAsked

LEMMA HomeKeepsInv ==
    ASSUME PageInv,
           \/ OpenHome \/ ListFails \/ ClearTimer \/ LoadingTimer
           \/ \E receipts \in [Identifiers -> Listings] :
                 ListAnswered(receipts)
           \/ \E receipt \in {address, Blank} : ReadTimer(receipt)
    PROVE  PageInv'
  <1>1. address \in Connected /\ (page.at = "home" => page \in HomePage)
    BY PageKinds DEF PageInv
  <1>2. CASE OpenHome
    <2>1. page' = HomeMounted /\ address' = address
      BY <1>2 DEF OpenHome
    <2>2. AskedIsWallet' /\ BoardIsOfWallet'
      BY <1>1, <2>1, MountedHome DEF AskedIsWallet, BoardIsOfWallet
    <2>3. QED
      BY <1>1, <2>1, <2>2, MountedHome, OnHome
  <1>3. CASE ListFails
    <2>1. page \in HomePage /\ page' = [page EXCEPT !.list = "unavailable"] /\ address' = address
      BY <1>1, <1>3 DEF ListFails
    <2>2. page' \in HomePage
      BY <2>1 DEF HomePage
    <2>3. AskedIsWallet' /\ BoardIsOfWallet'
      BY <2>1 DEF HomePage, PageInv, AskedIsWallet, BoardIsOfWallet
    <2>4. QED
      BY <1>1, <2>1, <2>2, <2>3, OnHome
  <1>4. CASE ClearTimer
    <2>1. /\ page \in HomePage /\ address' = address
          /\ page' = [page EXCEPT !.clearing = FALSE, !.api = "idle", !.latest = Blank]
      BY <1>1, <1>4 DEF ClearTimer
    <2>2. page' \in HomePage
      BY <2>1 DEF HomePage, Connected
    <2>3. AskedIsWallet' /\ BoardIsOfWallet'
      BY <2>1 DEF HomePage, PageInv, AskedIsWallet, BoardIsOfWallet
    <2>4. QED
      BY <1>1, <2>1, <2>2, <2>3, OnHome
  <1>5. CASE LoadingTimer
    <2>1. /\ page \in HomePage /\ address' = address
          /\ page' = [page EXCEPT !.loading = FALSE, !.api = "loading"]
      BY <1>1, <1>5 DEF LoadingTimer
    <2>2. page' \in HomePage
      BY <2>1 DEF HomePage
    <2>3. AskedIsWallet' /\ BoardIsOfWallet'
      BY <2>1 DEF HomePage, PageInv, AskedIsWallet, BoardIsOfWallet
    <2>4. QED
      BY <1>1, <2>1, <2>2, <2>3, OnHome
  <1>6. CASE \E receipts \in [Identifiers -> Listings] :
                 ListAnswered(receipts)
    <2>1. PICK rows \in SUBSET Identifiers :
              /\ page \in HomePage /\ address' = address
              /\ page' = [page EXCEPT !.list = "backend", !.rows = rows]
      BY <1>1, <1>6 DEF ListAnswered
    <2>2. page' \in HomePage
      BY <2>1 DEF HomePage
    <2>3. AskedIsWallet' /\ BoardIsOfWallet'
      BY <2>1 DEF HomePage, PageInv, AskedIsWallet, BoardIsOfWallet
    <2>4. QED
      BY <1>1, <2>1, <2>2, <2>3, OnHome
  <1>7. CASE \E receipt \in {address, Blank} : ReadTimer(receipt)
    <2>1. PICK receipt \in {address, Blank} :
              /\ page \in HomePage /\ address' = address
              /\ page' = [page EXCEPT !.reading = FALSE, !.claimReceipt = receipt]
      BY <1>1, <1>7 DEF ReadTimer
    <2>2. page' \in HomePage
      BY <1>1, <2>1 DEF HomePage, Connected
    <2>3. AskedIsWallet' /\ BoardIsOfWallet'
      BY <2>1 DEF HomePage, PageInv, AskedIsWallet, BoardIsOfWallet
    <2>4. QED
      BY <1>1, <2>1, <2>2, <2>3, OnHome
  <1>8. QED
    BY <1>2, <1>3, <1>4, <1>5, <1>6, <1>7

(* A new address restarts the effects; elsewhere it is only remembered. *)
LEMMA AddressKeepsInv ==
    ASSUME PageInv, NEW a \in Connected, AddressChanges(a)
    PROVE  PageInv'
  <1>1. address' = a /\ page' = IF page.at = "home" THEN Followed(page, a) ELSE page
    BY DEF AddressChanges
  <1>2. CASE page.at = "home"
    <2>1. page \in HomePage
      BY <1>2, PageKinds DEF PageInv
    <2>2. page' = Followed(page, a)
      BY <1>1, <1>2
    <2>3. /\ page' \in HomePage /\ page'.asked = a /\ page'.reading
          /\ page'.clearing = (a = Blank)
      BY <2>1, <2>2, FollowedHome
    <2>4. AskedIsWallet' /\ BoardIsOfWallet'
      BY <1>1, <2>3 DEF AskedIsWallet, BoardIsOfWallet
    <2>5. QED
      BY <1>1, <2>3, <2>4, OnHome
  <1>3. CASE page.at # "home"
    BY <1>1, <1>3 DEF PageInv, PageTypeOK, AskedIsWallet, OneRequest, BoardIsOfWallet,
                      ReceiptIsOfLink, VerdictIsOfLastAsked, InFlight
  <1>4. QED
    BY <1>2, <1>3

(* What is not cancelled was asked for the wallet's account. *)
LEMMA ActivityKeepsInv ==
    ASSUME PageInv, NEW a \in Wallets, NEW api \in {"ready", "unavailable"},
           NEW latest \in {a, Blank}, ActivityAnswered(a, latest, api)
    PROVE  PageInv'
  <1> DEFINE rest == [page EXCEPT !.flights = @ \ {a}]
             heard == [rest EXCEPT !.asked = Blank, !.latest = latest, !.api = api]
  <1>1. /\ page.at = "home" /\ address' = address
        /\ page' = IF cancelled(a) THEN rest ELSE heard
    BY DEF ActivityAnswered
  <1>2. page \in HomePage /\ address \in Connected
    BY <1>1, PageKinds DEF PageInv
  <1>3. latest \in Connected
    BY DEF Connected
  <1>4. /\ rest \in HomePage /\ rest.at = "home" /\ rest.asked = page.asked
        /\ rest.latest = page.latest /\ rest.claimReceipt = page.claimReceipt
        /\ rest.reading = page.reading /\ rest.clearing = page.clearing
    BY <1>2 DEF HomePage
  <1>5. CASE cancelled(a)
    <2>1. AskedIsWallet' /\ BoardIsOfWallet'
      BY <1>1, <1>4, <1>5 DEF PageInv, AskedIsWallet, BoardIsOfWallet
    <2>2. QED
      BY <1>1, <1>2, <1>4, <1>5, <2>1, OnHome
  <1>6. CASE ~cancelled(a)
    <2>1. a = address
      BY <1>1, <1>6, PageAssumption DEF PageInv, AskedIsWallet, cancelled
    <2> HIDE DEF rest
    <2>2. /\ heard \in HomePage /\ heard.asked = Blank /\ heard.latest = latest
          /\ heard.claimReceipt = page.claimReceipt /\ heard.reading = page.reading
      BY <1>3, <1>4 DEF HomePage, Connected
    <2>3. page' = heard
      BY <1>1, <1>6
    <2> HIDE DEF heard
    <2>4. AskedIsWallet' /\ BoardIsOfWallet'
      BY <1>1, <2>1, <2>2, <2>3 DEF PageInv, AskedIsWallet, BoardIsOfWallet
    <2>5. QED
      BY <1>1, <1>2, <2>2, <2>3, <2>4, OnHome
  <1>7. QED
    BY <1>5, <1>6
(* On the page of a receipt only its own link matters. *)
LEMMA OnReceipt ==
    ASSUME page' \in ReceiptPage, address' \in Connected, ReceiptIsOfLink'
    PROVE  PageInv'
  <1>1. page'.at = "receipt"
    BY DEF ReceiptPage
  <1>2. QED
    BY <1>1 DEF PageInv, PageTypeOK, OneRequest, AskedIsWallet, BoardIsOfWallet,
                VerdictIsOfLastAsked

LEMMA ReceiptKeepsInv ==
    ASSUME PageInv,
           \/ \E hash \in Identifiers : OpenReceipt(hash) \/ HashChanges(hash)
                                        \/ AbortedAnswers(hash)
           \/ \E phase \in {"backend-receipt", "missing"} : ReceiptAnswers(phase)
    PROVE  PageInv'
  <1>1. /\ address \in Connected /\ (page.at = "receipt" => page \in ReceiptPage)
        /\ ReceiptIsOfLink
    BY PageKinds DEF PageInv
  <1>2. CASE \E hash \in Identifiers : OpenReceipt(hash)
    <2>1. PICK hash \in Identifiers :
              /\ address' = address
              /\ page' = [at |-> "receipt", hash |-> hash, about |-> Blank,
                          phase |-> "loading", asked |-> TRUE, aborted |-> {}]
      BY <1>2 DEF OpenReceipt
    <2>2. page' \in ReceiptPage /\ ReceiptIsOfLink'
      BY <2>1 DEF ReceiptPage, Asked, ReceiptIsOfLink
    <2>3. QED
      BY <1>1, <2>1, <2>2, OnReceipt
  <1>3. CASE \E hash \in Identifiers : HashChanges(hash)
    <2>1. PICK hash \in Identifiers :
              /\ page \in ReceiptPage /\ address' = address
              /\ page' = [page EXCEPT !.hash = hash, !.asked = TRUE,
                             !.aborted = IF page.asked THEN @ \cup {page.hash} ELSE @]
      BY <1>1, <1>3 DEF HashChanges
    <2>2. page' \in ReceiptPage /\ page'.asked
      BY <2>1 DEF ReceiptPage
    <2>3. QED
      BY <1>1, <2>1, <2>2, OnReceipt DEF ReceiptIsOfLink
  <1>4. CASE \E hash \in Identifiers : AbortedAnswers(hash)
    <2>1. PICK hash \in Identifiers :
              /\ page \in ReceiptPage /\ address' = address
              /\ page' = [page EXCEPT !.aborted = @ \ {hash}]
      BY <1>1, <1>4 DEF AbortedAnswers
    <2>2. page' \in ReceiptPage /\ ReceiptIsOfLink'
      BY <1>1, <2>1 DEF ReceiptPage, ReceiptIsOfLink
    <2>3. QED
      BY <1>1, <2>1, <2>2, OnReceipt
  <1>5. CASE \E phase \in {"backend-receipt", "missing"} : ReceiptAnswers(phase)
    <2>1. PICK phase \in {"backend-receipt", "missing"} :
              /\ page \in ReceiptPage /\ address' = address
              /\ page' = [page EXCEPT !.phase = phase, !.about = page.hash, !.asked = FALSE]
      BY <1>1, <1>5 DEF ReceiptAnswers
    <2>2. page' \in ReceiptPage /\ page'.about = page'.hash
      BY <2>1 DEF ReceiptPage, Asked
    <2>3. QED
      BY <1>1, <2>1, <2>2, OnReceipt DEF ReceiptIsOfLink
  <1>6. QED
    BY <1>2, <1>3, <1>4, <1>5

-----------------------------------------------------------------------------
(***************************************************************************)
(* The verification page: what OneRequest and VerdictIsOfLastAsked say of  *)
(* a state v of it.                                                        *)
(***************************************************************************)
Orderly(v) ==
    /\ v.isChecking => InFlight(v) # {}
    /\ ~v.overlapped =>
          /\ \A i \in InFlight(v) : i = v.retry /\ v.flights[i] = 1
          /\ InFlight(v) # {} => v.isChecking /\ v.result = Blank /\ v.error = "none"
          /\ v.result # Blank => v.result = v.retry /\ v.error = "none"

LEMMA OnVerify ==
    ASSUME page' \in VerifyPage, address' \in Connected, Orderly(page')
    PROVE  PageInv'
  <1>1. page'.at = "verify"
    BY DEF VerifyPage
  <1>2. OneRequest' /\ VerdictIsOfLastAsked'
    BY DEF OneRequest, VerdictIsOfLastAsked, Orderly, InFlight
  <1>3. QED
    BY <1>1, <1>2 DEF PageInv, PageTypeOK, AskedIsWallet, BoardIsOfWallet, ReceiptIsOfLink

LEMMA VerifyOrderly ==
    ASSUME PageInv, page.at = "verify"
    PROVE  page \in VerifyPage /\ address \in Connected /\ Orderly(page)
  BY PageKinds DEF PageInv, OneRequest, VerdictIsOfLastAsked, Orderly

(* A verification that starts over none is the only one. *)
LEMMA RunIsOrderly ==
    ASSUME NEW v \in VerifyPage, NEW id \in Asked,
           id # Blank => v.flights[id] < MaxFlights,
           ~v.overlapped => InFlight(v) = {}
    PROVE  runVerification(v, id) \in VerifyPage /\ Orderly(runVerification(v, id))
  <1>1. CASE id = Blank
    <2> DEFINE w == [v EXCEPT !.retry = id, !.result = Blank, !.error = "invalid",
                              !.isChecking = FALSE]
    <2>1. runVerification(v, id) = w
      BY <1>1 DEF runVerification
    <2>2. w \in VerifyPage
      BY <1>1 DEF VerifyPage, Asked
    <2>3. /\ w.isChecking = FALSE /\ w.result = Blank /\ w.flights = v.flights
          /\ w.overlapped = v.overlapped
      BY DEF VerifyPage
    <2>4. InFlight(w) = InFlight(v)
      BY <2>3 DEF InFlight
    <2>5. Orderly(w)
      BY <2>3, <2>4 DEF Orderly
    <2>6. QED
      BY <2>1, <2>2, <2>5
  <1>2. CASE id # Blank
    <2> DEFINE w == [v EXCEPT !.retry = id, !.result = Blank, !.error = "none",
                              !.isChecking = TRUE, !.flights[id] = @ + 1]
    <2>1. runVerification(v, id) = w
      BY <1>2 DEF runVerification
    <2>2. id \in Identifiers /\ v.flights \in [Identifiers -> 0 .. MaxFlights]
      BY <1>2 DEF VerifyPage, Asked
    <2>3. v.flights[id] + 1 \in 0 .. MaxFlights
      BY <1>2, <2>2, PageAssumption
    <2>4. /\ w.retry = id /\ w.result = Blank /\ w.error = "none" /\ w.isChecking
          /\ w.overlapped = v.overlapped
          /\ w.flights = [v.flights EXCEPT ![id] = @ + 1]
      BY DEF VerifyPage
    <2>5. w.flights \in [Identifiers -> 0 .. MaxFlights]
      BY <2>2, <2>3, <2>4
    <2>6. w \in VerifyPage
      BY <2>2, <2>4, <2>5 DEF VerifyPage, Asked
    <2>7. id \in InFlight(w)
      BY <2>2, <2>4 DEF InFlight
    <2>8. ASSUME ~w.overlapped, NEW i \in InFlight(w)
          PROVE  i = id /\ w.flights[i] = 1
      <3>1. \A j \in Identifiers : v.flights[j] = 0
        BY <2>2, <2>4, <2>8 DEF InFlight
      <3>2. QED
        BY <2>2, <2>4, <2>8, <3>1 DEF InFlight
    <2>9. Orderly(w)
      BY <2>4, <2>7, <2>8 DEF Orderly
    <2>10. QED
      BY <2>1, <2>6, <2>9
  <1>3. QED
    BY <1>1, <1>2

(* The effect of a link records a request it sent over another. *)
LEMMA AutoIsOrderly ==
    ASSUME NEW v \in VerifyPage, NEW id \in Asked, Orderly(v),
           id # Blank => v.flights[id] < MaxFlights
    PROVE  AutoVerified(v, id) \in VerifyPage /\ Orderly(AutoVerified(v, id))
  <1>1. CASE shouldRunAutoVerification(id, v.autoChecked)
    <2> DEFINE w == [v EXCEPT !.autoChecked = id, !.query = id,
                              !.overlapped = @ \/ InFlight(v) # {}]
    <2>1. AutoVerified(v, id) = runVerification(w, id)
      BY <1>1 DEF AutoVerified
    <2>2. w \in VerifyPage /\ w.flights = v.flights
      BY DEF VerifyPage
    <2>3. ~w.overlapped => InFlight(v) = {}
      BY DEF VerifyPage
    <2>4. InFlight(w) = InFlight(v)
      BY <2>2 DEF InFlight
    <2> HIDE DEF w
    <2>5. QED
      BY <2>1, <2>2, <2>3, <2>4, RunIsOrderly
  <1>2. CASE ~shouldRunAutoVerification(id, v.autoChecked)
    BY <1>2 DEF AutoVerified
  <1>3. QED
    BY <1>1, <1>2

(* The last part of a path and the first parameter given are identifiers. *)
LEMMA Extracted == \A text \in Texts : extractIdentifier(text) \in Asked
  <1> SUFFICES ASSUME NEW text \in Texts PROVE extractIdentifier(text) \in Asked
    OBVIOUS
  <1>1. CASE text \in [url : {FALSE}, value : Asked]
    BY <1>1 DEF extractIdentifier
  <1>2. CASE text \in [url : {TRUE}, value : Identifiers, path : Paths]
    <2>1. text.value \in Asked /\ text.path \in Paths
      BY <1>2 DEF Asked
    <2>2. CASE text.path = <<>>
      BY <2>1, <2>2 DEF extractIdentifier
    <2>3. CASE \E i \in Identifiers : text.path = <<i>>
      <3>1. text.path[Len(text.path)] \in Asked
        BY <2>3 DEF Asked
      <3>2. QED
        BY <2>1, <3>1 DEF extractIdentifier
    <2>4. CASE text.path \in Identifiers \X Identifiers
      <3>1. text.path[Len(text.path)] \in Asked
        BY <2>4 DEF Asked
      <3>2. QED
        BY <2>1, <3>1 DEF extractIdentifier
    <2>5. QED
      BY <2>1, <2>2, <2>3, <2>4 DEF Paths
  <1>3. QED
    BY <1>1, <1>2 DEF Texts

LEMMA Picked ==
    \A params \in Params : pickAutoVerificationIdentifier(params) \in Asked
  <1> SUFFICES ASSUME NEW params \in Params
               PROVE  pickAutoVerificationIdentifier(params) \in Asked
    OBVIOUS
  <1> DEFINE given == {k \in 1 .. 4 : params[AUTO_VERIFY_QUERY_KEYS[k]] # Blank}
             first == CHOOSE k \in given : \A j \in given : k <= j
  <1>1. CASE given = {}
    BY <1>1 DEF pickAutoVerificationIdentifier, Asked
  <1>2. CASE given # {}
    <2>1. \E k \in given : \A j \in given : k <= j
      <3>1. given \subseteq {1, 2, 3, 4}
        OBVIOUS
      <3> HIDE DEF given
      <3>2. CASE 1 \in given
        BY <3>1, <3>2
      <3>3. CASE 1 \notin given /\ 2 \in given
        BY <3>1, <3>3
      <3>4. CASE 1 \notin given /\ 2 \notin given /\ 3 \in given
        BY <3>1, <3>4
      <3>5. CASE 1 \notin given /\ 2 \notin given /\ 3 \notin given
        <4>1. given = {4}
          BY <1>2, <3>1, <3>5
        <4>2. QED
          BY <4>1
      <3>6. QED
        BY <3>2, <3>3, <3>4, <3>5
    <2>2. first \in given
      BY <2>1
    <2>3. AUTO_VERIFY_QUERY_KEYS[first] \in {"receipt", "claim", "transaction", "identifier"}
      <3>1. first \in 1 .. 4
        BY <2>2
      <3> HIDE DEF first
      <3>2. first = 1 \/ first = 2 \/ first = 3 \/ first = 4
        BY <3>1
      <3>3. QED
        BY <3>2 DEF AUTO_VERIFY_QUERY_KEYS
    <2>4. params[AUTO_VERIFY_QUERY_KEYS[first]] \in Asked
      BY <2>3 DEF Params
    <2>5. pickAutoVerificationIdentifier(params) = params[AUTO_VERIFY_QUERY_KEYS[first]]
      BY <1>2 DEF pickAutoVerificationIdentifier
    <2>6. QED
      BY <2>4, <2>5
  <1>3. QED
    BY <1>1, <1>2

LEMMA LinkKeepsInv ==
    ASSUME PageInv, NEW params \in Params, OpenVerify(params) \/ LinkChanges(params)
    PROVE  PageInv'
  <1> DEFINE id == pickAutoVerificationIdentifier(params)
  <1>1. id \in Asked /\ address \in Connected
    BY Picked, PageKinds DEF PageInv
  <1> HIDE DEF id
  <1>2. CASE OpenVerify(params)
    <2> DEFINE v == [at |-> "verify", query |-> id, autoChecked |-> Blank, retry |-> Blank,
                     result |-> Blank, error |-> "none", isChecking |-> FALSE,
                     flights |-> [i \in Identifiers |-> 0], overlapped |-> FALSE]
    <2>1. page' = AutoVerified(v, id) /\ address' = address
      BY <1>2 DEF OpenVerify, id
    <2>2. v \in VerifyPage
      BY <1>1, PageAssumption DEF VerifyPage, Asked
    <2>3. InFlight(v) = {}
      BY DEF InFlight
    <2>4. Orderly(v)
      BY <2>3 DEF Orderly
    <2>5. id # Blank => v.flights[id] < MaxFlights
      BY <1>1, PageAssumption DEF Asked
    <2> HIDE DEF v
    <2>6. QED
      BY <1>1, <2>1, <2>2, <2>4, <2>5, AutoIsOrderly, OnVerify
  <1>3. CASE LinkChanges(params)
    <2>1. /\ page' = AutoVerified(page, id) /\ address' = address
          /\ page.at = "verify" /\ (id # Blank => page.flights[id] < MaxFlights)
      BY <1>3 DEF LinkChanges, Room, id
    <2>2. QED
      BY <1>1, <2>1, VerifyOrderly, AutoIsOrderly, OnVerify
  <1>4. QED
    BY <1>2, <1>3

(* The button is closed, and nothing failed, while a request is under way. *)
LEMMA AskKeepsInv ==
    ASSUME PageInv, verify \/ Retry \/ \E text \in Texts : EditQuery(text)
    PROVE  PageInv'
  <1>1. page.at = "verify" /\ address' = address
    BY DEF verify, Retry, EditQuery
  <1>2. page \in VerifyPage /\ address \in Connected /\ Orderly(page)
    BY <1>1, VerifyOrderly
  <1>3. page.query \in Asked /\ page.retry \in Asked
    BY <1>2 DEF VerifyPage
  <1>4. CASE verify
    <2>1. /\ page' = runVerification(page, page.query) /\ ~page.isChecking
          /\ page.query # Blank => page.flights[page.query] < MaxFlights
      BY <1>4 DEF verify, Room
    <2>2. ~page.overlapped => InFlight(page) = {}
      BY <1>2, <2>1 DEF Orderly
    <2>3. QED
      BY <1>1, <1>2, <1>3, <2>1, <2>2, RunIsOrderly, OnVerify
  <1>5. CASE Retry
    <2>1. PICK id \in Asked :
              /\ page' = runVerification(page, id) /\ page.error # "none"
              /\ id # Blank => page.flights[id] < MaxFlights
      BY <1>3, <1>5 DEF Retry, Room
    <2>2. ~page.overlapped => InFlight(page) = {}
      BY <1>2, <2>1 DEF Orderly
    <2>3. QED
      BY <1>1, <1>2, <2>1, <2>2, RunIsOrderly, OnVerify
  <1>6. CASE \E text \in Texts : EditQuery(text)
    <2>1. PICK typed \in Asked :
              page' = [page EXCEPT !.query = typed, !.result = Blank, !.error = "none"]
      BY <1>6, Extracted DEF EditQuery
    <2>2. /\ page' \in VerifyPage /\ page'.flights = page.flights
          /\ page'.result = Blank /\ page'.error = "none" /\ page'.retry = page.retry
          /\ page'.isChecking = page.isChecking /\ page'.overlapped = page.overlapped
      BY <1>2, <2>1 DEF VerifyPage, Asked
    <2>3. InFlight(page') = InFlight(page)
      BY <2>2 DEF InFlight
    <2>4. Orderly(page')
      BY <1>2, <2>2, <2>3 DEF Orderly
    <2>5. QED
      BY <1>1, <1>2, <2>2, <2>4, OnVerify
  <1>7. QED
    BY <1>4, <1>5, <1>6

(* The answer that ends the only request is the last one asked for; after  *)
(* an overlap any answer opens the button.                                 *)
LEMMA AnswerKeepsInv ==
    ASSUME PageInv, NEW id \in Identifiers, VerifyAnswers(id) \/ VerifyFails(id)
    PROVE  PageInv'
  <1>1. page.at = "verify" /\ address' = address /\ id \in InFlight(page)
    BY DEF VerifyAnswers, VerifyFails
  <1>2. page \in VerifyPage /\ address \in Connected /\ Orderly(page)
    BY <1>1, VerifyOrderly
  <1>3. /\ page.flights \in [Identifiers -> 0 .. MaxFlights]
        /\ page.flights[id] - 1 \in 0 .. MaxFlights
    BY <1>1, <1>2, PageAssumption DEF VerifyPage, InFlight
  <1>4. PICK result \in Asked, error \in {"none", "failed", "invalid"} :
            /\ page' = [page EXCEPT !.result = result, !.error = error,
                                    !.isChecking = FALSE, !.flights[id] = @ - 1]
            /\ \/ result = id /\ error = page.error
               \/ result = page.result /\ error = "failed"
    <2>1. page.result \in Asked /\ page.error \in {"none", "failed", "invalid"} /\ id \in Asked
      BY <1>2 DEF VerifyPage, Asked
    <2>2. CASE VerifyAnswers(id)
      <3>1. page' = [page EXCEPT !.result = id, !.error = page.error,
                                 !.isChecking = FALSE, !.flights[id] = @ - 1]
        BY <1>2, <2>2 DEF VerifyAnswers, VerifyPage
      <3>2. QED
        BY <2>1, <3>1
    <2>3. CASE VerifyFails(id)
      <3>1. page' = [page EXCEPT !.result = page.result, !.error = "failed",
                                 !.isChecking = FALSE, !.flights[id] = @ - 1]
        BY <1>2, <2>3 DEF VerifyFails, VerifyPage
      <3>2. QED
        BY <2>1, <3>1
    <2>4. QED
      BY <2>2, <2>3
  <1>5. /\ page'.result = result /\ page'.error = error /\ page'.isChecking = FALSE
        /\ page'.retry = page.retry /\ page'.overlapped = page.overlapped
        /\ page'.flights = [page.flights EXCEPT ![id] = @ - 1]
    BY <1>2, <1>4 DEF VerifyPage
  <1>6. page'.flights \in [Identifiers -> 0 .. MaxFlights]
    BY <1>3, <1>5
  <1>7. page' \in VerifyPage
    BY <1>2, <1>4, <1>5, <1>6 DEF VerifyPage
  <1>8. ASSUME ~page.overlapped PROVE InFlight(page') = {}
    <2>1. id = page.retry /\ page.flights[id] = 1
      BY <1>1, <1>2, <1>8 DEF Orderly
    <2>2. \A i \in Identifiers : i # id => page.flights[i] = 0
      BY <1>2, <1>3, <1>8, <2>1 DEF Orderly, InFlight
    <2>3. \A i \in Identifiers : page'.flights[i] = 0
      BY <1>3, <1>5, <2>1, <2>2
    <2>4. QED
      BY <2>3 DEF InFlight
  <1>9. ASSUME ~page.overlapped
        PROVE  result # Blank => result = page.retry /\ error = "none"
    BY <1>1, <1>2, <1>4, <1>9 DEF Orderly
  <1>10. Orderly(page')
    BY <1>5, <1>8, <1>9 DEF Orderly
  <1>11. QED
    BY <1>1, <1>2, <1>7, <1>10, OnVerify

LEMMA PageKept == PageSpec => []PageInv
  <1>1. PageInv /\ [PageNext]_pageVars => PageInv'
    <2> SUFFICES ASSUME PageInv, [PageNext]_pageVars PROVE PageInv'
      OBVIOUS
    <2>1. CASE PageNext
      BY <2>1, HomeKeepsInv, AddressKeepsInv, ActivityKeepsInv, ReceiptKeepsInv,
         LinkKeepsInv, AskKeepsInv, AnswerKeepsInv DEF PageNext
    <2>2. CASE UNCHANGED pageVars
      BY <2>2 DEF pageVars, PageInv, PageTypeOK, AskedIsWallet, OneRequest,
                  BoardIsOfWallet, ReceiptIsOfLink, VerdictIsOfLastAsked, InFlight
    <2>3. QED
      BY <2>1, <2>2
  <1>2. QED
    BY PageStarts, <1>1, PTL DEF PageSpec

(***************************************************************************)
(* Whichever page is mounted, its state keeps its shape and no more than   *)
(* MaxFlights requests for an identifier are counted.                      *)
(***************************************************************************)
THEOREM PageTypesHold == PageSpec => []PageTypeOK
  BY PageKept, PTL DEF PageInv

(***************************************************************************)
(* The board comes to rest on the connected wallet's data only, however    *)
(* many wallets came and went and whatever their requests answer.          *)
(***************************************************************************)
THEOREM BoardIsOfWalletHolds == PageSpec => []BoardIsOfWallet
  BY PageKept, PTL DEF PageInv

(***************************************************************************)
(* A receipt page comes to rest on the answer for the hash in its link.    *)
(***************************************************************************)
THEOREM ReceiptIsOfLinkHolds == PageSpec => []ReceiptIsOfLink
  BY PageKept, PTL DEF PageInv

(***************************************************************************)
(* The verdict of the verification page is about the identifier asked for  *)
(* last, and its button closed just while a request is under way, as long  *)
(* as no changed link sent one over another.                               *)
(***************************************************************************)
THEOREM VerdictIsOfLastAskedHolds == PageSpec => []VerdictIsOfLastAsked
  BY PageKept, PTL DEF PageInv

=============================================================================
