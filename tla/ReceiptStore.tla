---------------------------- MODULE ReceiptStore ----------------------------
(***************************************************************************)
(* receipt-store.ts: the receipts a browser keeps of its own claims.       *)
(* They are entries of localStorage: one for each account and transaction, *)
(* an index for each account, and the last one of each account under the   *)
(* key of an older version.  Every tab writes the same storage and nothing *)
(* locks it, so persistReceipt is cut between its calls; a call may throw, *)
(* or the tab close, at each of them.  clearReceipt is left out: nothing   *)
(* calls it.                                                               *)
(***************************************************************************)
EXTENDS Naturals

CONSTANTS
    Accounts,  \* Stellar accounts
    Hashes,    \* transaction hashes
    Tabs,      \* tabs of one browser on the site
    MaxSaves,  \* bound on the receipts saved
    None       \* no receipt, no account

ReceiptAction == {"submit_claim", "register_researcher"}

StoredReceipt == [account : Accounts, hash : Hashes, action : ReceiptAction,
                  status : {"confirmed", "unstated"}, savedAt : Nat]

ASSUME StoreAssumption ==
    /\ MaxSaves \in Nat
    /\ None \notin Accounts \cup Nat \cup StoredReceipt

VARIABLES
    saved,   \* V2_PREFIX: the receipt of each account and hash
    index,   \* V2_INDEX_PREFIX: the hashes listed for each account
    legacy,  \* LEGACY_PREFIX: the last submit_claim receipt of each account
    saves,   \* the clock that savedAt is read from: two saves never share a time
    save,    \* the persistReceipt under way in each tab
    done,    \* history: savedAt of the newest receipt kept to the last write
    raced    \* history: the index changed between a read and the write after it

storeVars == <<saved, index, legacy, saves, save, done, raced>>

Save == [pc : {"index", "merge", "legacy"}, receipt : StoredReceipt, keys : SUBSET Hashes]

(* Shape of the storage and of the saves. *)
StoreTypeOK ==
    /\ saved \in [Accounts -> [Hashes -> StoredReceipt \cup {None}]]
    /\ index \in [Accounts -> SUBSET Hashes]
    /\ legacy \in [Accounts -> StoredReceipt \cup {None}]
    /\ saves \in 0 .. MaxSaves
    /\ save \in [Tabs -> Save \cup {None}]
    /\ done \in [Accounts -> Nat \cup {None}]
    /\ raced \in [Accounts -> BOOLEAN]

Older(a, h, action) ==
    [account |-> a, hash |-> h, action |-> action, status |-> "unstated", savedAt |-> 0]

(* A returning browser may hold one receipt of an older version for an     *)
(* account, or an indexed registration.                                    *)
StoreInit ==
    /\ \E old \in [Accounts -> Hashes \cup {None}], registered \in [Accounts -> Hashes \cup {None}] :
          /\ \A a \in Accounts : old[a] = None \/ registered[a] = None
          /\ legacy = [a \in Accounts |->
                          IF old[a] = None THEN None ELSE Older(a, old[a], "submit_claim")]
          /\ done = [a \in Accounts |-> IF old[a] = None THEN None ELSE 0]
          /\ index = [a \in Accounts |-> {registered[a]} \ {None}]
          /\ saved = [a \in Accounts |-> [h \in Hashes |->
                          IF h = registered[a] THEN Older(a, h, "register_researcher") ELSE None]]
    /\ saves = 0
    /\ save = [t \in Tabs |-> None]
    /\ raced = [a \in Accounts |-> FALSE]

-----------------------------------------------------------------------------

(* A record without a status is taken for a confirmed one. *)
normalizeReceipt(r) == IF r.status = "unstated" THEN [r EXCEPT !.status = "confirmed"] ELSE r

readReceipts(a) == {normalizeReceipt(saved[a][h]) : h \in {k \in index[a] : saved[a][k] # None}}

Newest(receipts) == CHOOSE r \in receipts : \A q \in receipts : q.savedAt <= r.savedAt

(* readReceipt for submit_claim, the only action asked for. *)
readReceipt(a) ==
    LET current == {r \in readReceipts(a) : r.action = "submit_claim"}
    IN  IF current # {} THEN Newest(current)
        ELSE IF legacy[a] # None /\ legacy[a].account = a THEN normalizeReceipt(legacy[a])
        ELSE None

(* preserveSignedTransaction: the wizard's receipt of a confirmed claim. *)
ClaimReceipt(a, h) ==
    [account |-> a, hash |-> h, action |-> "submit_claim", status |-> "confirmed",
     savedAt |-> saves + 1]

(* setItem(receiptKey), for the first time or again after a reload; the    *)
(* hash is that of a claim.                                                *)
PutReceipt(t, a, h) ==
    /\ save[t] = None /\ saves < MaxSaves
    /\ saved[a][h] # None => saved[a][h].action = "submit_claim"
    /\ saves' = saves + 1
    /\ saved' = [saved EXCEPT ![a][h] = ClaimReceipt(a, h)]
    /\ save' = [save EXCEPT ![t] = [pc |-> "index", receipt |-> ClaimReceipt(a, h), keys |-> {}]]
    /\ UNCHANGED <<index, legacy, done, raced>>

(* getItem(indexKey) *)
ReadIndex(t) ==
    /\ save[t] # None /\ save[t].pc = "index"
    /\ save' = [save EXCEPT ![t].pc = "merge", ![t].keys = index[save[t].receipt.account]]
    /\ UNCHANGED <<saved, index, legacy, saves, done, raced>>

(* Mutant: the index is written anew instead of extended. *)
OnlyThisKey(key, keys) == {key}

NextKeys(key, keys) == {key} \cup keys

(* setItem(indexKey) *)
WriteIndex(t) ==
    LET r == save[t].receipt
        a == r.account
    IN  /\ save[t] # None /\ save[t].pc = "merge"
        /\ index' = [index EXCEPT ![a] = NextKeys(r.hash, save[t].keys)]
        /\ raced' = [raced EXCEPT ![a] = @ \/ index[a] # save[t].keys]
        /\ save' = [save EXCEPT ![t].pc = "legacy"]
        /\ UNCHANGED <<saved, legacy, saves, done>>

(* setItem(legacyKey) *)
WriteLegacy(t) ==
    LET r == save[t].receipt
        a == r.account
    IN  /\ save[t] # None /\ save[t].pc = "legacy"
        /\ legacy' = [legacy EXCEPT ![a] = r]
        /\ done' = [done EXCEPT ![a] = IF @ # None /\ @ > r.savedAt THEN @ ELSE r.savedAt]
        /\ save' = [save EXCEPT ![t] = None]
        /\ UNCHANGED <<saved, index, saves, raced>>

(* A call throws (quota, storage disabled) or the tab closes. *)
StopSave(t) ==
    /\ save[t] # None
    /\ save' = [save EXCEPT ![t] = None]
    /\ UNCHANGED <<saved, index, legacy, saves, done, raced>>

StoreNext ==
    \/ \E t \in Tabs, a \in Accounts, h \in Hashes : PutReceipt(t, a, h)
    \/ \E t \in Tabs : ReadIndex(t) \/ WriteIndex(t) \/ WriteLegacy(t) \/ StopSave(t)

StoreSpec == StoreInit /\ [][StoreNext]_storeVars

-----------------------------------------------------------------------------

(***************************************************************************)
(* A stamp that a tab kept to the last write is found again, as a          *)
(* confirmed receipt of that account, whatever the other tabs save and     *)
(* wherever they stop; unless two tabs raced on the index, what is found   *)
(* is at least as new.  After a race an older receipt may hide it: the     *)
(* index is read and written without a lock (receipt-store.ts:134).        *)
(***************************************************************************)
KeptStampIsFound ==
    \A a \in Accounts :
        LET found == readReceipt(a)
        IN  done[a] # None =>
                /\ found # None
                /\ found.account = a
                /\ found.action = "submit_claim"
                /\ found.status = "confirmed"
                /\ raced[a] \/ found.savedAt >= done[a]
=============================================================================
