--------------------------- MODULE ClaimWizardProofs ---------------------------
(***************************************************************************)
(* The safety properties of the wizard for any number of wallets, runs   *)
(* of publish(), seals, transactions, retries and faults.                  *)
(*                                                                         *)
(* That a stamp is for a row of its own wallet is not plain from the code: *)
(* a row made earlier is used again when its commitment fits, and nobody   *)
(* compares its wallet.  It holds because a commitment is the seal of one  *)
(* wallet only (Uses, Owned): a seal is dropped when the wallet changes,   *)
(* and one that no wallet saw yet has not been used (Unused).              *)
(***************************************************************************)
EXTENDS ClaimWizard, TLAPS

PCs == {"idle", "readiness", "preparing", "simulating", "signing", "sending", "polling",
        "rechecking", "recording", "reconciling"}

Handler == [pc : PCs, wallet : Wallets \cup {None}, seal : Seals \cup {None},
            claim : Rows \cup {None}, act : Actions \cup {None},
            hash : Hashes \cup {None}, held : Hashes \cup {None},
            attempt : Nat, retry : BOOLEAN]

Slots == [hash : Hashes \cup {None}, wallet : Wallets \cup {None}] \cup {None}

Typed ==
    /\ address \in Wallets \cup {None}
    /\ seal \in Seals \cup {None} /\ nextSeal \in 0 .. MaxSeals
    /\ backendClaim \in Rows \cup {None} /\ prepared \in Actions \cup {None}
    /\ pending \in Hashes \cup {None} /\ slot \in Slots
    /\ run \in [Handlers -> Handler]
    /\ sent \in Seq(Actions)
    /\ registered \in [Wallets -> Seals \cup {None}]

(* What a handler works on belongs together. *)
Matches(a) == a # None => a.claim.wallet = a.wallet

Works(r) ==
    /\ Matches(r.act)
    /\ r.pc \in {"signing", "sending"} => r.act \in Actions /\ r.act # None
    /\ r.pc \in {"readiness", "preparing", "simulating"} =>
          r.wallet \in Wallets /\ r.seal \in Seals
    /\ r.pc = "simulating" => r.claim \in Rows /\ r.claim # None /\ r.claim.wallet = r.wallet
    /\ r.pc = "polling" => r.hash \in Hashes

AllMatch ==
    /\ Matches(prepared)
    /\ \A h \in Handlers : Works(run[h])
    /\ \A t \in DOMAIN sent : sent[t] # None /\ Matches(sent[t])

(* Commitment c is in use by wallet w. *)
RowUses(row, c, w) == row # None /\ row.commitment = c /\ row.wallet = w

ActUses(a, c, w) == a # None /\ RowUses(a.claim, c, w)

HandlerUses(r, c, w) ==
    \/ RowUses(r.claim, c, w) \/ ActUses(r.act, c, w)
    \/ r.pc \in {"readiness", "preparing"} /\ r.seal = c /\ r.wallet = w

Uses(c, w) ==
    \/ RowUses(backendClaim, c, w) \/ ActUses(prepared, c, w)
    \/ \E h \in Handlers : HandlerUses(run[h], c, w)
    \/ \E t \in DOMAIN sent : ActUses(sent[t], c, w)
    \/ registered[w] = c
    \/ seal = c /\ address = w

Owned == \A c \in Seals, v, w \in Wallets : Uses(c, v) /\ Uses(c, w) => v = w

Unused ==
    \A c \in Seals, w \in Wallets : Uses(c, w) =>
        c <= nextSeal /\ (address = None => seal # c)

WizardInv ==
    /\ Typed /\ AllMatch /\ Owned /\ Unused
    /\ seal # None => seal <= nextSeal
    /\ ReviewShowsPrepared /\ BusyIsCarried

LEMMA IdleIs == Idle \in Handler /\ Works(Idle) /\ Idle.pc = "idle" /\ Idle.claim = None /\ Idle.act = None
  BY DEF Idle, Handler, PCs, Works, Matches

LEMMA WizardStart == Init => WizardInv
  <1> SUFFICES ASSUME Init PROVE WizardInv
    OBVIOUS
  <1>1. /\ address = None /\ seal = None /\ nextSeal = 0 /\ backendClaim = None
        /\ prepared = None /\ review = None /\ pending = None /\ slot = None
        /\ stage = "idle" /\ sent = << >> /\ run = [h \in Handlers |-> Idle]
        /\ registered = [w \in Wallets |-> None]
    BY DEF Init
  <1>2. MaxSeals \in Nat /\ 0 \in 0 .. MaxSeals
    BY WizardAssumption
  <1>3. Typed
    BY <1>1, <1>2, IdleIs DEF Typed, Slots
  <1>4. AllMatch
    BY <1>1, IdleIs DEF AllMatch, Matches
  <1>5. \A c \in Seals, w \in Wallets : ~Uses(c, w)
    BY <1>1, IdleIs, WizardAssumption DEF Uses, RowUses, ActUses, HandlerUses, Seals
  <1>6. QED
    BY <1>1, <1>3, <1>4, <1>5
       DEF WizardInv, Owned, Unused, ReviewShowsPrepared, BusyIsCarried, Busy

-----------------------------------------------------------------------------
(* A step that puts no commitment to new use. *)
LEMMA OwnedStays ==
    ASSUME Owned, Unused, nextSeal' = nextSeal,
           \A c \in Seals, w \in Wallets : Uses(c, w)' => Uses(c, w),
           address' = None => seal' = None \/ (address = None /\ seal' = seal)
    PROVE  Owned' /\ Unused'
  <1>1. Owned'
    BY DEF Owned
  <1>2. Unused'
    <2> SUFFICES ASSUME NEW c \in Seals, NEW w \in Wallets, Uses(c, w)'
                 PROVE  c <= nextSeal' /\ (address' = None => seal' # c)
      BY DEF Unused
    <2>1. c <= nextSeal /\ (address = None => seal # c)
      BY DEF Unused
    <2>2. None \notin Seals
      BY WizardAssumption DEF Seals
    <2>3. QED
      BY <2>1, <2>2
  <1>3. QED
    BY <1>1, <1>2

(* A step of the form or the wallet: it prepares nothing. *)
LEMMA FormKeeps ==
    ASSUME WizardInv, UNCHANGED <<run, sent, registered, slot>>,
           backendClaim' = backendClaim,
           address' \in Wallets \cup {None}, seal' \in Seals \cup {None},
           nextSeal' \in 0 .. MaxSeals, pending' \in Hashes \cup {None},
           seal' # None => seal' <= nextSeal',
           UNCHANGED <<prepared, review>> \/ Dropped,
           stage' \in Busy => stage' = stage,
           Owned', Unused'
    PROVE  WizardInv'
  <1>1. Typed' /\ AllMatch'
    BY DEF WizardInv, Typed, AllMatch, Matches, Dropped
  <1>2. ReviewShowsPrepared' /\ BusyIsCarried'
    BY DEF WizardInv, ReviewShowsPrepared, BusyIsCarried, Running, Dropped
  <1>3. QED
    BY <1>1, <1>2 DEF WizardInv

LEMMA InvalidatedIs ==
    ASSUME Invalidated
    PROVE  /\ UNCHANGED <<prepared, review>> \/ Dropped
           /\ stage' \in Busy => stage' = stage
  BY DEF Invalidated, stamp, Dropped, Busy

LEMMA RestoreIs ==
    ASSUME WizardInv, NEW w, NEW v, RestoreFor(w, v)
    PROVE  pending' \in Hashes \cup {None} /\ stage' \notin Busy
  BY DEF RestoreFor, readPendingReceiptSync, WizardInv, Typed, Slots, Busy

(* What the form may drop. *)
LEMMA FormUses ==
    ASSUME WizardInv, UNCHANGED <<run, sent, registered, backendClaim>>,
           prepared' \in {prepared, None},
           seal' \in {seal, None}, address' = address,
           NEW c \in Seals, NEW w \in Wallets, Uses(c, w)'
    PROVE  Uses(c, w)
  BY WizardAssumption DEF Uses, HandlerUses, ActUses, RowUses, Seals

LEMMA FormDropKeeps ==
    ASSUME WizardInv, Edit \/ confirmReview \/ clearPrivateEvidence \/ Reset \/ loadExample
    PROVE  WizardInv'
  <1>1. /\ UNCHANGED <<run, sent, registered, slot>> /\ backendClaim' = backendClaim
        /\ address' = address /\ nextSeal' = nextSeal /\ seal' \in {seal, None}
    BY DEF Edit, confirmReview, clearPrivateEvidence, Reset, loadExample, reset, scoped,
           sync, remote
  <1>2. /\ UNCHANGED <<prepared, review>> \/ Dropped
        /\ stage' \in Busy => stage' = stage
        /\ pending' \in Hashes \cup {None}
    <2>1. CASE Edit \/ confirmReview
      BY <2>1, InvalidatedIs DEF Edit, confirmReview, sync, WizardInv, Typed
    <2>2. CASE clearPrivateEvidence
      BY <2>2 DEF clearPrivateEvidence, sync, Dropped, WizardInv, Typed
    <2>3. CASE Reset \/ loadExample
      BY <2>3, RestoreIs DEF Reset, loadExample, reset, Dropped
    <2>4. QED
      BY <2>1, <2>2, <2>3
  <1>3. \A c \in Seals, w \in Wallets : Uses(c, w)' => Uses(c, w)
    BY <1>1, <1>2, FormUses DEF Dropped
  <1>4. Owned' /\ Unused'
    BY <1>1, <1>3, OwnedStays DEF WizardInv
  <1>5. QED
    BY <1>1, <1>2, <1>4, FormKeeps DEF WizardInv, Typed

(* A new seal is in use by nobody but the connected wallet. *)
LEMMA NewSealKeeps ==
    ASSUME WizardInv, generateSeal \/ LoadContinuation
    PROVE  WizardInv'
  <1>1. /\ UNCHANGED <<run, sent, registered, slot>> /\ backendClaim' = backendClaim
        /\ address' = address /\ pending' = pending
        /\ nextSeal < MaxSeals /\ nextSeal' = nextSeal + 1 /\ seal' = nextSeal + 1
    BY DEF generateSeal, LoadContinuation, scoped, stamp, sync, remote
  <1>2. /\ UNCHANGED <<prepared, review>> \/ Dropped
        /\ stage' \in Busy => stage' = stage
    BY InvalidatedIs DEF generateSeal, LoadContinuation, stamp
  <1>3. nextSeal \in 0 .. MaxSeals /\ MaxSeals \in Nat
    BY WizardAssumption DEF WizardInv, Typed
  <1>4. seal' \in Seals /\ nextSeal' \in 0 .. MaxSeals /\ seal' <= nextSeal'
    BY <1>1, <1>3 DEF Seals
  <1>5. \A c \in Seals, w \in Wallets :
            Uses(c, w)' => Uses(c, w) \/ (c = nextSeal + 1 /\ w = address)
    BY <1>1, <1>2 DEF Uses, HandlerUses, ActUses, RowUses, Dropped
  <1>6. \A c \in Seals, w \in Wallets : Uses(c, w) => c <= nextSeal
    BY DEF WizardInv, Unused
  <1>7. Owned'
    BY <1>3, <1>5, <1>6 DEF WizardInv, Owned, Seals
  <1>8. Unused'
    <2> SUFFICES ASSUME NEW c \in Seals, NEW w \in Wallets, Uses(c, w)'
                 PROVE  c <= nextSeal' /\ (address' = None => seal' # c)
      BY DEF Unused
    <2>1. CASE Uses(c, w)
      BY <1>1, <1>3, <1>6, <2>1 DEF Seals
    <2>2. CASE c = nextSeal + 1 /\ w = address
      BY <1>1, <1>3, <2>2, WizardAssumption
    <2>3. QED
      BY <1>5, <2>1, <2>2
  <1>9. QED
    BY <1>1, <1>2, <1>4, <1>7, <1>8, FormKeeps DEF WizardInv, Typed

(* The seal of a wallet goes with it; one made without a wallet is unused. *)
LEMMA WalletKeeps == ASSUME WizardInv, WalletChange PROVE WizardInv'
  <1>1. PICK w \in (Wallets \cup {None}) \ {address} :
        /\ address' = w
        /\ IF address # None
           THEN seal' = None /\ Dropped /\ RestoreFor(w, FALSE)
           ELSE /\ \/ RestoreFor(w, receiptView)
                   \/ UNCHANGED <<pending, receipt, stage, receiptView>>
                /\ UNCHANGED <<seal, prepared, review>>
    BY DEF WalletChange
  <1>2. /\ UNCHANGED <<run, sent, registered, slot>> /\ backendClaim' = backendClaim
        /\ nextSeal' = nextSeal
    BY DEF WalletChange, remote
  <1>3. seal' \in {seal, None} /\ (address # None => seal' = None)
    BY <1>1
  <1>4. /\ UNCHANGED <<prepared, review>> \/ Dropped
        /\ pending' \in Hashes \cup {None}
        /\ stage' \in Busy => stage' = stage
    BY <1>1, RestoreIs DEF Dropped, WizardInv, Typed
  <1>5. \A c \in Seals, v \in Wallets :
            Uses(c, v)' => Uses(c, v) \/ (address = None /\ seal = c /\ v = w)
    BY <1>1, <1>2, <1>3, <1>4, WizardAssumption
       DEF Uses, HandlerUses, ActUses, RowUses, Seals, Dropped
  <1>6. \A c \in Seals, v \in Wallets : Uses(c, v) => ~(address = None /\ seal = c)
    BY DEF WizardInv, Unused
  <1>7. Owned'
    BY <1>5, <1>6 DEF WizardInv, Owned
  <1>8. Unused'
    <2> SUFFICES ASSUME NEW c \in Seals, NEW v \in Wallets, Uses(c, v)'
                 PROVE  c <= nextSeal' /\ (address' = None => seal' # c)
      BY DEF Unused
    <2>1. c <= nextSeal'
      BY <1>2, <1>5, WizardAssumption DEF WizardInv, Unused, Seals
    <2>2. address' = None => seal' # c
      BY <1>1, <1>3, WizardAssumption DEF Seals
    <2>3. QED
      BY <2>1, <2>2
  <1>9. QED
    BY <1>1, <1>2, <1>3, <1>4, <1>7, <1>8, FormKeeps DEF WizardInv, Typed

LEMMA ReloadKeeps == ASSUME WizardInv, Reload PROVE WizardInv'
  <1>1. /\ address' = None /\ seal' = None /\ backendClaim' = None
        /\ prepared' = None /\ review' = None /\ pending' = None /\ stage' = "idle"
        /\ run' = [h \in Handlers |-> Idle]
        /\ UNCHANGED <<nextSeal, slot, sent, registered>>
    BY DEF Reload, Dropped, remote
  <1>2. Typed'
    BY <1>1, IdleIs DEF WizardInv, Typed
  <1>3. AllMatch'
    BY <1>1, IdleIs DEF WizardInv, AllMatch, Matches
  <1>4. \A c \in Seals, w \in Wallets : Uses(c, w)' => Uses(c, w)
    BY <1>1, IdleIs, WizardAssumption DEF Uses, HandlerUses, ActUses, RowUses, Seals
  <1>5. Owned' /\ Unused'
    BY <1>1, <1>4, OwnedStays DEF WizardInv
  <1>6. ReviewShowsPrepared' /\ BusyIsCarried'
    BY <1>1 DEF ReviewShowsPrepared, BusyIsCarried, Busy
  <1>7. QED
    BY <1>1, <1>2, <1>3, <1>5, <1>6 DEF WizardInv

-----------------------------------------------------------------------------
(***************************************************************************)
(* A step of handler h: it becomes r, and what it writes was in its hands. *)
(***************************************************************************)
LEMMA Moves ==
    ASSUME WizardInv, NEW h \in Handlers, NEW r \in Handler, Go(h, r), Works(r),
           \A c \in Seals, w \in Wallets : HandlerUses(r, c, w) => Uses(c, w),
           UNCHANGED <<address, seal, nextSeal, registered>>,
           pending' \in Hashes \cup {None}, slot' \in Slots,
           backendClaim' \in {backendClaim, r.claim},
           review' = prepared',
           prepared' \in Actions \cup {None}, Matches(prepared)',
           \A c \in Seals, w \in Wallets : ActUses(prepared, c, w)' => Uses(c, w),
           sent' = sent \/ (run[h].pc = "sending" /\ sent' = Append(sent, run[h].act)),
           stage' \in Busy => r.pc # "idle"
    PROVE  WizardInv'
  <1> USE DEF WizardInv
  <1>1. /\ run' \in [Handlers -> Handler] /\ run'[h] = r
        /\ \A k \in Handlers \ {h} : run'[k] = run[k]
    BY DEF Go, Typed
  <1>2. /\ sent' \in Seq(Actions)
        /\ \A t \in DOMAIN sent' :
              \/ t \in DOMAIN sent /\ sent'[t] = sent[t]
              \/ run[h].pc = "sending" /\ sent'[t] = run[h].act
    <2>1. CASE sent' = sent
      BY <2>1 DEF Typed
    <2>2. CASE run[h].pc = "sending" /\ sent' = Append(sent, run[h].act)
      <3>1. run[h].act \in Actions /\ sent \in Seq(Actions)
        BY <2>2 DEF AllMatch, Works, Typed
      <3>2. QED
        BY <2>2, <3>1
    <2>3. QED
      BY <2>1, <2>2
  <1>3. Typed'
    BY <1>1, <1>2 DEF Typed, Handler
  <1>4. AllMatch'
    <2>1. \A t \in DOMAIN sent' : sent'[t] # None /\ Matches(sent'[t])
      BY <1>2 DEF AllMatch, Works
    <2>2. \A k \in Handlers : Works(run'[k])
      BY <1>1 DEF AllMatch
    <2>3. QED
      BY <2>1, <2>2 DEF AllMatch, Works, Matches
  <1>5. \A c \in Seals, w \in Wallets : Uses(c, w)' => Uses(c, w)
    <2> SUFFICES ASSUME NEW c \in Seals, NEW w \in Wallets, Uses(c, w)' PROVE Uses(c, w)
      OBVIOUS
    <2>1. CASE RowUses(backendClaim, c, w)'
      BY <2>1 DEF Uses, RowUses, HandlerUses
    <2>2. CASE ActUses(prepared, c, w)'
      BY <2>2
    <2>3. ASSUME NEW k \in Handlers, HandlerUses(run[k], c, w)' PROVE Uses(c, w)
      BY <1>1, <2>3 DEF Uses, HandlerUses, RowUses, ActUses
    <2>4. ASSUME NEW t \in DOMAIN sent', ActUses(sent'[t], c, w) PROVE Uses(c, w)
      BY <1>2, <2>4 DEF Uses, HandlerUses
    <2>5. QED
      BY <2>1, <2>2, <2>3, <2>4 DEF Uses, ActUses, RowUses
  <1>6. Owned' /\ Unused'
    BY <1>5, OwnedStays
  <1>7. BusyIsCarried'
    BY <1>1 DEF BusyIsCarried, Running
  <1>8. QED
    BY <1>3, <1>4, <1>6, <1>7 DEF ReviewShowsPrepared

(* A handler that ends leaves no waiting behind. *)
LEMMA Stops ==
    ASSUME WizardInv, NEW h \in Handlers, EndOf(h),
           UNCHANGED <<address, seal, nextSeal, registered, backendClaim>>,
           pending' \in Hashes \cup {None}, slot' \in Slots,
           UNCHANGED <<prepared, review>> \/ Dropped,
           sent' = sent \/ (run[h].pc = "sending" /\ sent' = Append(sent, run[h].act)),
           stage' \notin Busy
    PROVE  WizardInv'
  <1>1. Go(h, Idle) /\ backendClaim' = backendClaim
    BY DEF EndOf
  <1>2. \A c \in Seals, w \in Wallets : ~HandlerUses(Idle, c, w)
    BY IdleIs DEF HandlerUses, RowUses, ActUses
  <1>3. /\ review' = prepared' /\ prepared' \in {prepared, None}
    BY DEF Dropped, WizardInv, ReviewShowsPrepared
  <1>4. /\ prepared' \in Actions \cup {None} /\ Matches(prepared)'
        /\ \A c \in Seals, w \in Wallets : ActUses(prepared, c, w)' => Uses(c, w)
    BY <1>3 DEF WizardInv, Typed, AllMatch, Matches, Uses, ActUses, RowUses
  <1>5. QED
    BY <1>1, <1>2, <1>3, <1>4, IdleIs, Moves

(* A handler that goes on with what it has. *)
LEMMA GoesOn ==
    ASSUME WizardInv, NEW h \in Handlers, NEW r \in Handler, Go(h, r), Works(r),
           r.claim = run[h].claim, r.act = run[h].act,
           r.pc \in {"readiness", "preparing"} =>
               run[h].pc \in {"readiness", "preparing"} /\ r.seal = run[h].seal
               /\ r.wallet = run[h].wallet,
           r.pc # "idle",
           UNCHANGED <<address, seal, nextSeal, registered, backendClaim>>,
           pending' \in Hashes \cup {None}, slot' \in Slots,
           UNCHANGED <<prepared, review>> \/ Dropped,
           sent' = sent \/ (run[h].pc = "sending" /\ sent' = Append(sent, run[h].act))
    PROVE  WizardInv'
  <1>1. \A c \in Seals, w \in Wallets : HandlerUses(r, c, w) => Uses(c, w)
    BY DEF HandlerUses, Uses
  <1>2. /\ review' = prepared' /\ prepared' \in {prepared, None}
    BY DEF Dropped, WizardInv, ReviewShowsPrepared
  <1>3. /\ prepared' \in Actions \cup {None} /\ Matches(prepared)'
        /\ \A c \in Seals, w \in Wallets : ActUses(prepared, c, w)' => Uses(c, w)
    BY <1>2 DEF WizardInv, Typed, AllMatch, Matches, Uses, ActUses, RowUses
  <1>4. QED
    BY <1>1, <1>2, <1>3, Moves

-----------------------------------------------------------------------------
LEMMA ApproveKeeps ==
    ASSUME WizardInv, NEW h \in Handlers, approvePreparedTransaction(h) PROVE WizardInv'
  <1> DEFINE r == [Idle EXCEPT !.pc = "signing", !.wallet = address,
                               !.act = prepared, !.held = pending]
  <1>1. /\ Go(h, r) /\ prepared # None
        /\ UNCHANGED <<address, seal, nextSeal, registered, backendClaim, pending, slot,
                       prepared, review, sent>>
    BY DEF approvePreparedTransaction, Click, Offered, scoped, sync, remote
  <1>2. /\ r \in Handler /\ r.pc = "signing" /\ r.act = prepared /\ r.claim = None
    BY DEF Idle, Handler, PCs, WizardInv, Typed
  <1> HIDE DEF r
  <1>3. Works(r)
    BY <1>1, <1>2 DEF Works, WizardInv, Typed, AllMatch
  <1>4. \A c \in Seals, w \in Wallets : HandlerUses(r, c, w) => Uses(c, w)
    BY <1>2 DEF HandlerUses, Uses, RowUses
  <1>5. \A c \in Seals, w \in Wallets : ActUses(prepared, c, w)' => Uses(c, w)
    BY <1>1 DEF Uses, ActUses, RowUses
  <1>6. QED
    BY <1>1, <1>2, <1>3, <1>4, <1>5, Moves
       DEF WizardInv, Typed, AllMatch, Matches, ReviewShowsPrepared

LEMMA RetryKeeps ==
    ASSUME WizardInv, NEW h \in Handlers, retrySync(h) PROVE WizardInv'
  <1> DEFINE r == [Idle EXCEPT !.pc = "rechecking", !.wallet = address,
                               !.hash = pending, !.retry = TRUE]
  <1>1. /\ Go(h, r)
        /\ UNCHANGED <<address, seal, nextSeal, registered, backendClaim, pending, slot,
                       prepared, review, sent>>
    BY DEF retrySync, Click, scoped, sync, remote, stamp
  <1>2. /\ r \in Handler /\ r.pc = "rechecking" /\ r.act = None /\ r.claim = None
    BY DEF Idle, Handler, PCs, WizardInv, Typed
  <1> HIDE DEF r
  <1>3. Works(r) /\ \A c \in Seals, w \in Wallets : ~HandlerUses(r, c, w)
    BY <1>2 DEF Works, Matches, HandlerUses, RowUses, ActUses
  <1>4. \A c \in Seals, w \in Wallets : ActUses(prepared, c, w)' => Uses(c, w)
    BY <1>1 DEF Uses, ActUses, RowUses
  <1>5. QED
    BY <1>1, <1>2, <1>3, <1>4, Moves
       DEF WizardInv, Typed, AllMatch, Matches, ReviewShowsPrepared

(* The seal of the click is in use by the wallet of the click. *)
LEMMA PrepareKeeps ==
    ASSUME WizardInv, NEW h \in Handlers, prepareStamp(h) PROVE WizardInv'
  <1> DEFINE r == [Idle EXCEPT !.pc = "readiness", !.wallet = address, !.seal = seal,
                               !.claim = backendClaim, !.held = pending]
  <1>1. /\ Go(h, r) /\ seal # None /\ address # None /\ Dropped
        /\ UNCHANGED <<address, seal, nextSeal, registered, backendClaim, pending, slot, sent>>
    BY DEF prepareStamp, Click, scoped, sync, remote
  <1>2. /\ r \in Handler /\ r.pc = "readiness" /\ r.act = None /\ r.claim = backendClaim
        /\ r.wallet = address /\ r.seal = seal
    BY DEF Idle, Handler, PCs, WizardInv, Typed
  <1> HIDE DEF r
  <1>3. Works(r)
    BY <1>1, <1>2 DEF Works, Matches, WizardInv, Typed
  <1>4. \A c \in Seals, w \in Wallets : HandlerUses(r, c, w) => Uses(c, w)
    BY <1>1, <1>2 DEF HandlerUses, Uses, ActUses
  <1>5. /\ prepared' = None /\ review' = None
        /\ \A c \in Seals, w \in Wallets : ~ActUses(prepared, c, w)'
    BY <1>1 DEF Dropped, ActUses
  <1>6. QED
    BY <1>1, <1>2, <1>3, <1>4, <1>5, Moves DEF WizardInv, Typed, Matches

LEMMA ReadyKeeps ==
    ASSUME WizardInv, NEW h \in Handlers, Ready(h) PROVE WizardInv'
  <1> DEFINE r == [run[h] EXCEPT !.pc = "preparing"]
  <1>1. run[h] \in Handler /\ Works(run[h])
    BY DEF WizardInv, Typed, AllMatch
  <1>2. r \in Handler /\ Works(r) /\ r.pc = "preparing" /\ r.claim = run[h].claim
        /\ r.act = run[h].act /\ r.seal = run[h].seal /\ r.wallet = run[h].wallet
    BY <1>1 DEF Ready, Handler, PCs, Works
  <1> HIDE DEF r
  <1>3. QED
    BY <1>2, GoesOn DEF Ready, scoped, sync, remote, WizardInv, Typed, r

(* The row, made now or earlier, is the wallet's: its commitment is. *)
LEMMA ChooseKeeps ==
    ASSUME WizardInv, NEW h \in Handlers, ChooseClaim(h) PROVE WizardInv'
  <1> DEFINE commitment == resolveOnChainResearcherCommitment(run[h].wallet, run[h].seal)
             row == RowFor(run[h], commitment)
             r == [run[h] EXCEPT !.pc = "simulating", !.claim = row]
  <1>1. /\ run[h] \in Handler /\ run[h].pc = "preparing"
        /\ run[h].wallet \in Wallets /\ run[h].seal \in Seals /\ Matches(run[h].act)
    BY DEF ChooseClaim, WizardInv, Typed, AllMatch, Works
  <1>2. commitment \in Seals /\ Uses(commitment, run[h].wallet)
    BY <1>1 DEF resolveOnChainResearcherCommitment, Uses, HandlerUses, WizardInv, Typed
  <1>3. row \in Rows /\ row.commitment = commitment /\ row.wallet = run[h].wallet
    <2>1. CASE run[h].claim # None /\ run[h].claim.commitment = commitment
      <3>1. row = run[h].claim /\ row \in Rows
        BY <1>1, <2>1 DEF RowFor, Handler
      <3>2. row.wallet \in Wallets /\ Uses(commitment, row.wallet)
        BY <2>1, <3>1 DEF Uses, HandlerUses, RowUses, Rows
      <3>3. QED
        BY <1>1, <1>2, <2>1, <3>1, <3>2 DEF WizardInv, Owned
    <2>2. CASE ~(run[h].claim # None /\ run[h].claim.commitment = commitment)
      BY <1>1, <1>2, <2>2 DEF RowFor, Rows
    <2>3. QED
      BY <2>1, <2>2
  <1>4. row # None
    BY <1>3, NoneAssumption
  <1>5. Go(h, r) /\ backendClaim' = row
        /\ UNCHANGED <<address, seal, nextSeal, registered, pending, slot, prepared, review, sent>>
    BY DEF ChooseClaim, scoped, sync, remote, stamp
  <1> HIDE DEF commitment, row
  <1>6. /\ r \in Handler /\ r.pc = "simulating" /\ r.claim = row /\ r.act = run[h].act
        /\ r.wallet = run[h].wallet /\ r.seal = run[h].seal
    BY <1>1, <1>3 DEF Handler, PCs
  <1> HIDE DEF r
  <1>7. Works(r)
    BY <1>1, <1>3, <1>4, <1>6 DEF Works
  <1>8. \A c \in Seals, w \in Wallets : HandlerUses(r, c, w) => Uses(c, w)
    BY <1>2, <1>3, <1>6 DEF HandlerUses, Uses, RowUses
  <1>9. \A c \in Seals, w \in Wallets : ActUses(prepared, c, w)' => Uses(c, w)
    BY <1>5 DEF Uses, ActUses, RowUses
  <1>10. QED
    BY <1>5, <1>6, <1>7, <1>8, <1>9, Moves
       DEF WizardInv, Typed, AllMatch, Matches, ReviewShowsPrepared

LEMMA SimulatedKeeps ==
    ASSUME WizardInv, NEW h \in Handlers, Simulated(h) PROVE WizardInv'
  <1> DEFINE act == ActionOf(run[h])
  <1>1. /\ run[h].pc = "simulating" /\ EndOf(h) /\ prepared' = act /\ review' = act
        /\ stage' = "reviewing"
        /\ UNCHANGED <<address, seal, nextSeal, registered, backendClaim, pending, slot, sent>>
    BY DEF Simulated, scoped, sync, remote
  <1>2. act \in Actions /\ act.claim = run[h].claim /\ act.claim.wallet = act.wallet
    BY <1>1 DEF WizardInv, AllMatch, Works, ActionOf, Actions
  <1> HIDE DEF act
  <1>3. Matches(prepared)' /\ \A c \in Seals, w \in Wallets : ActUses(prepared, c, w)' => Uses(c, w)
    BY <1>1, <1>2 DEF Matches, ActUses, RowUses, Uses, HandlerUses
  <1>4. \A c \in Seals, w \in Wallets : ~HandlerUses(Idle, c, w)
    BY IdleIs DEF HandlerUses, RowUses, ActUses
  <1>5. QED
    BY <1>1, <1>2, <1>3, <1>4, IdleIs, Moves DEF EndOf, Busy, WizardInv, Typed

(* Signing ends with the call that was reviewed. *)
LEMMA SignKeeps ==
    ASSUME WizardInv, NEW h \in Handlers, SignApproved(h) PROVE WizardInv'
  <1>1. run[h] \in Handler /\ Works(run[h]) /\ run[h].pc = "signing"
    BY DEF SignApproved, WizardInv, Typed, AllMatch
  <1>2. Go(h, [run[h] EXCEPT !.pc = "sending", !.act = run[h].act])
    BY DEF SignApproved, assertSubmitClaimSignedXdrReady, decodeSubmitClaimArgsFromXdr
  <1> DEFINE r == [run[h] EXCEPT !.pc = "sending", !.act = run[h].act]
  <1>3. r \in Handler /\ Works(r) /\ r.pc = "sending" /\ r.claim = run[h].claim
        /\ r.act = run[h].act
    BY <1>1 DEF Handler, PCs, Works
  <1> HIDE DEF r
  <1>4. Go(h, r)
    BY <1>2 DEF r
  <1>5. QED
    BY <1>3, <1>4, GoesOn DEF SignApproved, scoped, sync, remote, WizardInv, Typed

LEMMA SendKeeps ==
    ASSUME WizardInv, NEW h \in Handlers, sendTransaction(h) PROVE WizardInv'
  <1>1. /\ run[h] \in Handler /\ Works(run[h]) /\ run[h].pc = "sending"
        /\ Len(sent) < MaxSent /\ sent' = Append(sent, run[h].act)
        /\ UNCHANGED <<address, seal, nextSeal, registered, backendClaim, pending, slot,
                       prepared, review>>
    BY DEF sendTransaction, Broadcast, WizardInv, Typed, AllMatch, scoped, sync, stamp
  <1>2. Len(sent) + 1 \in Hashes
    BY <1>1, WizardAssumption DEF WizardInv, Typed, Hashes
  <1>3. Go(h, [run[h] EXCEPT !.pc = "polling", !.hash = Len(sent) + 1])
    BY DEF sendTransaction, Replies, responseHash
  <1> DEFINE r == [run[h] EXCEPT !.pc = "polling", !.hash = Len(sent) + 1]
  <1>4. r \in Handler /\ Works(r) /\ r.pc = "polling" /\ r.claim = run[h].claim
        /\ r.act = run[h].act
    BY <1>1, <1>2 DEF Handler, PCs, Works
  <1> HIDE DEF r
  <1>5. Go(h, r)
    BY <1>3 DEF r
  <1>6. QED
    BY <1>1, <1>4, <1>5, GoesOn DEF WizardInv, Typed

(* The hash goes to the screen and into the slot. *)
LEMMA SyncBegins ==
    ASSUME WizardInv, NEW h \in Handlers, BeginSync(h) \/ RefuseSync(h),
           run[h].pc \in {"polling", "rechecking"},
           UNCHANGED <<address, seal, nextSeal, registered, backendClaim, sent>>,
           UNCHANGED <<prepared, review>> \/ Dropped
    PROVE  WizardInv'
  <1>1. run[h] \in Handler /\ Works(run[h])
    BY DEF WizardInv, Typed, AllMatch
  <1>2. run[h].hash \in Hashes \cup {None} /\ run[h].wallet \in Wallets \cup {None}
    BY <1>1 DEF Handler
  <1>3. CASE BeginSync(h)
    <2> DEFINE r == [run[h] EXCEPT !.pc = "recording"]
    <2>1. r \in Handler /\ Works(r) /\ r.pc = "recording" /\ r.claim = run[h].claim
          /\ r.act = run[h].act
      BY <1>1 DEF Handler, PCs, Works
    <2> HIDE DEF r
    <2>2. Go(h, r) /\ pending' = run[h].hash /\ slot' \in Slots
      BY <1>2, <1>3 DEF BeginSync, writePendingReceiptSync,
                        pendingReceiptSyncFromTransaction, Slots, r
    <2>3. QED
      BY <1>2, <2>1, <2>2, GoesOn
  <1>4. CASE RefuseSync(h)
    BY <1>2, <1>4, Stops DEF RefuseSync, KeepForRetry, Busy, WizardInv, Typed
  <1>5. QED
    BY <1>3, <1>4

LEMMA PollSucceedsKeeps ==
    ASSUME WizardInv, NEW h \in Handlers, PollSucceeds(h) PROVE WizardInv'
  BY SyncBegins DEF PollSucceeds, remote

LEMMA RetryReadyKeeps ==
    ASSUME WizardInv, NEW h \in Handlers, RetryReady(h) PROVE WizardInv'
  BY SyncBegins DEF RetryReady, remote, scoped

LEMMA RecordKeeps ==
    ASSUME WizardInv, NEW h \in Handlers, recordBackendTransaction(h) \/ ReconcileAgain(h)
    PROVE  WizardInv'
  <1>1. run[h] \in Handler /\ Works(run[h])
    BY DEF WizardInv, Typed, AllMatch
  <1>2. PICK r \in Handler :
            /\ Go(h, r) /\ Works(r) /\ r.pc = "reconciling"
            /\ r.claim = run[h].claim /\ r.act = run[h].act
    <2>1. CASE recordBackendTransaction(h)
      <3> DEFINE r == [run[h] EXCEPT !.pc = "reconciling"]
      <3>1. /\ r \in Handler /\ Works(r) /\ r.pc = "reconciling"
            /\ r.claim = run[h].claim /\ r.act = run[h].act
        BY <1>1 DEF Handler, PCs, Works
      <3>2. Go(h, r)
        BY <2>1 DEF recordBackendTransaction
      <3>3. QED
        BY <3>1, <3>2
    <2>2. CASE ReconcileAgain(h)
      <3> DEFINE r == [run[h] EXCEPT !.attempt = @ + 1]
      <3>1. run[h].pc = "reconciling" /\ Go(h, r)
        BY <2>2 DEF ReconcileAgain
      <3>2. /\ r \in Handler /\ Works(r) /\ r.pc = "reconciling"
            /\ r.claim = run[h].claim /\ r.act = run[h].act
        BY <1>1, <3>1 DEF Handler, Works
      <3>3. QED
        BY <3>1, <3>2
    <2>3. QED
      BY <2>1, <2>2
  <1>3. UNCHANGED <<address, seal, nextSeal, registered, backendClaim, pending, slot,
                    prepared, review, sent>>
    BY DEF recordBackendTransaction, ReconcileAgain, scoped, sync, stamp, remote
  <1>4. QED
    BY <1>2, <1>3, GoesOn DEF WizardInv, Typed

LEMMA EndsKeep ==
    ASSUME WizardInv, NEW h \in Handlers,
           PrepareFails(h) \/ SignRefused(h) \/ ReceiptFound(h) \/ SyncFails(h)
    PROVE  WizardInv'
  <1>1. run[h] \in Handler
    BY DEF WizardInv, Typed
  <1>2. EndOf(h) /\ stage' \notin Busy
    BY DEF PrepareFails, SignRefused, ReceiptFound, SyncFails, KeepForRetry, Failed, Busy
  <1>3. UNCHANGED <<address, seal, nextSeal, registered, backendClaim, sent>>
    BY DEF PrepareFails, SignRefused, ReceiptFound, SyncFails, scoped, remote
  <1>4. UNCHANGED <<prepared, review>> \/ Dropped
    BY DEF PrepareFails, SignRefused, ReceiptFound, SyncFails, Failed
  <1>5. pending' \in Hashes \cup {None} /\ slot' \in Slots
    BY <1>1 DEF PrepareFails, SignRefused, ReceiptFound, SyncFails, KeepForRetry, sync,
                clearPendingReceiptSync, WizardInv, Typed, Slots, Handler
  <1>6. QED
    BY <1>2, <1>3, <1>4, <1>5, Stops

LEMMA ApprovalFailsKeeps ==
    ASSUME WizardInv, NEW h \in Handlers,
           SendFails(h) \/ SendUnanswered(h) \/ PollFailed(h) \/ PollGivesUp(h)
    PROVE  WizardInv'
  <1>1. run[h] \in Handler
    BY DEF WizardInv, Typed
  <1>2. ApprovalFails(h)
    BY DEF SendFails, SendUnanswered, PollFailed, PollGivesUp
  <1>3. /\ EndOf(h) /\ stage' \notin Busy
        /\ UNCHANGED <<address, seal, nextSeal, backendClaim, slot>>
        /\ UNCHANGED <<prepared, review>> \/ Dropped
        /\ pending' \in {pending, run[h].held}
    BY <1>2 DEF ApprovalFails, Failed, Busy, scoped
  <1>4. /\ registered' = registered
        /\ sent' = sent \/ (run[h].pc = "sending" /\ sent' = Append(sent, run[h].act))
    BY DEF SendFails, SendUnanswered, PollFailed, PollGivesUp, Broadcast, remote
  <1>5. QED
    BY <1>1, <1>3, <1>4, Stops DEF WizardInv, Typed, Handler

(* The ledger registers the commitment of a row of the wallet. *)
LEMMA RemoteKeeps == ASSUME WizardInv, Remote PROVE WizardInv'
  <1>1. PICK t \in DOMAIN sent : Land(t) \/ IssueReceipt(t)
    BY DEF Remote
  <1>2. UNCHANGED <<address, seal, nextSeal, prepared, review, stage, backendClaim,
                    pending, slot, run, sent>>
    BY <1>1 DEF Land, IssueReceipt, scoped, stamp, sync
  <1>3. \/ registered' = registered
        \/ registered' = [registered EXCEPT ![sent[t].wallet] = sent[t].claim.commitment]
    BY <1>1 DEF Land, IssueReceipt
  <1>4. /\ sent[t] \in Actions /\ sent[t] # None /\ sent[t].claim # None
        /\ sent[t].wallet \in Wallets /\ sent[t].claim.commitment \in Seals
        /\ sent[t].claim.wallet = sent[t].wallet
    <2>1. sent \in Seq(Actions) /\ sent[t] # None /\ Matches(sent[t])
      BY DEF WizardInv, Typed, AllMatch
    <2>2. sent[t] \in Actions
      BY <2>1
    <2>3. sent[t].claim \in Rows /\ sent[t].wallet \in Wallets
      BY <2>2 DEF Actions
    <2>4. sent[t].claim # None /\ sent[t].claim.commitment \in Seals
      BY <2>3, NoneAssumption DEF Rows
    <2>5. QED
      BY <2>1, <2>2, <2>3, <2>4 DEF Matches
  <1>5. \A c \in Seals, w \in Wallets : Uses(c, w)' => Uses(c, w)
    BY <1>2, <1>3, <1>4 DEF Uses, HandlerUses, ActUses, RowUses, WizardInv, Typed
  <1>6. Owned' /\ Unused'
    BY <1>2, <1>5, OwnedStays DEF WizardInv
  <1>7. Typed'
    BY <1>2, <1>3, <1>4 DEF WizardInv, Typed
  <1>8. QED
    BY <1>2, <1>6, <1>7
       DEF WizardInv, AllMatch, Matches, ReviewShowsPrepared, BusyIsCarried, Running

LEMMA WizardStep == WizardInv /\ [Next]_vars => WizardInv'
  <1> SUFFICES ASSUME WizardInv, [Next]_vars PROVE WizardInv'
    OBVIOUS
  <1>1. CASE Publish
    BY <1>1, ApproveKeeps, RetryKeeps, PrepareKeeps DEF Publish
  <1>2. ASSUME NEW h \in Handlers, HandlerStep(h) PROVE WizardInv'
    BY <1>2, ReadyKeeps, ChooseKeeps, SimulatedKeeps, SignKeeps, SendKeeps,
       PollSucceedsKeeps, RetryReadyKeeps, RecordKeeps, EndsKeep, ApprovalFailsKeeps
       DEF HandlerStep
  <1>3. CASE UNCHANGED vars
    <2>1. UNCHANGED <<address, seal, nextSeal, prepared, review, stage, backendClaim,
                      pending, slot, run, sent, registered>>
      BY <1>3 DEF vars, scoped, stamp, sync, remote
    <2>2. \A c \in Seals, w \in Wallets : Uses(c, w)' <=> Uses(c, w)
      BY <2>1 DEF Uses, HandlerUses, ActUses, RowUses
    <2>3. QED
      BY <2>1, <2>2 DEF WizardInv, Typed, AllMatch, Matches, Owned, Unused,
                        ReviewShowsPrepared, BusyIsCarried, Running
  <1>4. QED
    BY <1>1, <1>2, <1>3, WalletKeeps, ReloadKeeps, FormDropKeeps, NewSealKeeps, RemoteKeeps
       DEF Next, Keeping, Discarding

LEMMA WizardKept == Spec => []WizardInv
  BY WizardStart, WizardStep, PTL DEF Spec

-----------------------------------------------------------------------------
(***************************************************************************)
(* The review on screen is of the transaction that would be signed.        *)
(***************************************************************************)
THEOREM ReviewCorrect == Spec => []ReviewShowsPrepared
  BY WizardKept, PTL DEF WizardInv

(***************************************************************************)
(* Whatever rows the wizard keeps and uses again (claim-wizard.tsx:1881),  *)
(* it prepares and sends a stamp for a row of its own wallet only.         *)
(***************************************************************************)
THEOREM StampOfItsWallet == Spec => []ClaimOfItsWallet
  <1>1. WizardInv => ClaimOfItsWallet
    BY DEF WizardInv, AllMatch, Matches, ClaimOfItsWallet
  <1>2. QED
    BY WizardKept, <1>1, PTL

-----------------------------------------------------------------------------
(***************************************************************************)
(* The slot.  Until something meets a running handler, at most one runs,   *)
(* for the connected wallet; what it holds or syncs is what is on screen,  *)
(* and that is what the slot holds.  The retry always has a hash, and a    *)
(* receipt view without one is that of an issued receipt.                  *)
(***************************************************************************)
Syncing == {"rechecking", "recording", "reconciling"}

SlotHas(hash, w) == slot # None /\ slot.hash = hash /\ slot.wallet = w

HandlerFits(h) ==
    /\ address # None /\ run[h].wallet = address
    /\ IF run[h].pc \in Syncing
       THEN pending = run[h].hash /\ SlotHas(run[h].hash, address)
       ELSE run[h].held = pending

Offers ==
    receipt = None /\ address # None /\ slot # None /\ slot.wallet = address =>
        /\ \A h \in Running : run[h].pc \in Syncing
        /\ Running = {} => pending = slot.hash /\ stage = "backend_sync_failed"

Undisturbed ==
    /\ \A h, k \in Running : h = k
    /\ \A h \in Running : HandlerFits(h)
    /\ prepared # None => address # None
    /\ pending # None => address # None /\ SlotHas(pending, address)
    /\ Offers
    /\ slot # None => slot.hash # None
    /\ latest # None => slot # None /\ slot.hash = latest
    /\ stage = "backend_sync_failed" => pending # None
    /\ receiptView /\ pending = None => Running = {} /\ stage = "confirmed"

SlotInv == ~disturbed => Undisturbed

LEMMA SlotStart == Init => SlotInv
  BY IdleIs DEF Init, SlotInv, Undisturbed, Offers, Running

(* A step that leaves the handlers, the slot and what is on screen alone.  *)
LEMMA Aside ==
    ASSUME Undisturbed,
           UNCHANGED <<address, run, pending, receipt, slot, latest>>,
           prepared' \in {prepared, None},
           receiptView' => receiptView,
           stage' # stage => stage # "confirmed" /\ "backend_sync_failed" \notin {stage, stage'}
    PROVE  Undisturbed'
  BY DEF Undisturbed, Offers, HandlerFits, SlotHas, Running

LEMMA FormUndisturbed ==
    ASSUME Undisturbed,
           Edit \/ generateSeal \/ confirmReview \/ clearPrivateEvidence \/ LoadContinuation
    PROVE  Undisturbed'
  <1>1. UNCHANGED <<address, run, pending, receipt, slot, latest>>
    BY DEF Edit, generateSeal, confirmReview, clearPrivateEvidence, LoadContinuation, sync
  <1>2. /\ prepared' \in {prepared, None}
        /\ receiptView' => receiptView
        /\ stage' # stage => stage = "reviewing" /\ stage' = "idle"
    BY DEF Edit, generateSeal, confirmReview, clearPrivateEvidence, LoadContinuation,
           Invalidated, Dropped, stamp, scoped
  <1>3. QED
    BY <1>1, <1>2, Aside

(* Nothing runs; the effect reads the slot for the wallet. *)
LEMMA Restored ==
    ASSUME Undisturbed, Running = {}, NEW v,
           v => address' # None /\ readPendingReceiptSync(address') # None,
           RestoreFor(address', v), UNCHANGED <<run, slot, latest>>, prepared' = None
    PROVE  Undisturbed'
  BY DEF Undisturbed, Offers, HandlerFits, SlotHas, Running, RestoreFor, readPendingReceiptSync

LEMMA ResetUndisturbed ==
    ASSUME Undisturbed, Reset \/ loadExample, ~disturbed'
    PROVE  Undisturbed'
  BY Restored DEF Reset, loadExample, reset, Dropped

LEMMA WalletUndisturbed ==
    ASSUME Undisturbed, WalletChange, ~disturbed'
    PROVE  Undisturbed'
  <1>1. PICK w \in (Wallets \cup {None}) \ {address} :
        /\ address' = w
        /\ IF address # None
           THEN Dropped /\ RestoreFor(w, FALSE) /\ Running = {}
           ELSE /\ IF pending = None /\ receipt = None /\ readPendingReceiptSync(w) # None
                   THEN RestoreFor(w, receiptView)
                   ELSE UNCHANGED <<pending, receipt, stage, receiptView>>
                /\ UNCHANGED <<prepared, review>>
    BY DEF WalletChange
  <1>2. UNCHANGED <<run, slot, latest>>
    BY DEF WalletChange
  <1>3. CASE address # None
    BY <1>1, <1>2, <1>3, Restored DEF Dropped
  <1>4. CASE address = None
    <2>1. Running = {} /\ prepared = None /\ pending = None
      BY <1>4 DEF Undisturbed, HandlerFits
    <2>2. CASE receipt = None /\ readPendingReceiptSync(w) # None
      BY <1>1, <1>2, <1>4, <2>1, <2>2, Restored
    <2>3. CASE ~(receipt = None /\ readPendingReceiptSync(w) # None)
      BY <1>1, <1>2, <1>4, <2>1, <2>3
         DEF Undisturbed, Offers, HandlerFits, SlotHas, Running, readPendingReceiptSync
    <2>4. QED
      BY <2>2, <2>3
  <1>5. QED
    BY <1>3, <1>4

LEMMA ReloadUndisturbed ==
    ASSUME Undisturbed, Reload
    PROVE  Undisturbed'
  BY IdleIs DEF Reload, Dropped, Undisturbed, Offers, Running

(* The first handler, on what is on screen. *)
LEMMA ClickUndisturbed ==
    ASSUME WizardInv, Undisturbed, Publish, ~disturbed'
    PROVE  Undisturbed'
  <1>1. PICK h \in Handlers : approvePreparedTransaction(h) \/ retrySync(h) \/ prepareStamp(h)
    BY DEF Publish
  <1>2. /\ Running = {} /\ UNCHANGED <<address, pending, receipt, slot, latest>>
        /\ receiptView' = receiptView /\ (receiptView => pending # None)
    BY <1>1 DEF approvePreparedTransaction, retrySync, prepareStamp, Click, Enabled, sync,
                scoped
  <1>3. run \in [Handlers -> Handler]
    BY DEF WizardInv, Typed
  <1>4. CASE retrySync(h)
    <2>1. pending # None /\ prepared' = prepared
      BY <1>4 DEF retrySync, Retriable, stamp
    <2>2. /\ run'[h].pc = "rechecking" /\ run'[h].wallet = address /\ run'[h].hash = pending
          /\ \A k \in Handlers \ {h} : run'[k] = run[k]
      BY <1>3, <1>4 DEF retrySync, Go, Idle
    <2>3. Running' = {h}
      BY <1>2, <2>2 DEF Running
    <2>4. QED
      BY <1>2, <2>1, <2>2, <2>3 DEF Undisturbed, Offers, HandlerFits, SlotHas, Syncing
  <1>5. CASE approvePreparedTransaction(h) \/ prepareStamp(h)
    <2>1. /\ address # None /\ prepared' \in {prepared, None}
          /\ ~Retriable /\ stage' # "backend_sync_failed"
      BY <1>5 DEF approvePreparedTransaction, prepareStamp, Offered, Retriable, Dropped,
                  Undisturbed
    <2>2. /\ run'[h].pc \in {"signing", "readiness"} /\ run'[h].wallet = address
          /\ run'[h].held = pending
          /\ \A k \in Handlers \ {h} : run'[k] = run[k]
      BY <1>3, <1>5 DEF approvePreparedTransaction, prepareStamp, Go, Idle
    <2>3. Running' = {h}
      BY <1>2, <2>2 DEF Running
    <2>4. ~(receipt = None /\ slot # None /\ slot.wallet = address)
      BY <1>2, <2>1 DEF Undisturbed, Offers, SlotHas, Retriable
    <2>5. QED
      BY <1>2, <2>1, <2>2, <2>3, <2>4 DEF Undisturbed, Offers, HandlerFits, SlotHas, Syncing
  <1>6. QED
    BY <1>1, <1>4, <1>5

-----------------------------------------------------------------------------
(* A handler on its way, with nothing on screen changed. *)
LEMMA OnItsWay ==
    ASSUME WizardInv, Undisturbed, NEW h \in Running, NEW r, Go(h, r),
           r.pc # "idle", r.wallet = run[h].wallet,
           r.pc \in Syncing <=> run[h].pc \in Syncing,
           r.pc \in Syncing => r.hash = run[h].hash,
           r.held = run[h].held,
           UNCHANGED <<address, pending, receipt, slot, latest, prepared>>,
           receiptView' => receiptView,
           stage' = "backend_sync_failed" => stage = "backend_sync_failed"
    PROVE  Undisturbed'
  <1>1. run'[h] = r /\ \A k \in Handlers \ {h} : run'[k] = run[k]
    BY DEF Go, WizardInv, Typed, Running
  <1>2. Running' = Running
    BY <1>1 DEF Running
  <1>3. QED
    BY <1>1, <1>2 DEF Undisturbed, Offers, HandlerFits, SlotHas

LEMMA HandlerOnItsWay ==
    ASSUME WizardInv, Undisturbed, NEW h \in Handlers,
           \/ Ready(h) \/ ChooseClaim(h) \/ SignApproved(h) \/ sendTransaction(h)
           \/ recordBackendTransaction(h) \/ ReconcileAgain(h)
    PROVE  Undisturbed'
  <1> DEFINE u == run[h]
  <1>1. u \in Handler /\ u.pc # "idle" /\ h \in Running
    BY DEF Ready, ChooseClaim, SignApproved, sendTransaction, recordBackendTransaction,
           ReconcileAgain, WizardInv, Typed, Running
  <1>2. /\ UNCHANGED <<address, pending, receipt, slot, latest, prepared>>
        /\ receiptView' = receiptView
        /\ stage' \in {stage, "preparing", "signed", "issuing_receipt"}
    BY DEF Ready, ChooseClaim, SignApproved, sendTransaction, recordBackendTransaction,
           ReconcileAgain, sync, stamp, scoped
  <1>3. CASE Ready(h)
    <2> DEFINE r == [u EXCEPT !.pc = "preparing"]
    <2>1. Go(h, r) /\ u.pc = "readiness"
      BY <1>3 DEF Ready
    <2>2. r.pc = "preparing" /\ r.wallet = u.wallet /\ r.held = u.held
      BY <1>1 DEF Handler
    <2> HIDE DEF r
    <2>3. QED
      BY <1>1, <1>2, <2>1, <2>2, OnItsWay DEF Syncing
  <1>4. CASE ChooseClaim(h)
    <2>1. PICK row : Go(h, [u EXCEPT !.pc = "simulating", !.claim = row]) /\ u.pc = "preparing"
      BY <1>4 DEF ChooseClaim
    <2> DEFINE r == [u EXCEPT !.pc = "simulating", !.claim = row]
    <2>2. r.pc = "simulating" /\ r.wallet = u.wallet /\ r.held = u.held
      BY <1>1 DEF Handler
    <2> HIDE DEF r
    <2>3. QED
      BY <1>1, <1>2, <2>1, <2>2, OnItsWay DEF Syncing, r
  <1>5. CASE SignApproved(h)
    <2>1. PICK a : Go(h, [u EXCEPT !.pc = "sending", !.act = a]) /\ u.pc = "signing"
      BY <1>5 DEF SignApproved
    <2> DEFINE r == [u EXCEPT !.pc = "sending", !.act = a]
    <2>2. r.pc = "sending" /\ r.wallet = u.wallet /\ r.held = u.held
      BY <1>1 DEF Handler
    <2> HIDE DEF r
    <2>3. QED
      BY <1>1, <1>2, <2>1, <2>2, OnItsWay DEF Syncing, r
  <1>6. CASE sendTransaction(h)
    <2>1. PICK t : Go(h, [u EXCEPT !.pc = "polling", !.hash = t]) /\ u.pc = "sending"
      BY <1>6 DEF sendTransaction
    <2> DEFINE r == [u EXCEPT !.pc = "polling", !.hash = t]
    <2>2. r.pc = "polling" /\ r.wallet = u.wallet /\ r.held = u.held
      BY <1>1 DEF Handler
    <2> HIDE DEF r
    <2>3. QED
      BY <1>1, <1>2, <2>1, <2>2, OnItsWay DEF Syncing, r
  <1>7. CASE recordBackendTransaction(h)
    <2> DEFINE r == [u EXCEPT !.pc = "reconciling"]
    <2>1. Go(h, r) /\ u.pc = "recording"
      BY <1>7 DEF recordBackendTransaction
    <2>2. r.pc = "reconciling" /\ r.wallet = u.wallet /\ r.held = u.held /\ r.hash = u.hash
      BY <1>1 DEF Handler
    <2> HIDE DEF r
    <2>3. QED
      BY <1>1, <1>2, <2>1, <2>2, OnItsWay DEF Syncing
  <1>8. CASE ReconcileAgain(h)
    <2> DEFINE r == [u EXCEPT !.attempt = @ + 1]
    <2>1. Go(h, r) /\ u.pc = "reconciling"
      BY <1>8 DEF ReconcileAgain
    <2>2. r.pc = u.pc /\ r.wallet = u.wallet /\ r.held = u.held /\ r.hash = u.hash
      BY <1>1 DEF Handler
    <2> HIDE DEF r
    <2>3. QED
      BY <1>1, <1>2, <2>1, <2>2, OnItsWay DEF Syncing
  <1>9. QED
    BY <1>3, <1>4, <1>5, <1>6, <1>7, <1>8

(* A handler that ends was the only one. *)
LEMMA OnlyOne ==
    ASSUME WizardInv, Undisturbed, NEW h \in Running, EndOf(h)
    PROVE  Running' = {}
  BY IdleIs DEF EndOf, Go, WizardInv, Typed, Undisturbed, Running

(* One that ends before it has a confirmed hash leaves what was there.     *)
LEMMA EndsBefore ==
    ASSUME WizardInv, Undisturbed, NEW h \in Handlers,
           \/ Simulated(h) \/ PrepareFails(h) \/ SignRefused(h)
           \/ SendFails(h) \/ SendUnanswered(h) \/ PollFailed(h) \/ PollGivesUp(h)
    PROVE  Undisturbed'
  <1>1. h \in Running /\ run[h].pc \notin Syncing
    BY DEF Simulated, PrepareFails, SignRefused, SendFails, SendUnanswered, PollFailed,
           PollGivesUp, Running, Syncing
  <1>2. EndOf(h) /\ UNCHANGED <<address, receipt, slot, latest>>
    BY DEF Simulated, PrepareFails, SignRefused, SendFails, SendUnanswered, PollFailed,
           PollGivesUp, ApprovalFails, sync
  <1>3. /\ pending' \in {pending, run[h].held} /\ receiptView' = receiptView
        /\ stage' = "backend_sync_failed" => run[h].held # None
    BY DEF Simulated, PrepareFails, SignRefused, SendFails, SendUnanswered, PollFailed,
           PollGivesUp, ApprovalFails, Failed, sync, scoped
  <1>4. address # None /\ run[h].held = pending
    BY <1>1 DEF Undisturbed, HandlerFits
  <1>5. ~(receipt = None /\ slot # None /\ slot.wallet = address)
    BY <1>1, <1>4 DEF Undisturbed, Offers
  <1>6. Running' = {}
    BY <1>1, <1>2, OnlyOne
  <1>7. pending' = pending /\ (receiptView => pending # None)
    BY <1>1, <1>3, <1>4 DEF Undisturbed
  <1>8. stage' = "backend_sync_failed" => pending # None
    BY <1>3, <1>4
  <1>9. QED
    BY <1>2, <1>3, <1>4, <1>5, <1>6, <1>7, <1>8 DEF Undisturbed, Offers, SlotHas

(* The hash is on screen and in the slot from the first step of a sync.    *)
LEMMA SyncUndisturbed ==
    ASSUME WizardInv, Undisturbed, NEW h \in Handlers, PollSucceeds(h) \/ RetryReady(h)
    PROVE  Undisturbed'
  <1>1. h \in Running /\ run[h] \in Handler
    BY DEF PollSucceeds, RetryReady, Running, WizardInv, Typed
  <1>2. address # None /\ run[h].wallet = address /\ run[h].wallet \in Wallets
    BY <1>1 DEF Undisturbed, HandlerFits, Handler
  <1>3. BeginSync(h) /\ address' = address /\ prepared' \in {prepared, None}
    BY <1>2 DEF PollSucceeds, RetryReady, Dropped
  <1>4. run[h].hash \in Hashes
    <2>1. CASE PollSucceeds(h)
      BY <2>1 DEF PollSucceeds, WizardInv, AllMatch, Works
    <2>2. CASE RetryReady(h)
      BY <1>1, <2>2 DEF RetryReady, Undisturbed, HandlerFits, SlotHas, Syncing, Handler,
                        WizardInv, Typed
    <2>3. QED
      BY <2>1, <2>2
  <1>5. /\ slot' # None /\ slot'.hash = run[h].hash /\ slot'.wallet = address
        /\ run[h].hash # None
        /\ pending' = run[h].hash /\ receipt' = receipt
    BY <1>2, <1>3, <1>4, NoneAssumption, WizardAssumption
       DEF Hashes, BeginSync, writePendingReceiptSync, pendingReceiptSyncFromTransaction
  <1>6. latest' # None => latest' = run[h].hash
    BY <1>1 DEF PollSucceeds, RetryReady, Undisturbed, HandlerFits, SlotHas, Syncing
  <1>7. /\ run'[h].pc = "recording" /\ run'[h].wallet = address
        /\ run'[h].hash = run[h].hash
        /\ \A k \in Handlers \ {h} : run'[k] = run[k]
    BY <1>1, <1>2, <1>3 DEF BeginSync, Go, WizardInv, Typed, Handler
  <1>8. Running' = {h}
    BY <1>1, <1>7 DEF Undisturbed, Running
  <1>9. QED
    BY <1>2, <1>3, <1>5, <1>6, <1>7, <1>8 DEF Undisturbed, Offers, HandlerFits, SlotHas, Syncing

LEMMA SyncEnds ==
    ASSUME WizardInv, Undisturbed, NEW h \in Handlers, ReceiptFound(h) \/ SyncFails(h)
    PROVE  Undisturbed'
  <1>1. /\ h \in Running /\ run[h].pc \in Syncing /\ EndOf(h)
        /\ UNCHANGED <<address, prepared>>
    BY DEF ReceiptFound, SyncFails, OutOfAttempts, Running, Syncing
  <1>2. /\ address # None /\ pending = run[h].hash /\ SlotHas(run[h].hash, address)
    BY <1>1 DEF Undisturbed, HandlerFits
  <1>3. Running' = {}
    BY <1>1, OnlyOne
  <1>4. CASE ReceiptFound(h)
    <2>1. /\ pending' = None /\ slot' = None /\ latest' \in {None, latest}
          /\ latest' # run[h].hash /\ stage' = "confirmed"
      BY <1>2, <1>4 DEF ReceiptFound, clearPendingReceiptSync, SlotHas, Undisturbed
    <2>2. QED
      BY <1>1, <1>2, <1>3, <2>1 DEF Undisturbed, Offers, SlotHas
  <1>5. CASE SyncFails(h)
    <2>1. /\ pending' = run[h].hash /\ stage' = "backend_sync_failed"
          /\ UNCHANGED <<slot, receipt, latest>>
      BY <1>2, <1>5 DEF SyncFails, KeepForRetry
    <2>2. QED
      BY <1>1, <1>2, <1>3, <2>1 DEF Undisturbed, Offers, SlotHas
  <1>6. QED
    BY <1>4, <1>5

LEMMA SlotStep == WizardInv /\ SlotInv /\ [Next]_vars => SlotInv'
  <1> SUFFICES ASSUME WizardInv, SlotInv, [Next]_vars, ~disturbed' PROVE Undisturbed'
    BY DEF SlotInv
  <1>1. CASE WalletChange \/ Reload \/ Reset \/ loadExample
    <2>1. ~disturbed
      BY <1>1 DEF WalletChange, Reload, Reset, loadExample, reset
    <2>2. QED
      BY <1>1, <2>1, WalletUndisturbed, ReloadUndisturbed, ResetUndisturbed DEF SlotInv
  <1>2. CASE Edit \/ generateSeal \/ confirmReview \/ clearPrivateEvidence \/ LoadContinuation
    <2>1. ~disturbed
      BY <1>2 DEF Edit, generateSeal, confirmReview, clearPrivateEvidence, LoadContinuation
    <2>2. QED
      BY <1>2, <2>1, FormUndisturbed DEF SlotInv
  <1>3. CASE Publish
    <2>1. ~disturbed
      BY <1>3 DEF Publish, approvePreparedTransaction, retrySync, prepareStamp, Click
    <2>2. QED
      BY <1>3, <2>1, ClickUndisturbed DEF SlotInv
  <1>4. ASSUME NEW h \in Handlers, HandlerStep(h) PROVE Undisturbed'
    <2>1. disturbed' = disturbed
      BY <1>4 DEF HandlerStep, Ready, ChooseClaim, Simulated, PrepareFails, SignApproved,
                  SignRefused, sendTransaction, SendFails, SendUnanswered, PollFailed,
                  PollGivesUp, ApprovalFails, PollSucceeds, RetryReady,
                  recordBackendTransaction, ReconcileAgain, ReceiptFound, SyncFails
    <2>2. Undisturbed
      BY <2>1 DEF SlotInv
    <2>3. QED
      BY <1>4, <2>2, HandlerOnItsWay, EndsBefore, SyncUndisturbed, SyncEnds DEF HandlerStep
  <1>5. CASE Remote
    <2>1. /\ UNCHANGED <<address, run, pending, receipt, slot, latest, prepared, stage, receiptView>>
          /\ disturbed' = disturbed
      BY <1>5 DEF Remote, Land, IssueReceipt, sync, stamp, scoped
    <2>2. QED
      BY <2>1, Aside DEF SlotInv
  <1>6. CASE UNCHANGED vars
    <2>1. /\ UNCHANGED <<address, run, pending, receipt, slot, latest, prepared, stage, receiptView>>
          /\ disturbed' = disturbed
      BY <1>6 DEF vars, sync, stamp, scoped
    <2>2. QED
      BY <2>1, Aside DEF SlotInv
  <1>7. QED
    BY <1>1, <1>2, <1>3, <1>4, <1>5, <1>6 DEF Next, Keeping, Discarding

LEMMA SlotKept == Spec => []SlotInv
  BY SlotStart, SlotStep, WizardKept, PTL DEF Spec

(***************************************************************************)
(* The last confirmed hash is in local storage until its receipt was       *)
(* shown, if nothing interrupted a running handler.                        *)
(***************************************************************************)
THEOREM ConfirmedKept == Spec => []LatestConfirmedKept
  <1>1. SlotInv => LatestConfirmedKept
    BY DEF SlotInv, Undisturbed, LatestConfirmedKept
  <1>2. QED
    BY SlotKept, <1>1, PTL

(***************************************************************************)
(* A wallet whose stamp is in the slot is offered the retry at rest        *)
(* (claim-wizard.tsx:1356-1409), if nothing interrupted a running handler. *)
(***************************************************************************)
THEOREM RetryIsOffered == Spec => []RetryOffered
  <1>1. SlotInv => RetryOffered
    BY DEF SlotInv, Undisturbed, Offers, RetryOffered
  <1>2. QED
    BY SlotKept, <1>1, PTL

(***************************************************************************)
(* No stage says that something is under way while no run of publish() is  *)
(* there.  Unless something met a running handler, a closed or missing     *)
(* button means a running one, an issued receipt, or the one dead end of   *)
(* getPublishActionState (claim-wizard.tsx:626).                           *)
(***************************************************************************)
THEOREM WaitingCorrect == Spec => []DisabledIsCarried
  <1>1. WizardInv /\ SlotInv => DisabledIsCarried
    BY DEF WizardInv, SlotInv, Undisturbed, DisabledIsCarried, BusyIsCarried, Enabled
  <1>2. QED
    BY WizardKept, SlotKept, <1>1, PTL
=============================================================================
