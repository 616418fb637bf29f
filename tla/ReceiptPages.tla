---------------------------- MODULE ReceiptPages ----------------------------
(***************************************************************************)
(* The public pages: the home page with its list of receipts               *)
(* (on-chain-activity.tsx) and its board of the connected wallet           *)
(* (stellar-activity.tsx), the page of one receipt                         *)
(* (receipt/[transactionHash]/page.tsx) and the verification page          *)
(* (verify/page.tsx).  One of them is mounted at a time.  Timers fire and  *)
(* requests answer in any order, after the link or the wallet changed or a *)
(* newer request was sent.  What the service answers about an identifier   *)
(* is the business of the modules Settlement and Verification; here an     *)
(* answer is known by what was asked.                                      *)
(***************************************************************************)
EXTENDS Naturals, Sequences

CONSTANTS
    Wallets,      \* Stellar accounts the wallet may connect
    Identifiers,  \* receipt ids, claim ids and transaction hashes
    MaxFlights,   \* bound on the requests under way for one identifier
    Blank         \* blank text, no answer

ASSUME PageAssumption ==
    MaxFlights \in Nat \ {0} /\ Blank \notin Identifiers \cup Wallets

VARIABLES
    address,  \* the wallet's account: the session outlives the pages
    page      \* the mounted page and its state

pageVars == <<address, page>>

Asked == Identifiers \cup {Blank}

Connected == Wallets \cup {Blank}

(* What the board shows of an account is known by the account. *)
HomePage == [at : {"home"}, list : {"loading", "backend", "unavailable"},
             rows : SUBSET Identifiers,
             claimReceipt : Connected, latest : Connected, asked : Connected,
             flights : SUBSET Wallets,
             api : {"idle", "loading", "ready", "unavailable"},
             reading : BOOLEAN, loading : BOOLEAN, clearing : BOOLEAN]

ReceiptPage == [at : {"receipt"}, hash : Identifiers, about : Asked,
                phase : {"loading", "backend-receipt", "missing"},
                asked : BOOLEAN, aborted : SUBSET Identifiers]

VerifyPage == [at : {"verify"}, query : Asked, autoChecked : Asked, retry : Asked,
               result : Asked, error : {"none", "failed", "invalid"},
               isChecking : BOOLEAN, flights : [Identifiers -> 0 .. MaxFlights],
               overlapped : BOOLEAN]

(* Each page keeps its own state. *)
PageTypeOK == address \in Connected /\ page \in HomePage \cup ReceiptPage \cup VerifyPage

(* The effects of an address: timers to read the kept receipt and to show  *)
(* "loading" and a request, or a timer to clear the board.                 *)
Followed(home, a) ==
    [home EXCEPT !.asked = a, !.reading = TRUE, !.loading = (a # Blank),
                 !.clearing = (a = Blank), !.flights = @ \cup ({a} \ {Blank})]

HomeMounted ==
    Followed([at |-> "home", list |-> "loading", rows |-> {}, claimReceipt |-> Blank,
              latest |-> Blank, asked |-> Blank, flights |-> {}, api |-> "idle",
              reading |-> FALSE, loading |-> FALSE, clearing |-> FALSE], address)

PageInit == address = Blank /\ page = HomeMounted

-----------------------------------------------------------------------------

OpenHome == page.at # "home" /\ page' = HomeMounted /\ UNCHANGED address

(* What the API lists of a receipt: its status, if it states one.          *)
Listings == {"absent", "CONFIRMED", "unstated", "other"}

(* The list: one request per mount; what is not confirmed is dropped. *)
ListAnswered(receipts) ==
    /\ page.at = "home" /\ page.list = "loading"
    /\ page' = [page EXCEPT !.list = "backend",
                            !.rows = {i \in Identifiers : receipts[i] \in {"CONFIRMED", "unstated"}}]
    /\ UNCHANGED address

ListFails ==
    /\ page.at = "home" /\ page.list = "loading"
    /\ page' = [page EXCEPT !.list = "unavailable"]
    /\ UNCHANGED address

(* The wallet connects, changes or leaves: on the home page the effects of *)
(* the last address are cleaned up and those of the new one start.         *)
AddressChanges(a) ==
    /\ a # address
    /\ address' = a
    /\ page' = IF page.at = "home" THEN Followed(page, a) ELSE page

(* The timer of the receipt kept by this browser: readReceipt finds none   *)
(* or one of the account it is asked for (ReceiptStore).                   *)
ReadTimer(receipt) ==
    /\ page.at = "home" /\ page.reading
    /\ page' = [page EXCEPT !.reading = FALSE, !.claimReceipt = receipt]
    /\ UNCHANGED address

ClearTimer ==
    /\ page.at = "home" /\ page.clearing
    /\ page' = [page EXCEPT !.clearing = FALSE, !.api = "idle", !.latest = Blank]
    /\ UNCHANGED address

LoadingTimer ==
    /\ page.at = "home" /\ page.loading
    /\ page' = [page EXCEPT !.loading = FALSE, !.api = "loading"]
    /\ UNCHANGED address

(* Mutant: the effect has no cancelled flag. *)
NeverCancelled(a) == FALSE

(* An answer is of the effect that runs, or of one that was cleaned up;    *)
(* two requests for one account count as one.                              *)
cancelled(a) == page.asked # a

(* The activity of an account arrives, with or without a transaction, or   *)
(* the request fails; of a cancelled one nothing is shown.                 *)
ActivityAnswered(a, latest, api) ==
    /\ page.at = "home" /\ a \in page.flights
    /\ api = "unavailable" => latest = Blank
    /\ LET rest == [page EXCEPT !.flights = @ \ {a}]
       IN  page' = IF cancelled(a) THEN rest
                   ELSE [rest EXCEPT !.asked = Blank, !.latest = latest, !.api = api]
    /\ UNCHANGED address

-----------------------------------------------------------------------------

(* The page of a receipt, opened, or kept while its link changes: the      *)
(* effect aborts the request of the old hash and sends one for the new.    *)
OpenReceipt(hash) ==
    /\ page.at # "receipt"
    /\ page' = [at |-> "receipt", hash |-> hash, about |-> Blank, phase |-> "loading",
                asked |-> TRUE, aborted |-> {}]
    /\ UNCHANGED address

HashChanges(hash) ==
    /\ page.at = "receipt" /\ hash # page.hash
    /\ page' = [page EXCEPT !.hash = hash, !.asked = TRUE,
                   !.aborted = IF page.asked THEN @ \cup {page.hash} ELSE @]
    /\ UNCHANGED address

(* Mutant: an aborted request is heard. *)
AbortedIsShown(hash) ==
    /\ page.at = "receipt" /\ hash \in page.aborted
    /\ page' = [page EXCEPT !.aborted = @ \ {hash}, !.phase = "backend-receipt",
                   !.about = hash]
    /\ UNCHANGED address

(* The abort does not stop the request: an aborted one answers, unheard.   *)
AbortedAnswers(hash) ==
    /\ page.at = "receipt" /\ hash \in page.aborted
    /\ page' = [page EXCEPT !.aborted = @ \ {hash}]
    /\ UNCHANGED address

ReceiptAnswers(phase) ==
    /\ page.at = "receipt" /\ page.asked
    /\ page' = [page EXCEPT !.phase = phase, !.about = page.hash, !.asked = FALSE]
    /\ UNCHANGED address

-----------------------------------------------------------------------------

AUTO_VERIFY_QUERY_KEYS == <<"receipt", "claim", "transaction", "identifier">>

Params == [{"receipt", "claim", "transaction", "identifier"} -> Asked]

(* What a visitor types is blank, an identifier, or a URL with a path.     *)
Paths == {<<>>} \cup {<<i>> : i \in Identifiers} \cup (Identifiers \X Identifiers)

Texts == [url : {FALSE}, value : Asked] \cup [url : {TRUE}, value : Identifiers, path : Paths]

(* The last part of a URL's path; any other text is taken as it is. *)
extractIdentifier(text) ==
    IF text.url /\ text.path # <<>> THEN text.path[Len(text.path)] ELSE text.value

(* The identifier of the first parameter that is not blank. *)
pickAutoVerificationIdentifier(params) ==
    LET given == {k \in 1 .. 4 : params[AUTO_VERIFY_QUERY_KEYS[k]] # Blank}
    IN  IF given = {} THEN Blank
        ELSE params[AUTO_VERIFY_QUERY_KEYS[CHOOSE k \in given : \A j \in given : k <= j]]

shouldRunAutoVerification(id, previous) == id # Blank /\ id # previous

InFlight(v) == {i \in Identifiers : v.flights[i] > 0}

(* runVerification up to the await of its answer. *)
runVerification(v, id) ==
    IF id = Blank
      THEN [v EXCEPT !.retry = id, !.result = Blank, !.error = "invalid", !.isChecking = FALSE]
      ELSE [v EXCEPT !.retry = id, !.result = Blank, !.error = "none", !.isChecking = TRUE,
                     !.flights[id] = @ + 1]

(* The effect of the link's identifier; overlapped records that it sent a  *)
(* request while another was under way.                                    *)
AutoVerified(v, id) ==
    IF shouldRunAutoVerification(id, v.autoChecked)
      THEN runVerification([v EXCEPT !.autoChecked = id, !.query = id,
                                     !.overlapped = @ \/ InFlight(v) # {}], id)
      ELSE v

OpenVerify(params) ==
    LET id == pickAutoVerificationIdentifier(params)
    IN  /\ page.at # "verify"
        /\ page' = AutoVerified(
               [at |-> "verify", query |-> id, autoChecked |-> Blank, retry |-> Blank,
                result |-> Blank, error |-> "none", isChecking |-> FALSE,
                flights |-> [i \in Identifiers |-> 0], overlapped |-> FALSE], id)
        /\ UNCHANGED address

Room(id) == id # Blank => page.flights[id] < MaxFlights

LinkChanges(params) ==
    LET id == pickAutoVerificationIdentifier(params)
    IN  /\ page.at = "verify" /\ Room(id)
        /\ page' = AutoVerified(page, id)
        /\ UNCHANGED address

EditQuery(text) ==
    /\ page.at = "verify"
    /\ page' = [page EXCEPT !.query = extractIdentifier(text), !.result = Blank,
                            !.error = "none"]
    /\ UNCHANGED address

(* Mutant: the button stays enabled while a receipt is checked. *)
VerifyAgain ==
    /\ page.at = "verify" /\ page.query # Blank /\ Room(page.query)
    /\ page' = runVerification(page, page.query)
    /\ UNCHANGED address

verify ==
    /\ page.at = "verify" /\ page.query # Blank /\ Room(page.query)
    /\ ~page.isChecking
    /\ page' = runVerification(page, page.query)
    /\ UNCHANGED address

(* The button under the error: the last identifier asked for, or else the  *)
(* one of the field.                                                       *)
Retry ==
    LET id == IF page.retry # Blank THEN page.retry ELSE page.query
    IN  /\ page.at = "verify" /\ page.error # "none" /\ Room(id)
        /\ page' = runVerification(page, id)
        /\ UNCHANGED address

(* setResult, then the finally clause. *)
VerifyAnswers(id) ==
    /\ page.at = "verify" /\ id \in InFlight(page)
    /\ page' = [page EXCEPT !.result = id, !.isChecking = FALSE, !.flights[id] = @ - 1]
    /\ UNCHANGED address

(* An error, or the abort after fifteen seconds. *)
VerifyFails(id) ==
    /\ page.at = "verify" /\ id \in InFlight(page)
    /\ page' = [page EXCEPT !.error = "failed", !.isChecking = FALSE, !.flights[id] = @ - 1]
    /\ UNCHANGED address

PageNext ==
    \/ OpenHome \/ ListFails
    \/ \E receipts \in [Identifiers -> Listings] : ListAnswered(receipts)
    \/ \E a \in Connected : AddressChanges(a)
    \/ \E receipt \in {address, Blank} : ReadTimer(receipt)
    \/ ClearTimer \/ LoadingTimer
    \/ \E a \in Wallets, api \in {"ready", "unavailable"} :
          \E latest \in {a, Blank} : ActivityAnswered(a, latest, api)
    \/ \E hash \in Identifiers : \/ OpenReceipt(hash) \/ HashChanges(hash)
                                 \/ AbortedAnswers(hash)
    \/ \E phase \in {"backend-receipt", "missing"} : ReceiptAnswers(phase)
    \/ \E params \in Params : OpenVerify(params) \/ LinkChanges(params)
    \/ \E text \in Texts : EditQuery(text)
    \/ verify \/ Retry
    \/ \E id \in Identifiers : VerifyAnswers(id) \/ VerifyFails(id)

PageSpec == PageInit /\ [][PageNext]_pageVars

-----------------------------------------------------------------------------

(***************************************************************************)
(* The board never settles on another wallet's data: a retained receipt or *)
(* a latest transaction of an account the wallet left is shown only while  *)
(* the timer or the request that replaces it is pending, whatever answers  *)
(* arrive late (stellar-activity.tsx:68-138).                              *)
(***************************************************************************)
BoardIsOfWallet ==
    page.at = "home" =>
        /\ page.claimReceipt \in {address, Blank} \/ page.reading
        /\ page.latest \in {address, Blank} \/ page.asked # Blank \/ page.clearing

(***************************************************************************)
(* A receipt page never rests on another link's answer: a receipt or a     *)
(* "missing" that is about another hash is on the page only while the      *)
(* request for the hash in the link is under way (page.tsx:47-63).         *)
(***************************************************************************)
ReceiptIsOfLink ==
    page.at = "receipt" /\ page.phase # "loading" => page.about = page.hash \/ page.asked

(***************************************************************************)
(* The verdict shown is about the identifier asked for last, never stands  *)
(* next to an error, and the button is closed exactly while a request is   *)
(* under way: whatever is edited, retried or timed out, as long as no      *)
(* changed link started a request over another (verify/page.tsx:77-103,    *)
(* 352-399).  When one did, the button still never stays closed for good.  *)
(***************************************************************************)
VerdictIsOfLastAsked ==
    page.at = "verify" =>
        /\ page.isChecking => InFlight(page) # {}
        /\ ~page.overlapped =>
              /\ InFlight(page) # {} => page.isChecking
              /\ page.result # Blank => page.result = page.retry /\ page.error = "none"
=============================================================================
