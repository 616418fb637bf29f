-------------------------- MODULE WalletSessionProofs --------------------------
(***************************************************************************)
(* Safety of the wallet session for every set of accounts and any number   *)
(* of late polls.                                                          *)
(*                                                                         *)
(* What a request will show is decided by the account it read before its   *)
(* last await (RequestsHold), and a disconnect only holds because nothing  *)
(* is left that could bring the address back (Quiet).                      *)
(***************************************************************************)
EXTENDS WalletSession, TLAPS

Requests(pcs) == [pc : pcs, account : Accounts \cup {None}]

Readings == [account : Accounts \cup {None}, network : Networks] \cup {None}

Watchers == [on : BOOLEAN, seen : Readings, polling : BOOLEAN]

Types ==
    /\ connecting \in Requests({"idle", "detect", "permission", "access", "address", "network"})
    /\ restoring \in Requests({"idle", "permission", "address", "network"})
    /\ watcher \in Watchers
    /\ freighter \in [account : Accounts \cup {None}, network : Networks, allowed : BOOLEAN]
    /\ armed \in BOOLEAN /\ left \in BOOLEAN

(* A request that is about to connect holds an account. *)
RequestsHold ==
    \A r \in {connecting, restoring} : r.pc = "network" => r.account # None

(* Nothing is under way or armed that could show an address. *)
Quiet ==
    /\ address = None /\ key = "disabled" /\ ~armed
    /\ connecting.pc = "idle" /\ restoring.pc = "idle"
    /\ ~watcher.on /\ ~watcher.polling /\ strays = {}

SessionInv ==
    /\ Types /\ RequestsHold
    /\ AddressOnTestnet /\ ConnectingIsCarried
    /\ left => Quiet

LEMMA Ends == Off \in Watchers /\ Started \in Watchers
  BY DEF Off, Started, Watchers, Readings

LEMMA Start == Init => SessionInv
  <1> SUFFICES ASSUME Init PROVE SessionInv
    OBVIOUS
  <1>1. armed \in BOOLEAN
    BY Zenon DEF Init, WalletInit
  <1>2. connecting = NotRunning /\ restoring = NotRunning /\ watcher = Off /\ left \in BOOLEAN
    BY DEF Init, WalletInit
  <1>3. freighter \in [account : Accounts \cup {None}, network : Networks, allowed : BOOLEAN]
    BY DEF Init
  <1>4. /\ connecting \in Requests({"idle", "detect", "permission", "access", "address", "network"})
        /\ restoring \in Requests({"idle", "permission", "address", "network"})
    BY <1>2 DEF Requests, NotRunning
  <1>5. Types
    BY <1>1, <1>2, <1>3, <1>4, Ends DEF Types
  <1>6. QED
    BY <1>5 DEF Init, WalletInit, SessionInv, RequestsHold, AddressOnTestnet,
                ConnectingIsCarried, NotRunning

(* The effects that follow a change of address and status. *)
LEMMA Rendered ==
    ASSUME Types, NEW a, NEW s, NEW k, Render(a, s, k)
    PROVE  /\ address' = a /\ status' = s /\ key' = k
           /\ armed' \in BOOLEAN
           /\ watcher' \in Watchers
  <1>1. armed' \in BOOLEAN
    BY Zenon DEF Render, Types, Restorable
  <1>2. watcher' \in {watcher, Started, Off}
    BY Zenon DEF Render
  <1>3. QED
    BY <1>1, <1>2, Ends DEF Render, Types

(* A report, and what it leaves alone. *)
LEMMA Reported ==
    ASSUME SessionInv, Report
    PROVE  /\ address' # None => network' = "testnet"
           /\ status' = "connected" => address' # None
           /\ ConnectingIsCarried' \/ connecting' # connecting
           /\ armed' \in BOOLEAN
  BY WalletAssumption
     DEF SessionInv, Types, Report, Restorable, AddressOnTestnet, ConnectingIsCarried, At

-----------------------------------------------------------------------------
(* A request that ends, on the network that Freighter names. *)
LEMMA Refreshed ==
    ASSUME SessionInv, NEW account \in Accounts, refreshNetwork(account)
    PROVE  /\ AddressOnTestnet'
           /\ status' \in {"connected", "wrong_network"}
           /\ armed' \in BOOLEAN
           /\ watcher' \in Watchers
  <1>1. CASE Connected(account)
    BY <1>1, Rendered, WalletAssumption DEF Connected, SessionInv, AddressOnTestnet
  <1>2. CASE WrongNetwork(freighter.network)
    BY <1>2, Rendered DEF WrongNetwork, SessionInv, AddressOnTestnet
  <1>3. QED
    BY <1>1, <1>2 DEF refreshNetwork

LEMMA ConnectKeeps ==
    ASSUME SessionInv, ConnectClick \/ ConnectStep
    PROVE  SessionInv'
  <1> USE DEF SessionInv, Types, Requests, RequestsHold, At, NotRunning
  <1>1. CASE ConnectClick
    <2>1. /\ address' = address /\ network' = network /\ status' = "detecting"
          /\ armed' \in BOOLEAN /\ watcher' \in Watchers
      BY <1>1, Rendered DEF ConnectClick
    <2>2. connecting' = [pc |-> "detect", account |-> None]
      BY <1>1 DEF ConnectClick
    <2>3. QED
      BY <1>1, <2>1, <2>2 DEF ConnectClick, AddressOnTestnet, ConnectingIsCarried
  <1>2. CASE Detected
    BY <1>2, Rendered DEF Detected, AddressOnTestnet, ConnectingIsCarried, Quiet
  <1>3. CASE NotDetected
    BY <1>3, Rendered DEF NotDetected, AddressOnTestnet, ConnectingIsCarried, Quiet
  <1>4. CASE Permission
    BY <1>4 DEF Permission, session, AddressOnTestnet, ConnectingIsCarried, Quiet
  <1>5. CASE ConnectAddress
    <2>1. freighter' \in [account : Accounts \cup {None}, network : Networks, allowed : BOOLEAN]
      BY <1>5, Zenon DEF ConnectAddress
    <2>2. /\ connecting' = [pc |-> "network", account |-> freighter.account]
          /\ freighter.account \in Accounts
      BY <1>5 DEF ConnectAddress
    <2>3. QED
      BY <1>5, <2>1, <2>2, WalletAssumption
         DEF ConnectAddress, session, AddressOnTestnet, ConnectingIsCarried, Quiet
  <1>6. CASE ConnectNetwork
    BY <1>6, Refreshed DEF ConnectNetwork, ConnectingIsCarried, Quiet
  <1>7. CASE ConnectFails
    <2>1. PICK s \in {"rejected", "locked", "error"} : Render(None, s, key)
      BY <1>7 DEF ConnectFails, Caught
    <2>2. QED
      BY <1>7, <2>1, Rendered DEF ConnectFails, AddressOnTestnet, ConnectingIsCarried, Quiet
  <1>8. QED
    BY <1>1, <1>2, <1>3, <1>4, <1>5, <1>6, <1>7 DEF ConnectStep

LEMMA RestoreKeeps ==
    ASSUME SessionInv, attemptRestore \/ RestoreStep
    PROVE  SessionInv'
  <1> USE DEF SessionInv, Types, Requests, RequestsHold, At, NotRunning
  <1>1. CASE attemptRestore
    BY <1>1 DEF attemptRestore, session, AddressOnTestnet, ConnectingIsCarried, Quiet
  <1>2. CASE RestorePermission
    BY <1>2 DEF RestorePermission, session, AddressOnTestnet, ConnectingIsCarried, Quiet
  <1>3. CASE RestoreAddress
    BY <1>3 DEF RestoreAddress, session, AddressOnTestnet, ConnectingIsCarried, Quiet
  <1>4. CASE RestoreNetwork
    BY <1>4, Refreshed DEF RestoreNetwork, ConnectingIsCarried, Quiet
  <1>5. CASE RestoreGivesUp
    BY <1>5 DEF RestoreGivesUp, session, AddressOnTestnet, ConnectingIsCarried, Quiet
  <1>6. QED
    BY <1>1, <1>2, <1>3, <1>4, <1>5 DEF RestoreStep

LEMMA WatcherKeeps ==
    ASSUME SessionInv, Poll \/ PollAnswered \/ PollUnanswered \/ StrayAnswered
    PROVE  SessionInv'
  <1> USE DEF SessionInv, Types, Requests, RequestsHold, At, Quiet
  <1>1. CASE Poll
    BY <1>1 DEF Poll, Watchers, AddressOnTestnet, ConnectingIsCarried
  <1>2. CASE PollAnswered
    <2>1. /\ AddressOnTestnet' /\ ConnectingIsCarried' /\ armed' \in BOOLEAN
      BY <1>2, Reported DEF PollAnswered, AddressOnTestnet, ConnectingIsCarried
    <2>2. watcher' \in Watchers
      <3>1. Reading \in Readings
        BY DEF Reading, Readings
      <3>2. QED
        BY <1>2, <3>1, Ends DEF PollAnswered, Watchers
    <2>3. QED
      BY <1>2, <2>1, <2>2 DEF PollAnswered
  <1>3. CASE PollUnanswered
    BY <1>3 DEF PollUnanswered, Watchers, AddressOnTestnet, ConnectingIsCarried
  <1>4. CASE StrayAnswered
    <2>1. /\ AddressOnTestnet' /\ ConnectingIsCarried' /\ armed' \in BOOLEAN
      BY <1>4, Reported DEF StrayAnswered, AddressOnTestnet, ConnectingIsCarried
    <2>2. watcher' \in Watchers
      <3>1. watcher' \in {watcher, Started, Off}
        BY <1>4, Zenon DEF StrayAnswered
      <3>2. QED
        BY <3>1, Ends
    <2>3. QED
      BY <1>4, <2>1, <2>2 DEF StrayAnswered
  <1>5. QED
    BY <1>1, <1>2, <1>3, <1>4

(* A disconnect with nothing under way leaves nothing behind. *)
LEMMA DisconnectKeeps ==
    ASSUME SessionInv, clearSession
    PROVE  SessionInv'
  <1> USE DEF SessionInv, Types, clearSession
  <1>1. Render(None, "idle", "disabled")
    OBVIOUS
  <1>2. /\ address' = None /\ status' = "idle" /\ key' = "disabled"
        /\ armed' \in BOOLEAN
        /\ watcher' \in Watchers
    BY <1>1, Rendered
  <1>3. ~armed'
    BY <1>1, WalletAssumption DEF Render, Restorable
  <1>4. strays = {} /\ ~watcher.polling => strays' = {} /\ ~watcher'.on /\ ~watcher'.polling
    <2>1. watcher.on \in BOOLEAN
      BY DEF Watchers
    <2>2. CASE watcher.on = FALSE
      <3>1. watcher' = watcher /\ strays' = strays
        BY <1>1, <2>2 DEF Render
      <3>2. QED
        BY <2>2, <3>1
    <2>3. CASE watcher.on = TRUE
      <3>1. watcher' = Off /\ strays' = Late(strays, watcher)
        BY <1>1, <2>3 DEF Render
      <3>2. QED
        BY <3>1 DEF Late, Off
    <2>4. QED
      BY <2>1, <2>2, <2>3
  <1>5. QED
    BY <1>2, <1>3, <1>4 DEF Quiet, At, RequestsHold, AddressOnTestnet, ConnectingIsCarried

LEMMA SessionStep == SessionInv /\ [Next]_vars => SessionInv'
  <1> SUFFICES ASSUME SessionInv, [Next]_vars PROVE SessionInv'
    OBVIOUS
  <1> USE DEF SessionInv, Types, Requests, RequestsHold, At, Quiet, AddressOnTestnet,
              ConnectingIsCarried
  <1>1. CASE Reload
    BY <1>1, Ends DEF Reload, NotRunning, Off
  <1>2. CASE FreighterChanges
    BY <1>2 DEF FreighterChanges, session, Networks
  <1>3. CASE UNCHANGED vars
    BY <1>3 DEF vars, session
  <1>4. QED
    BY <1>1, <1>2, <1>3, ConnectKeeps, RestoreKeeps, WatcherKeeps, DisconnectKeeps DEF Next

LEMMA SessionKept == Spec => []SessionInv
  BY Start, SessionStep, PTL DEF Spec

-----------------------------------------------------------------------------
(***************************************************************************)
(* An address is shown with Testnet only, and a connected session has an   *)
(* address, however connect, restoreSession and the watcher overlap.       *)
(***************************************************************************)
THEOREM ShownOnTestnet == Spec => []AddressOnTestnet
  BY SessionKept, PTL DEF SessionInv

(***************************************************************************)
(* The page does not say that it is connecting when connect has ended.     *)
(***************************************************************************)
THEOREM ConnectingEnds == Spec => []ConnectingIsCarried
  BY SessionKept, PTL DEF SessionInv

(***************************************************************************)
(* A disconnect with nothing under way holds until the user connects again *)
(* (wallet-context.tsx:305-334): no timer, focus, reload or late poll      *)
(* shows an address.                                                       *)
(***************************************************************************)
THEOREM DisconnectPersists == Spec => []DisconnectHolds
  <1>1. SessionInv => DisconnectHolds
    BY DEF SessionInv, Quiet, DisconnectHolds
  <1>2. QED
    BY SessionKept, <1>1, PTL
=============================================================================
