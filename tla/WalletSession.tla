--------------------------- MODULE WalletSession ---------------------------
(***************************************************************************)
(* The wallet session of a page (apps/web/src/context/wallet-context.tsx): *)
(* connect, the silent restoration of an earlier session, disconnect, and  *)
(* the watcher that follows the account of Freighter while connected.      *)
(*                                                                         *)
(* connect and restoreSession are cut at their awaits and may overlap.     *)
(* The two effects of the provider depend on address and status and run    *)
(* with the step that changes either.  Freighter is external: it answers   *)
(* what it holds when it answers, or with an error.                        *)
(***************************************************************************)

EXTENDS Naturals, FiniteSets

CONSTANTS
    Accounts,   \* of the Freighter extension
    MaxStrays,  \* bound on late polls; others are never answered
    None

ASSUME WalletAssumption == None \notin Accounts /\ MaxStrays \in Nat

VARIABLES
    address,
    network,    \* "testnet", "other" or None
    status,
    key,        \* local storage: AUTO_RESTORE_KEY
    armed,      \* the restoration effect has its timer and its listeners
    watcher,    \* what the running watcher reported last, and a poll under way
    strays,     \* polls a stopped watcher had under way, with what it reported
    connecting, \* the run of connect
    restoring,  \* the run of restoreSession
    freighter,  \* account, network and permission for this site
    overtaken,  \* history: a late answer reached a session already connected
    left        \* history: the user disconnected with nothing under way

session == <<address, network, status, key, armed, watcher, strays>>
vars == <<session, connecting, restoring, freighter, overtaken, left>>

Networks == {"testnet", "other"}

NotRunning == [pc |-> "idle", account |-> None]

Off == [on |-> FALSE, seen |-> None, polling |-> FALSE]

Started == [on |-> TRUE, seen |-> None, polling |-> FALSE]

(* What keeps the restoration effect armed.  Mutant: a disconnect is not   *)
(* looked up. *)
Whenever(a, s, k) == a = None /\ s = "idle"

Restorable(a, s, k) == a = None /\ s = "idle" /\ k # "disabled"

Late(old, w) == IF w.polling /\ Cardinality(old) < MaxStrays THEN old \cup {w} ELSE old

(* Setting address and status, and the effects that follow them.           *)
Render(a, s, k) ==
    /\ address' = a /\ status' = s /\ key' = k
    /\ armed' = IF a = address /\ s = status THEN armed ELSE Restorable(a, s, k)
    /\ IF (s = "connected") = watcher.on
       THEN UNCHANGED <<watcher, strays>>
       ELSE /\ watcher' = IF s = "connected" THEN Started ELSE Off
            /\ strays' = Late(strays, watcher)

WalletInit(k) ==
    /\ address = None /\ network = None /\ status = "idle"
    /\ key = k
    /\ armed = (k # "disabled")
    /\ watcher = Off /\ strays = {}
    /\ connecting = NotRunning /\ restoring = NotRunning
    /\ overtaken = FALSE /\ left = FALSE

Init ==
    /\ \E k \in {"unset", "enabled", "disabled"} : WalletInit(k)
    /\ freighter \in [account : Accounts, network : Networks, allowed : BOOLEAN]

-----------------------------------------------------------------------------
(* What both requests end with *)

(* Mutant: on the wrong network the address stays. *)
StillShown(net) ==
    /\ network' = net
    /\ Render(address, "wrong_network", key)
    /\ UNCHANGED overtaken

WrongNetwork(net) ==
    /\ network' = net
    /\ Render(None, "wrong_network", key)
    /\ UNCHANGED overtaken

Connected(account) ==
    /\ network' = "testnet"
    /\ Render(account, "connected", "enabled")
    /\ overtaken' = (overtaken \/ status = "connected")

refreshNetwork(account) ==
    IF freighter.network = "testnet" THEN Connected(account)
    ELSE WrongNetwork(freighter.network)

-----------------------------------------------------------------------------
(* connect *)

At(r, pc) == r.pc = pc

ConnectClick ==
    /\ At(connecting, "idle")
    /\ address = None
    /\ connecting' = [NotRunning EXCEPT !.pc = "detect"]
    /\ Render(address, "detecting", key)
    /\ left' = FALSE
    /\ UNCHANGED <<network, restoring, freighter, overtaken>>

Detected ==
    /\ At(connecting, "detect")
    /\ connecting' = [connecting EXCEPT !.pc = "permission"]
    /\ Render(address, "requesting_access", key)
    /\ UNCHANGED <<network, restoring, freighter, overtaken, left>>

NotDetected ==
    /\ At(connecting, "detect")
    /\ connecting' = NotRunning
    /\ Render(address, "unavailable", key)
    /\ UNCHANGED <<network, restoring, freighter, overtaken, left>>

Permission ==
    /\ At(connecting, "permission")
    /\ connecting' = [connecting EXCEPT !.pc =
                         IF freighter.allowed THEN "address" ELSE "access"]
    /\ UNCHANGED <<session, restoring, freighter, overtaken, left>>

(* requestAccess, which the user grants, and getAddress.                   *)
ConnectAddress ==
    /\ connecting.pc \in {"access", "address"}
    /\ freighter.account # None
    /\ connecting' = [pc |-> "network", account |-> freighter.account]
    /\ freighter' = [freighter EXCEPT !.allowed = @ \/ At(connecting, "access")]
    /\ UNCHANGED <<session, restoring, overtaken, left>>

ConnectNetwork ==
    /\ At(connecting, "network")
    /\ refreshNetwork(connecting.account)
    /\ connecting' = NotRunning
    /\ UNCHANGED <<restoring, freighter, left>>

(* An error of any of its requests, the user's refusal among them.         *)
(* Mutant: the status is left as it was. *)
Unhandled == Render(None, status, key)

Caught == \E s \in {"rejected", "locked", "error"} : Render(None, s, key)

ConnectFails ==
    /\ ~At(connecting, "idle")
    /\ connecting' = NotRunning
    /\ network' = None
    /\ Caught
    /\ UNCHANGED <<restoring, freighter, overtaken, left>>

-----------------------------------------------------------------------------
(* restoreSession: started by a timer, by the focus or by the page          *)
(* becoming visible while the effect is armed.  It shows no error.         *)

attemptRestore ==
    /\ armed /\ At(restoring, "idle")
    /\ restoring' = [NotRunning EXCEPT !.pc = "permission"]
    /\ UNCHANGED <<session, connecting, freighter, overtaken, left>>

RestorePermission ==
    /\ At(restoring, "permission") /\ freighter.allowed
    /\ restoring' = [restoring EXCEPT !.pc = "address"]
    /\ UNCHANGED <<session, connecting, freighter, overtaken, left>>

RestoreAddress ==
    /\ At(restoring, "address") /\ freighter.account # None
    /\ restoring' = [pc |-> "network", account |-> freighter.account]
    /\ UNCHANGED <<session, connecting, freighter, overtaken, left>>

RestoreNetwork ==
    /\ At(restoring, "network")
    /\ refreshNetwork(restoring.account)
    /\ restoring' = NotRunning
    /\ UNCHANGED <<connecting, freighter, left>>

RestoreGivesUp ==
    /\ ~At(restoring, "idle")
    /\ restoring' = NotRunning
    /\ UNCHANGED <<session, connecting, freighter, overtaken, left>>

-----------------------------------------------------------------------------
(* The watcher.  It reports what differs from its last report; its poll is *)
(* answered although it was stopped meanwhile.                             *)

(* Two requests of the watcher; a change between them is read next time.   *)
Reading == [account |-> freighter.account, network |-> freighter.network]

Report ==
    IF freighter.account = None THEN UNCHANGED <<address, network, status, key, armed>>
    ELSE /\ network' = freighter.network
         /\ LET shown == IF freighter.network = "testnet" THEN freighter.account ELSE None
                s     == IF freighter.network = "testnet" THEN "connected" ELSE "wrong_network"
            IN /\ address' = shown /\ status' = s /\ key' = key
               /\ armed' = IF shown = address /\ s = status THEN armed
                           ELSE Restorable(shown, s, key)

Poll ==
    /\ watcher.on /\ ~watcher.polling
    /\ watcher' = [watcher EXCEPT !.polling = TRUE]
    /\ UNCHANGED <<address, network, status, key, armed, strays, connecting,
                   restoring, freighter, overtaken, left>>

(* Mutant: only the first reading is reported. *)
FirstOnly(w) == w.seen = None

Differs(w) == w.seen # Reading

PollAnswered ==
    /\ watcher.polling
    /\ IF Differs(watcher) THEN Report
       ELSE UNCHANGED <<address, network, status, key, armed>>
    /\ watcher' = IF status' = "connected"
                  THEN [watcher EXCEPT !.polling = FALSE, !.seen = Reading]
                  ELSE Off
    /\ UNCHANGED <<strays, connecting, restoring, freighter, overtaken, left>>

PollUnanswered ==
    /\ watcher.polling
    /\ watcher' = [watcher EXCEPT !.polling = FALSE]
    /\ UNCHANGED <<address, network, status, key, armed, strays, connecting,
                   restoring, freighter, overtaken, left>>

StrayAnswered ==
    \E w \in strays :
        /\ IF Differs(w) THEN Report
           ELSE UNCHANGED <<address, network, status, key, armed>>
        /\ IF (status' = "connected") = watcher.on
           THEN UNCHANGED watcher /\ strays' = strays \ {w}
           ELSE /\ watcher' = IF status' = "connected" THEN Started ELSE Off
                /\ strays' = Late(strays \ {w}, watcher)
        /\ overtaken' = (overtaken \/ status = "connected")
        /\ UNCHANGED <<connecting, restoring, freighter, left>>

-----------------------------------------------------------------------------
clearSession ==
    /\ address # None
    /\ Render(None, "idle", "disabled")
    /\ network' = None
    /\ left' = /\ At(connecting, "idle") /\ At(restoring, "idle")
               /\ strays = {} /\ ~watcher.polling
    /\ UNCHANGED <<connecting, restoring, freighter, overtaken>>

(* The page is loaded again: only local storage is kept.                   *)
Reload ==
    /\ address' = None /\ network' = None /\ status' = "idle"
    /\ armed' = (key # "disabled")
    /\ watcher' = Off /\ strays' = {}
    /\ connecting' = NotRunning /\ restoring' = NotRunning
    /\ overtaken' = FALSE
    /\ UNCHANGED <<key, freighter, left>>

(* The user locks, switches account or network, or forgets the site.       *)
FreighterChanges ==
    /\ \/ \E a \in Accounts \cup {None} : freighter' = [freighter EXCEPT !.account = a]
       \/ \E n \in Networks : freighter' = [freighter EXCEPT !.network = n]
       \/ \E p \in BOOLEAN : freighter' = [freighter EXCEPT !.allowed = p]
    /\ UNCHANGED <<session, connecting, restoring, overtaken, left>>

ConnectStep ==
    Detected \/ NotDetected \/ Permission \/ ConnectAddress \/ ConnectNetwork
    \/ ConnectFails

RestoreStep ==
    RestorePermission \/ RestoreAddress \/ RestoreNetwork \/ RestoreGivesUp

Next ==
    \/ ConnectClick \/ ConnectStep
    \/ attemptRestore \/ RestoreStep
    \/ Poll \/ PollAnswered \/ PollUnanswered \/ StrayAnswered
    \/ clearSession \/ Reload \/ FreighterChanges

Spec == Init /\ [][Next]_vars

(* The watcher's timer fires, and its polls are answered now and then.     *)
FairSpec == Spec /\ WF_vars(Poll) /\ SF_vars(PollAnswered)

-----------------------------------------------------------------------------
(* An address is only shown with Testnet, and a connected session has one, *)
(* whichever of connect, restoreSession and the watcher answered last.     *)
AddressOnTestnet ==
    /\ address # None => network = "testnet"
    /\ status = "connected" => address # None

(* The page says that it is connecting only while connect runs, although   *)
(* a restoration or a disconnect may have changed the status meanwhile.    *)
ConnectingIsCarried ==
    status \in {"detecting", "requesting_access"} => ~At(connecting, "idle")

(* "Explicit disconnect remains persistent": if no request was under way   *)
(* when the user disconnected, no focus, reload, timer or change in        *)
(* Freighter brings an address back before the user connects again.        *)
DisconnectHolds == left => address = None /\ key = "disabled"

(* While connected, the account that Freighter keeps is the one shown in   *)
(* the end, although the one connect or restoreSession read may be older;  *)
(* unless a second request ended in the connected session.                 *)
FollowsAccount ==
    \A a \in Accounts :
        LET Keeps == /\ status = "connected" /\ ~overtaken
                     /\ freighter.account = a /\ freighter.network = "testnet"
        IN Keeps ~> (address = a \/ ~Keeps)
=============================================================================
