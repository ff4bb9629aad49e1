----------------------------- MODULE TcpConfigure -----------------------------
(***************************************************************************)
(* t7_tcp_configure.c: over USB, write the Ethernet or WiFi settings of a  *)
(* T7, restart the interface, wait, read back the address it got, and then *)
(* test the device over that address.  The interface comes up on its own,  *)
(* before or after the program stops waiting for it, and another T7 may    *)
(* answer at an address that this one had before.                          *)
(***************************************************************************)
EXTENDS Utilities

CONSTANTS
  Leases,      \* addresses the network gives out
  Static,      \* the static address a user asks for
  DHCP, Zero,  \* the word DHCP, and the address 0.0.0.0
  MaxPolls     \* bound of every poll loop (62, 32, 20 and 32 in the code)

TcpAssumption ==
  /\ {Static, DHCP, Zero} \cap Leases = {}
  /\ Static \notin {DHCP, Zero} /\ DHCP # Zero
  /\ MaxPolls \in Nat \ {0}

VARIABLES
  connType, test, update,   \* argv, as main parsed it
  IPAddress,    \* the variable of main that argIP and NewIP point to
  polls,        \* iterations of the present loop
  link,         \* device: "down", "starting", "joined", "up" or "failed"
  address,      \* device: its address while the link is up
  ipDefault,    \* device: the address it will take, DHCP or static
  neighbour,    \* the address of another T7 on the network, Zero if none
  tested,       \* which T7 the test has talked to: "none", "this", "other"
  unread,       \* history: the address could not be read
  early         \* history: it was read before the link was up

argVars == <<connType, test, update>>
deviceVars == <<link, address, ipDefault>>
vars == <<sessionVars, pc, argVars, IPAddress, polls, deviceVars, neighbour, tested, unread, early>>

Init ==
  /\ SessionInit
  /\ pc = "args"
  /\ connType \in {"ethernet", "wifi", "invalid"}
  /\ test \in BOOLEAN /\ update \in BOOLEAN
  /\ IPAddress \in {DHCP, Static}
  /\ polls = 0
  /\ link = "up" /\ address \in Leases /\ ipDefault = DHCP
  /\ neighbour \in (Leases \cup {Zero}) \ {address}
  /\ tested = "none" /\ unread = FALSE /\ early = FALSE

Unwatched == UNCHANGED <<argVars, neighbour, tested, unread, early>>

(* main: without a type there must be an address to test; WiFi needs an    *)
(* SSID.  Usage() is exit(1).                                              *)
Args(ssid) ==
  /\ Running /\ pc = "args"
  /\ IF \/ connType = "invalid" /\ ~(test /\ IPAddress # DHCP)
        \/ connType = "wifi" /\ ~ssid
     THEN BareExit /\ pc' = "exit"
     ELSE pc' = (IF connType = "invalid" THEN "testing" ELSE "open") /\ UNCHANGED sessionVars
  /\ UNCHANGED <<IPAddress, polls, deviceVars>> /\ Unwatched

(* LJM_OpenS over USB *)
Open(e) ==
  /\ Running /\ pc = "open"
  /\ IF ErrorCheckDies(e)
     THEN CheckedExit /\ pc' = "exit"
     ELSE handle' = "open" /\ pc' = "defaults" /\ UNCHANGED exit
  /\ UNCHANGED <<IPAddress, polls, deviceVars>> /\ Unwatched

(* SetEthernetDHCP, SetEthernetStatic, SetStaticWifiIP (which opens the     *)
(* device, already open, once more): the settings of the next restart.     *)
SetDefaults(e) ==
  /\ Running /\ pc = "defaults"
  /\ ipDefault' \in {IPAddress} \cup {d \in {ipDefault} : e = "error"}
  /\ ErrorCheck(e, "power")
  /\ UNCHANGED <<IPAddress, polls, link, address>> /\ Unwatched

(* POWER_ETHERNET 0 and 1, or POWER_WIFI 1 and WIFI_APPLY_SETTINGS. *)
Restart(e) ==
  /\ Running /\ pc \in {"power", "rejoin"}
  /\ link' \in {"starting"} \cup {l \in {link} : e = "error"}
  /\ polls' = 0
  /\ ErrorCheck(e, IF connType = "ethernet" THEN "readIP"
                   ELSE IF pc = "power" THEN "associate" ELSE "reassociate")
  /\ UNCHANGED <<IPAddress, address, ipDefault>> /\ Unwatched

(* The interface starts or does not, and some time later it has an address. *)
LinkStarts ==
  /\ link = "starting"
  /\ link' \in {"joined", "failed"}
  /\ UNCHANGED <<sessionVars, pc, IPAddress, polls, address, ipDefault>> /\ Unwatched

LinkUp ==
  /\ link = "joined"
  /\ link' = "up"
  /\ address' \in IF ipDefault = DHCP THEN Leases \ {neighbour} ELSE {ipDefault}
  /\ UNCHANGED <<sessionVars, pc, IPAddress, polls, ipDefault>> /\ Unwatched

(* Another T7 takes an address that this one does not have. *)
NeighbourMoves ==
  /\ neighbour' \in Leases \ {neighbour}
  /\ link = "up" => address # neighbour'
  /\ UNCHANGED <<sessionVars, pc, argVars, IPAddress, polls, deviceVars, tested, unread, early>>

(* AssociateToNetwork: one round of the wait.  Failures exit(1) without     *)
(* closing, running out of rounds closes first.                            *)
PollStatus(e) ==
  /\ Running /\ pc \in {"associate", "reassociate"}
  /\ CASE ErrorCheckDies(e) -> CheckedExit /\ pc' = "exit" /\ UNCHANGED polls
       [] ~ErrorCheckDies(e) /\ link \in {"joined", "up"} ->
            /\ pc' = (IF pc = "associate" /\ update THEN "updating" ELSE "pollIP")
            /\ polls' = 0 /\ UNCHANGED sessionVars
       [] ~ErrorCheckDies(e) /\ link = "failed" -> BareExit /\ pc' = "exit" /\ UNCHANGED polls
       [] ~ErrorCheckDies(e) /\ link \in {"starting", "down"} ->
            IF polls = MaxPolls THEN CheckedExit /\ pc' = "exit" /\ UNCHANGED polls
            ELSE polls' = polls + 1 /\ UNCHANGED <<sessionVars, pc>>
  /\ UNCHANGED <<IPAddress, deviceVars>> /\ Unwatched

(* WIFI_FIRMWARE_UPDATE_TO_VERSIONX, and one round of the wait for its     *)
(* status; then the version is polled, whose rounds change nothing.        *)
PollUpdate(e, status) ==
  /\ Running /\ pc = "updating"
  /\ IF ErrorCheckDies(e) \/ status = "failed" \/ (status = "busy" /\ polls = MaxPolls)
     THEN CheckedExit /\ pc' = "exit" /\ UNCHANGED <<polls, link>>
     ELSE /\ polls' = polls + 1
          /\ pc' = IF status = "busy" THEN pc ELSE "rejoin"
          /\ link' = "down"
          /\ UNCHANGED sessionVars
  /\ UNCHANGED <<IPAddress, address, ipDefault>> /\ Unwatched

(* The register reads 0.0.0.0, or still the address of before, until the   *)
(* interface is up.                                                        *)
Readings == IF link = "up" THEN {address} ELSE {Zero, address}

(* The end of SetEthernetViaUSB, after the fixed wait: an error of the read *)
(* is printed and the function returns with the handle open.               *)
ReadEthernetIP(e) ==
  /\ Running /\ pc = "readIP"
  /\ IF e # "ok" THEN pc' = "testing" /\ UNCHANGED IPAddress
     ELSE /\ pc' = "close"
          /\ IPAddress' \in IF IPAddress = DHCP THEN Readings ELSE {IPAddress}
  /\ unread' = (e # "ok")
  /\ early' = (e = "ok" /\ link # "up")
  /\ UNCHANGED <<sessionVars, argVars, polls, deviceVars, neighbour, tested>>

(* The end of SetWifiViaUSB: one round of the wait for an address.  One     *)
(* that is not the static address asked for is an error that is printed.   *)
PollIP(e) ==
  /\ Running /\ pc = "pollIP"
  /\ IF e # "ok" THEN pc' = "testing" /\ UNCHANGED <<IPAddress, polls>>
     ELSE \E ip \in Readings :
            IF ip = Zero /\ polls < MaxPolls
            THEN polls' = polls + 1 /\ UNCHANGED <<pc, IPAddress>>
            ELSE /\ pc' = "close"
                 /\ IPAddress' = IF IPAddress \in {DHCP, ip} THEN ip ELSE IPAddress
                 /\ UNCHANGED polls
  /\ unread' = (e # "ok")
  /\ early' = (e = "ok" /\ link # "up")
  /\ UNCHANGED <<sessionVars, argVars, deviceVars, neighbour, tested>>

(* CloseOrDie of the USB handle. *)
Close(e) ==
  /\ Running /\ pc = "close"
  /\ IF ErrorCheckDies(e) THEN CheckedExit /\ pc' = "exit"
     ELSE handle' = "closed" /\ pc' = "testing" /\ UNCHANGED exit
  /\ UNCHANGED <<IPAddress, polls, deviceVars>> /\ Unwatched

NoTest ==
  /\ Running /\ pc = "testing" /\ ~test
  /\ exit' = "ok" /\ pc' = "exit" /\ UNCHANGED handle
  /\ UNCHANGED <<IPAddress, polls, deviceVars>> /\ Unwatched

(* Who answers at an address; without one the first T7 that is found. *)
Answering(ip) ==
  {d \in {"this", "other"} :
     CASE d = "this"  -> link = "up" /\ ip \in {DHCP, address}
       [] d = "other" -> neighbour # Zero /\ ip \in {DHCP, neighbour}}

(* BasicWritesReadsViaTCP, after the user pressed a key: two attempts to    *)
(* open a given address, and what is written and read then.                *)
TestOpen(e) ==
  /\ Running /\ pc = "testing" /\ test
  /\ e # "error" => Answering(IPAddress) # {}
  /\ IF ErrorCheckDies(e)
     THEN CheckedExit /\ pc' = "exit" /\ UNCHANGED tested
     ELSE /\ tested' \in Answering(IPAddress)
          /\ pc' = "tested" /\ UNCHANGED sessionVars
  /\ UNCHANGED <<argVars, IPAddress, polls, deviceVars, neighbour, unread, early>>

TestEnd(e) ==
  /\ Running /\ pc = "tested"
  /\ IF ErrorCheckDies(e) THEN CheckedExit ELSE exit' = "ok" /\ UNCHANGED handle
  /\ pc' = "exit"
  /\ UNCHANGED <<IPAddress, polls, deviceVars>> /\ Unwatched

Program ==
  \/ \E ssid \in BOOLEAN : Args(ssid)
  \/ NoTest
  \/ \E e \in Outcome :
       \/ Open(e) \/ SetDefaults(e) \/ Restart(e) \/ PollStatus(e) \/ ReadEthernetIP(e)
       \/ PollIP(e) \/ Close(e) \/ TestOpen(e) \/ TestEnd(e)
       \/ \E status \in {"busy", "success", "failed"} : PollUpdate(e, status)

Finished ==
  /\ ~Running
  /\ UNCHANGED vars

Next == Program \/ LinkStarts \/ LinkUp \/ NeighbourMoves \/ Finished

Spec == Init /\ [][Next]_vars
-----------------------------------------------------------------------------
(* The test talks to the device that was configured, not to a neighbour,   *)
(* unless the address could not be read or was read before the interface   *)
(* was up.                                                                 *)
TestsConfiguredDevice == tested = "other" => unread \/ early

(* The USB handle is closed when the program ends, unless the address could *)
(* not be read, the association failed, or the program never opened it.    *)
HandleClosed == ~Running /\ handle = "open" => unread \/ link = "failed"

TcpSafe == TestsConfiguredDevice /\ HandleClosed
=============================================================================
