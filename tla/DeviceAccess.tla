----------------------------- MODULE DeviceAccess -----------------------------
(***************************************************************************)
(* How devices get into the household: a pairing the administrator         *)
(* approves and the device polls, a code the device scans, and the profile *)
(* tokens a device asks for.  A device and its device token are inserted   *)
(* and deleted together, so that a device stands for both.                 *)
(*                                                                         *)
(* "old" is a pairing older than ten minutes or a code older than fifteen; *)
(* expiry matters only while the row is pending or unused.                 *)
(***************************************************************************)
EXTENDS Naturals, FiniteSets

CONSTANTS
  Profiles,         (* the profiles the household starts with               *)
  Pairings,         (* ids of pairings                                      *)
  Codes,            (* codes of the administrator's QR images               *)
  Polls,            (* handlers of GET /v1/pair/{pairingId}                 *)
  Logins,           (* handlers of POST /v1/profiles/token                  *)
  MaxDevices,       (* bound: devices ever minted                           *)
  None              (* no pairing, no profile                               *)

Ids == 1..MaxDevices

VARIABLES
  profiles,         (* the profiles that exist                              *)
  pairing,          (* pairings, per id: status, expiry, device_id or 0     *)
  code,             (* pair_codes, per code: status and expiry              *)
  devices,          (* devices, each with its device token                  *)
  minted,           (* history: devices minted so far                       *)
  source,           (* history: per device the pairing or code it came from *)
  tokens,           (* profile_tokens: devices and profiles                 *)
  poll,             (* per handler: the approved pairing it read, or None   *)
  login,            (* per handler: position, device, profile               *)
  verified          (* history: devices and profiles whose PIN was right    *)

ownVars == <<pairing, code, devices, minted, source, tokens, poll, login, verified>>
vars == <<profiles, ownVars>>

Away == [at |-> "idle", d |-> 0, p |-> None]

-----------------------------------------------------------------------------
(* Pairing                                                                 *)

StartPairing(q) ==
  /\ pairing[q].st = "unused"
  /\ pairing' = [pairing EXCEPT ![q].st = "pending"]
  /\ UNCHANGED <<profiles, code, devices, minted, source, tokens, poll, login, verified>>

PairingExpires(q) ==
  /\ pairing[q].st = "pending" /\ ~pairing[q].old
  /\ pairing' = [pairing EXCEPT ![q].old = TRUE]
  /\ UNCHANGED <<profiles, code, devices, minted, source, tokens, poll, login, verified>>

(* The administrator approves or denies; only a live request is actionable.*)
SetPairingStatus(q, st) ==
  /\ pairing[q].st = "pending" /\ ~pairing[q].old
  /\ pairing' = [pairing EXCEPT ![q].st = st]
  /\ UNCHANGED <<profiles, code, devices, minted, source, tokens, poll, login, verified>>

GetPairing(h, q) ==                \* any other status is the whole answer
  /\ poll[h] = None /\ pairing[q].st = "approved"
  /\ poll' = [poll EXCEPT ![h] = q]
  /\ UNCHANGED <<profiles, pairing, code, devices, minted, source, tokens, login, verified>>

Mint(from) ==
  /\ minted < MaxDevices
  /\ minted' = minted + 1
  /\ devices' = devices \cup {minted + 1}
  /\ source' = [source EXCEPT ![minted + 1] = from]

DeliverableAgain(q) == pairing[q].st = "approved"      \* mutant: whether or not it has a device
Deliverable(q) == pairing[q].st = "approved" /\ pairing[q].device = 0

DeliverPairingToken(h) ==          \* one transaction
  LET q == poll[h] IN
  /\ q # None /\ Deliverable(q)
  /\ Mint(q)
  /\ pairing' = [pairing EXCEPT ![q].device = minted + 1]
  /\ poll' = [poll EXCEPT ![h] = None]
  /\ UNCHANGED <<profiles, code, tokens, login, verified>>

NothingToDeliver(h) ==             \* or the transaction fails
  /\ poll[h] # None
  /\ poll' = [poll EXCEPT ![h] = None]
  /\ UNCHANGED <<profiles, pairing, code, devices, minted, source, tokens, login, verified>>

CreatePairCode(c) ==
  /\ code[c].st = "unused"
  /\ code' = [code EXCEPT ![c].st = "open"]
  /\ UNCHANGED <<profiles, pairing, devices, minted, source, tokens, poll, login, verified>>

CodeExpires(c) ==
  /\ code[c].st = "open" /\ ~code[c].old
  /\ code' = [code EXCEPT ![c].old = TRUE]
  /\ UNCHANGED <<profiles, pairing, devices, minted, source, tokens, poll, login, verified>>

ClaimPairCode(c) ==                \* one transaction
  /\ code[c].st = "open" /\ ~code[c].old
  /\ code' = [code EXCEPT ![c].st = "used"]
  /\ Mint(c)
  /\ UNCHANGED <<profiles, pairing, tokens, poll, login, verified>>

(* Tokens go with the device, and pairings.device_id is set to NULL.       *)
DeleteDevice(d) ==
  /\ d \in devices /\ devices' = devices \ {d}
  /\ tokens' = {t \in tokens : t[1] # d}
  /\ pairing' = [q \in Pairings |-> IF pairing[q].device = d THEN [pairing[q] EXCEPT !.device = 0] ELSE pairing[q]]
  /\ UNCHANGED <<profiles, code, minted, source, poll, login, verified>>

-----------------------------------------------------------------------------
(* Profile tokens                                                          *)

Login(h, d, p) ==                  \* the device is known by its token
  /\ login[h] = Away /\ d \in devices /\ p \in profiles
  /\ login' = [login EXCEPT ![h] = [at |-> "pin", d |-> d, p |-> p]]
  /\ UNCHANGED <<profiles, pairing, code, devices, minted, source, tokens, poll, verified>>

VerifyPin(h) ==
  /\ login[h].at = "pin" /\ login[h].p \in profiles
  /\ login' = [login EXCEPT ![h].at = "create"]
  /\ verified' = verified \cup {<<login[h].d, login[h].p>>}
  /\ UNCHANGED <<profiles, pairing, code, devices, minted, source, tokens, poll>>

(* Both references of the new row must still exist.  Mutant: they need not.*)
CreateProfileTokenLoose(h) ==
  /\ login[h].at = "create"
  /\ tokens' = tokens \cup {<<login[h].d, login[h].p>>}
  /\ login' = [login EXCEPT ![h] = Away]
  /\ UNCHANGED <<profiles, pairing, code, devices, minted, source, poll, verified>>
CreateProfileToken(h) ==
  LET t == <<login[h].d, login[h].p>> IN
  /\ login[h].at = "create" /\ t[1] \in devices /\ t[2] \in profiles
  /\ tokens' = tokens \cup {t}
  /\ login' = [login EXCEPT ![h] = Away]
  /\ UNCHANGED <<profiles, pairing, code, devices, minted, source, poll, verified>>

LoginFails(h) ==                   \* the wrong PIN, a missing row, an error
  /\ login[h] # Away
  /\ login' = [login EXCEPT ![h] = Away]
  /\ UNCHANGED <<profiles, pairing, code, devices, minted, source, tokens, poll, verified>>

DeleteProfile(p) ==
  /\ p \in profiles /\ profiles' = profiles \ {p}
  /\ tokens' = {t \in tokens : t[2] # p}
  /\ UNCHANGED <<pairing, code, devices, minted, source, poll, login, verified>>

-----------------------------------------------------------------------------
Init ==
  /\ profiles = Profiles
  /\ pairing = [q \in Pairings |-> [st |-> "unused", old |-> FALSE, device |-> 0]]
  /\ code = [c \in Codes |-> [st |-> "unused", old |-> FALSE]]
  /\ devices = {} /\ minted = 0 /\ source = [d \in Ids |-> None]
  /\ tokens = {} /\ verified = {}
  /\ poll = [h \in Polls |-> None]
  /\ login = [h \in Logins |-> Away]

Step ==                            \* whatever leaves the profiles alone
  \/ \E q \in Pairings :
       \/ StartPairing(q) \/ PairingExpires(q)
       \/ \E st \in {"approved", "denied"} : SetPairingStatus(q, st)
       \/ \E h \in Polls : GetPairing(h, q)
  \/ \E h \in Polls : DeliverPairingToken(h) \/ NothingToDeliver(h)
  \/ \E c \in Codes : CreatePairCode(c) \/ CodeExpires(c) \/ ClaimPairCode(c)
  \/ \E d \in devices : DeleteDevice(d)
  \/ \E h \in Logins :
       \/ \E d \in devices, p \in profiles : Login(h, d, p)
       \/ VerifyPin(h) \/ CreateProfileToken(h) \/ LoginFails(h)

Next == Step \/ \E p \in profiles : DeleteProfile(p)

Spec == Init /\ [][Next]_vars

-----------------------------------------------------------------------------
(* Properties                                                              *)

(* The variables keep their types.                                         *)
TypeOK ==
  /\ profiles \subseteq Profiles
  /\ pairing \in [Pairings -> [st : {"unused", "pending", "approved", "denied"}, old : BOOLEAN,
                               device : 0..MaxDevices]]
  /\ code \in [Codes -> [st : {"unused", "open", "used"}, old : BOOLEAN]]
  /\ minted \in 0..MaxDevices /\ devices \subseteq 1..minted
  /\ source \in [Ids -> Pairings \cup Codes \cup {None}]
  /\ tokens \subseteq Ids \X Profiles /\ verified \subseteq Ids \X Profiles
  /\ poll \in [Polls -> Pairings \cup {None}]
  /\ login \in [Logins -> [at : {"idle", "pin", "create"}, d : 0..MaxDevices, p : Profiles \cup {None}]]

From(x) == {d \in 1..minted : source[d] = x}

(* DeliverPairingToken under concurrent polls, ClaimPairCode under         *)
(* concurrent scans: an approved pairing has at most one device at a time, *)
(* a code has one ever, and what was denied or never approved has none.    *)
OneDeviceEach ==
  /\ \A q \in Pairings :
       /\ \A d, e \in From(q) \cap devices : d = e
       /\ From(q) # {} => pairing[q].st = "approved"
  /\ \A c \in Codes : \A d, e \in From(c) : d = e

(* CreateProfileToken between the deletion of devices and of profiles: a   *)
(* profile token belongs to a device and a profile that both exist, and    *)
(* that device gave that profile's PIN.                                    *)
TokensAreGranted ==
  \A t \in tokens : t[1] \in devices /\ t[2] \in profiles /\ t \in verified

=============================================================================
