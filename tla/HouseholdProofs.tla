---------------------------- MODULE HouseholdProofs ----------------------------
(***************************************************************************)
(* Household for any profiles, pairings, codes, handlers and attempts: the *)
(* types of all variables, one device for each pairing and code, profile   *)
(* tokens that were granted, connections that end for good, and leases     *)
(* that protect the callback that holds them.                              *)
(***************************************************************************)
EXTENDS Household, FiniteSetTheorems, TLAPS

(* What a login works on, and what it has shown.                           *)
LoginsOK ==
  \A h \in Logins : login[h].at # "idle" =>
    /\ login[h].d \in 1..minted /\ login[h].p \in Profiles
    /\ login[h].at = "create" => <<login[h].d, login[h].p>> \in verified

AccessTypes == Access!TypeOK /\ LoginsOK

(* A pairing knows its device, and a code that gave one is used.           *)
Sourced ==
  /\ \A q \in Pairings :
       /\ \A d \in Access!From(q) \cap devices : pairing[q].device = d
       /\ Access!From(q) # {} => pairing[q].st = "approved"
  /\ \A c \in Codes :
       /\ Access!From(c) # {} => code[c].st = "used"
       /\ \A d, e \in Access!From(c) : d = e

Pairing == [st : {"unused", "pending", "approved", "denied"}, old : BOOLEAN, device : 0..MaxDevices]
Code    == [st : {"unused", "open", "used"}, old : BOOLEAN]
Login   == [at : {"idle", "pin", "create"}, d : 0..MaxDevices, p : Profiles \cup {None}]

CallbacksOK == \A h \in Callbacks : callback[h].at # "idle" => callback[h].a \in Attempts

ConnectTypes == Connect!TypeOK /\ CallbacksOK

(* What ended is gone for good.                                            *)
EndedIsGone == \A a \in completed \cup removed : attempt[a].st = "gone"
FinalInv == ConnectTypes /\ EndedIsGone /\ DisconnectIsFinal

(* A callback whose claim is late knows it, and one whose claim is not has *)
(* its attempt, or the attempt was deleted.                                *)
Leased(h) ==
  /\ callback[h].at # "idle" /\ Connect!HoldsAttempt(h) /\ attempt[callback[h].a].late => callback[h].over
  /\ callback[h].at \in {"exchange", "complete"} /\ ~callback[h].over =>
       Connect!HoldsAttempt(h) \/ callback[h].a \in removed
LeaseInv == \A h \in Callbacks : Leased(h)

(* The inductive invariant.                                                *)
HouseholdInv == AccessTypes /\ Sourced /\ TokensAreGranted /\ FinalInv /\ LeaseInv

-----------------------------------------------------------------------------
(* Devices and tokens                                                      *)

(* The initial values have their types.                                   *)
LEMMA AccessTypesInit == Init => AccessTypes
BY HouseholdAssumption DEF Init, AccessTypes, LoginsOK, Access!Init, Access!TypeOK, Access!Ids, Access!Away

(* Changing a field of a row leaves a row.                                 *)
LEMMA Rows ==
  /\ \A r \in Pairing :
       /\ \A st \in {"pending", "approved", "denied"} : [r EXCEPT !.st = st] \in Pairing
       /\ [r EXCEPT !.old = TRUE] \in Pairing
       /\ \A d \in 0..MaxDevices : [r EXCEPT !.device = d] \in Pairing
  /\ \A r \in Code :
       /\ \A st \in {"open", "used"} : [r EXCEPT !.st = st] \in Code
       /\ [r EXCEPT !.old = TRUE] \in Code
  /\ \A r \in Login : [r EXCEPT !.at = "create"] \in Login
BY DEF Pairing, Code, Login

(* The table of pairings after one row has changed.                        *)
LEMMA PairingRows ==
  ASSUME NEW rows \in [Pairings -> Pairing], NEW q \in Pairings
  PROVE  /\ \A st \in {"pending", "approved", "denied"} : [rows EXCEPT ![q].st = st] \in [Pairings -> Pairing]
         /\ [rows EXCEPT ![q].old = TRUE] \in [Pairings -> Pairing]
         /\ \A d \in 0..MaxDevices : [rows EXCEPT ![q].device = d] \in [Pairings -> Pairing]
BY Rows

(* The same for codes.                                                    *)
LEMMA CodeRows ==
  ASSUME NEW rows \in [Codes -> Code], NEW c \in Codes
  PROVE  /\ \A st \in {"open", "used"} : [rows EXCEPT ![c].st = st] \in [Codes -> Code]
         /\ [rows EXCEPT ![c].old = TRUE] \in [Codes -> Code]
BY Rows

(* Every step of DeviceAccess keeps its types.                             *)
LEMMA AccessTypesStep == ASSUME AccessTypes, Access!Step PROVE AccessTypes'
<1> USE HouseholdAssumption DEF AccessTypes, LoginsOK, Access!TypeOK, Access!Ids, Access!Away
<1>0. pairing \in [Pairings -> Pairing] /\ code \in [Codes -> Code]
  BY DEF Pairing, Code
<1>1. ASSUME NEW q \in Pairings, Access!StartPairing(q) \/ Access!PairingExpires(q)
      PROVE AccessTypes'
  <2>1. pairing' \in [Pairings -> Pairing]
    <3>1. CASE Access!StartPairing(q)
      BY <3>1, <1>0, PairingRows DEF Access!StartPairing
    <3>2. CASE Access!PairingExpires(q)
      BY <3>2, <1>0, PairingRows DEF Access!PairingExpires
    <3>3. QED
      BY <1>1, <3>1, <3>2
  <2>2. QED
    BY <1>1, <2>1 DEF Access!StartPairing, Access!PairingExpires, Pairing
<1>2. ASSUME NEW q \in Pairings, NEW st \in {"approved", "denied"}, Access!SetPairingStatus(q, st)
      PROVE AccessTypes'
  BY <1>2 DEF Access!SetPairingStatus
<1>3. ASSUME NEW q \in Pairings, NEW h \in Polls, Access!GetPairing(h, q)
      PROVE AccessTypes'
  BY <1>3 DEF Access!GetPairing
<1>4. ASSUME NEW h \in Polls, Access!DeliverPairingToken(h)
      PROVE AccessTypes'
  <2>0. minted + 1 \in 0..MaxDevices /\ poll[h] \in Pairings
    BY <1>4 DEF Access!DeliverPairingToken, Access!Mint
  <2>1. pairing' \in [Pairings -> Pairing] /\ poll' \in [Polls -> Pairings \cup {None}]
    BY <1>4, <1>0, <2>0, PairingRows DEF Access!DeliverPairingToken
  <2>2. minted' \in 0..MaxDevices /\ minted' = minted + 1 /\ devices' \subseteq 1..minted'
    BY <1>4 DEF Access!DeliverPairingToken, Access!Mint
  <2>3. source' \in [1..MaxDevices -> Pairings \cup Codes \cup {None}]
    BY <1>4 DEF Access!DeliverPairingToken, Access!Mint
  <2>4. UNCHANGED <<profiles, code, tokens, login, verified>>
    BY <1>4 DEF Access!DeliverPairingToken
  <2>5. QED
    BY <2>1, <2>2, <2>3, <2>4 DEF Pairing
<1>5. ASSUME NEW h \in Polls, Access!NothingToDeliver(h)
      PROVE AccessTypes'
  BY <1>5 DEF Access!NothingToDeliver
<1>6. ASSUME NEW c \in Codes, Access!CreatePairCode(c) \/ Access!CodeExpires(c)
      PROVE AccessTypes'
  <2>1. code' \in [Codes -> Code]
    <3>1. CASE Access!CreatePairCode(c)
      BY <3>1, <1>0, CodeRows DEF Access!CreatePairCode
    <3>2. CASE Access!CodeExpires(c)
      BY <3>2, <1>0, CodeRows DEF Access!CodeExpires
    <3>3. QED
      BY <1>6, <3>1, <3>2
  <2>2. QED
    BY <1>6, <2>1 DEF Access!CreatePairCode, Access!CodeExpires, Code
<1>7. ASSUME NEW c \in Codes, Access!ClaimPairCode(c)
      PROVE AccessTypes'
  <2>1. code' \in [Codes -> Code]
    BY <1>7, <1>0, CodeRows DEF Access!ClaimPairCode
  <2>2. minted' \in 0..MaxDevices /\ minted' = minted + 1 /\ devices' \subseteq 1..minted'
    BY <1>7 DEF Access!ClaimPairCode, Access!Mint
  <2>3. source' \in [1..MaxDevices -> Pairings \cup Codes \cup {None}]
    BY <1>7 DEF Access!ClaimPairCode, Access!Mint
  <2>4. UNCHANGED <<profiles, pairing, tokens, poll, login, verified>>
    BY <1>7 DEF Access!ClaimPairCode
  <2>5. QED
    BY <2>1, <2>2, <2>3, <2>4 DEF Code
<1>8. ASSUME NEW d \in devices, Access!DeleteDevice(d)
      PROVE AccessTypes'
  <2>1. pairing' \in [Pairings -> Pairing]
    <3>1. \A q \in Pairings : [pairing[q] EXCEPT !.device = 0] \in Pairing
      <4>1. 0 \in 0..MaxDevices
        OBVIOUS
      <4>2. QED
        BY Zenon, <1>0, <4>1, Rows
    <3>2. pairing' = [q \in Pairings |-> IF pairing[q].device = d THEN [pairing[q] EXCEPT !.device = 0] ELSE pairing[q]]
      BY <1>8 DEF Access!DeleteDevice
    <3>3. QED
      BY Zenon, <1>0, <3>1, <3>2
  <2>2. devices' \subseteq devices /\ tokens' \subseteq tokens
    BY <1>8 DEF Access!DeleteDevice
  <2>3. UNCHANGED <<profiles, code, minted, source, poll, login, verified>>
    BY <1>8 DEF Access!DeleteDevice
  <2>4. QED
    BY <2>1, <2>2, <2>3 DEF Pairing
<1>9. ASSUME NEW h \in Logins, NEW d \in devices, NEW p \in profiles, Access!Login(h, d, p)
      PROVE AccessTypes'
  BY <1>9 DEF Access!Login
<1>10. ASSUME NEW h \in Logins, Access!VerifyPin(h)
       PROVE AccessTypes'
  <2>1. login' \in [Logins -> Login]
    BY <1>10, Rows DEF Access!VerifyPin, Login
  <2>2. verified' = verified \cup {<<login[h].d, login[h].p>>} /\ verified' \subseteq (1..MaxDevices) \X Profiles
    BY <1>10 DEF Access!VerifyPin
  <2>3. LoginsOK'
    BY <1>10, <2>2 DEF Access!VerifyPin
  <2>4. QED
    BY <1>10, <2>1, <2>2, <2>3 DEF Access!VerifyPin, Login
<1>11. ASSUME NEW h \in Logins, Access!CreateProfileToken(h)
       PROVE AccessTypes'
  BY <1>11 DEF Access!CreateProfileToken
<1>12. ASSUME NEW h \in Logins, Access!LoginFails(h)
       PROVE AccessTypes'
  BY <1>12 DEF Access!LoginFails
<1> HIDE DEF AccessTypes
<1>13. QED
  BY Zenon, <1>1, <1>2, <1>3, <1>4, <1>5, <1>6, <1>7, <1>8, <1>9, <1>10, <1>11, <1>12 DEF Access!Step

(* So does the deletion of a profile.                                      *)
LEMMA AccessTypesDelete == ASSUME AccessTypes, NEW p \in profiles, Access!DeleteProfile(p) PROVE AccessTypes'
BY DEF AccessTypes, LoginsOK, Access!TypeOK, Access!DeleteProfile, Access!Ids

(* Steps of the other part leave the devices alone.                        *)
LEMMA AccessTypesUnchanged == ASSUME AccessTypes, UNCHANGED <<profiles, accessVars>> PROVE AccessTypes'
BY DEF AccessTypes, LoginsOK, Access!TypeOK, accessVars, Access!Ids

(* Whatever mints nothing and takes nothing back keeps devices sourced.    *)
LEMMA SourcedKept ==
  ASSUME Sourced, UNCHANGED <<minted, source>>, devices' \subseteq devices,
         \A q \in Pairings :
           /\ pairing[q].st = "approved" => pairing'[q].st = "approved"
           /\ \A d \in devices' : pairing[q].device = d => pairing'[q].device = d,
         \A c \in Codes : code[c].st = "used" => code'[c].st = "used"
  PROVE  Sourced'
BY DEF Sourced, Access!From

(* Where devices come from after one has been minted.                      *)
LEMMA MintEffects ==
  ASSUME AccessTypes, NEW x, Access!Mint(x)
  PROVE  /\ minted + 1 \notin devices /\ devices' = devices \cup {minted + 1}
         /\ Access!From(x)' = Access!From(x) \cup {minted + 1}
         /\ \A y : y # x => Access!From(y)' = Access!From(y)
         /\ \A y : Access!From(y) \subseteq 1..minted
<1> USE HouseholdAssumption DEF AccessTypes, Access!TypeOK, Access!Ids
<1>1. minted \in Nat /\ minted + 1 \in 1..MaxDevices /\ 1..(minted + 1) = 1..minted \cup {minted + 1}
  BY DEF Access!Mint
<1>2. minted' = minted + 1 /\ source'[minted + 1] = x /\ \A d \in 1..minted : source'[d] = source[d]
  BY <1>1 DEF Access!Mint
<1>3. minted + 1 \notin 1..minted /\ devices \subseteq 1..minted
  BY <1>1
<1>4. QED
  BY <1>1, <1>2, <1>3 DEF Access!Mint, Access!From

(* Every step of DeviceAccess keeps devices sourced.                      *)
LEMMA SourcedStep == ASSUME AccessTypes, Sourced, Access!Step PROVE Sourced'
<1>0. pairing \in [Pairings -> Pairing] /\ code \in [Codes -> Code]
  BY DEF AccessTypes, Access!TypeOK, Pairing, Code
<1>1. ASSUME NEW q \in Pairings,
             Access!StartPairing(q) \/ Access!PairingExpires(q) \/ \E st \in {"approved", "denied"} : Access!SetPairingStatus(q, st)
      PROVE Sourced'
  <2>1. \A r \in Pairings : /\ pairing[r].st = "approved" => pairing'[r].st = "approved"
                            /\ pairing'[r].device = pairing[r].device
    BY <1>0, <1>1 DEF Access!StartPairing, Access!PairingExpires, Access!SetPairingStatus, Pairing
  <2>2. UNCHANGED <<code, devices, minted, source>>
    BY <1>1 DEF Access!StartPairing, Access!PairingExpires, Access!SetPairingStatus
  <2>3. QED
    BY <2>1, <2>2, SourcedKept
<1>2. ASSUME NEW h \in Polls, Access!DeliverPairingToken(h)
      PROVE Sourced'
  <2> DEFINE q == poll[h]
             new == minted + 1
  <2>1. q \in Pairings /\ pairing[q].st = "approved" /\ pairing[q].device = 0 /\ Access!Mint(q)
    BY <1>2 DEF Access!DeliverPairingToken, Access!Deliverable, AccessTypes, Access!TypeOK
  <2>2. code' = code /\ pairing' = [pairing EXCEPT ![q].device = new]
    BY <1>2 DEF Access!DeliverPairingToken
  <2>3. /\ pairing'[q].st = "approved" /\ pairing'[q].device = new
        /\ \A r \in Pairings \ {q} : pairing'[r] = pairing[r]
    BY <1>0, <2>1, <2>2 DEF Pairing
  <2> HIDE DEF q
  <2>4. Access!From(q) \cap devices = {}
    <3>1. \A d \in Access!From(q) \cap devices : d = 0 /\ d \in 1..minted
      BY <2>1, MintEffects DEF Sourced
    <3>2. minted \in Nat
      BY HouseholdAssumption DEF AccessTypes, Access!TypeOK
    <3>3. QED
      BY <3>1, <3>2
  <2>5. ASSUME NEW r \in Pairings
        PROVE  /\ \A d \in Access!From(r)' \cap devices' : pairing'[r].device = d
               /\ Access!From(r)' # {} => pairing'[r].st = "approved"
    <3>1. CASE r = q
      BY <2>1, <2>3, <2>4, <3>1, MintEffects
    <3>2. CASE r # q
      <4>1. Access!From(r)' = Access!From(r) /\ new \notin Access!From(r) /\ devices' = devices \cup {new}
        <5>1. minted \in Nat /\ new \notin 1..minted
          BY HouseholdAssumption DEF AccessTypes, Access!TypeOK
        <5>2. QED
          BY <2>1, <3>2, <5>1, MintEffects
      <4>2. QED
        BY <2>3, <3>2, <4>1 DEF Sourced
    <3>3. QED
      BY <3>1, <3>2
  <2>6. ASSUME NEW c \in Codes
        PROVE  Access!From(c)' = Access!From(c)
    BY <2>1, MintEffects, HouseholdAssumption
  <2>7. QED
    BY <2>2, <2>5, <2>6 DEF Sourced
<1>3. ASSUME NEW c \in Codes, Access!CreatePairCode(c) \/ Access!CodeExpires(c)
      PROVE Sourced'
  <2>1. \A b \in Codes : code[b].st = "used" => code'[b].st = "used"
    BY <1>0, <1>3 DEF Access!CreatePairCode, Access!CodeExpires, Code
  <2>2. UNCHANGED <<pairing, devices, minted, source>>
    BY <1>3 DEF Access!CreatePairCode, Access!CodeExpires
  <2>3. QED
    BY <2>1, <2>2, SourcedKept
<1>4. ASSUME NEW c \in Codes, Access!ClaimPairCode(c)
      PROVE Sourced'
  <2>1. Access!Mint(c) /\ pairing' = pairing /\ code[c].st = "open" /\ code' = [code EXCEPT ![c].st = "used"]
    BY <1>4 DEF Access!ClaimPairCode
  <2>2. code'[c].st = "used" /\ \A b \in Codes \ {c} : code'[b] = code[b]
    BY <1>0, <2>1 DEF Code
  <2>3. Access!From(c) = {}
    BY <2>1 DEF Sourced
  <2>4. ASSUME NEW b \in Codes
        PROVE  /\ Access!From(b)' # {} => code'[b].st = "used"
               /\ \A d, e \in Access!From(b)' : d = e
    BY <2>1, <2>2, <2>3, MintEffects DEF Sourced
  <2>5. ASSUME NEW q \in Pairings
        PROVE  Access!From(q)' = Access!From(q) /\ Access!From(q)' \cap devices' = Access!From(q) \cap devices
    <3>1. minted \in Nat /\ minted + 1 \notin 1..minted
      BY HouseholdAssumption DEF AccessTypes, Access!TypeOK
    <3>2. q # c
      BY HouseholdAssumption
    <3>3. QED
      BY <2>1, <3>1, <3>2, MintEffects
  <2>6. QED
    BY <2>1, <2>4, <2>5 DEF Sourced
<1>5. ASSUME NEW d \in devices, Access!DeleteDevice(d)
      PROVE Sourced'
  <2>1. \A q \in Pairings : /\ pairing'[q].st = pairing[q].st
                            /\ pairing[q].device # d => pairing'[q].device = pairing[q].device
    BY <1>0, <1>5 DEF Access!DeleteDevice, Pairing
  <2>2. UNCHANGED <<code, minted, source>> /\ devices' = devices \ {d}
    BY <1>5 DEF Access!DeleteDevice
  <2>3. QED
    BY <2>1, <2>2, SourcedKept
<1>6. ASSUME UNCHANGED <<pairing, code, devices, minted, source>>
      PROVE Sourced'
  BY <1>6, SourcedKept
<1>7. QED
  BY <1>1, <1>2, <1>3, <1>4, <1>5, <1>6
     DEF Access!Step, Access!GetPairing, Access!NothingToDeliver, Access!Login, Access!VerifyPin,
         Access!CreateProfileToken, Access!LoginFails

(* Tokens stay granted, whatever is deleted.                               *)
LEMMA GrantedStep ==
  ASSUME AccessTypes, TokensAreGranted, Access!Step
  PROVE  TokensAreGranted'
<1>1. ASSUME NEW h \in Logins, Access!CreateProfileToken(h)
      PROVE TokensAreGranted'
  BY <1>1 DEF Access!CreateProfileToken, AccessTypes, LoginsOK, TokensAreGranted, Access!TokensAreGranted
<1>2. ASSUME NEW h \in Logins, Access!VerifyPin(h)
      PROVE TokensAreGranted'
  BY <1>2 DEF Access!VerifyPin, TokensAreGranted, Access!TokensAreGranted
<1>3. ASSUME NEW d \in devices, Access!DeleteDevice(d)
      PROVE TokensAreGranted'
  BY <1>3 DEF Access!DeleteDevice, TokensAreGranted, Access!TokensAreGranted
<1>4. ASSUME UNCHANGED <<profiles, tokens, verified>>, devices \subseteq devices'
      PROVE TokensAreGranted'
  BY <1>4 DEF TokensAreGranted, Access!TokensAreGranted
<1>5. QED
  BY <1>1, <1>2, <1>3, <1>4
     DEF Access!Step, Access!StartPairing, Access!PairingExpires, Access!SetPairingStatus, Access!GetPairing,
         Access!DeliverPairingToken, Access!Mint, Access!NothingToDeliver, Access!CreatePairCode,
         Access!CodeExpires, Access!ClaimPairCode, Access!Login, Access!LoginFails

-----------------------------------------------------------------------------
(* Attempts, callbacks and the connection                                  *)

(* Changing fields of an attempt or of a callback.                         *)
Attempt  == [st : {"unused", "open", "claimed", "gone"}, by : Callbacks \cup {None}, late : BOOLEAN, old : BOOLEAN]
Callback == [at : {"idle", "exchange", "complete", "release"}, a : Attempts \cup {None}, over : BOOLEAN]

(* Every record the actions write to an attempt is one.                   *)
LEMMA AttemptFields ==
  /\ Connect!Gone \in Attempt /\ [Connect!Gone EXCEPT !.st = "open"] \in Attempt
  /\ \A r \in Attempt :
       /\ [r EXCEPT !.late = TRUE] \in Attempt /\ [r EXCEPT !.old = TRUE] \in Attempt
       /\ \A h \in Callbacks : [r EXCEPT !.st = "claimed", !.by = h, !.late = FALSE] \in Attempt
       /\ [r EXCEPT !.st = "open", !.by = None, !.late = FALSE] \in Attempt
<1>1. Connect!Gone \in Attempt /\ [Connect!Gone EXCEPT !.st = "open"] \in Attempt
  BY DEF Attempt, Connect!Gone
<1>2. ASSUME NEW r \in Attempt
      PROVE  [r EXCEPT !.late = TRUE] \in Attempt /\ [r EXCEPT !.old = TRUE] \in Attempt
  BY DEF Attempt
<1>3. ASSUME NEW r \in Attempt, NEW h \in Callbacks
      PROVE  [r EXCEPT !.st = "claimed", !.by = h, !.late = FALSE] \in Attempt
  BY DEF Attempt
<1>4. ASSUME NEW r \in Attempt
      PROVE  [r EXCEPT !.st = "open", !.by = None, !.late = FALSE] \in Attempt
  BY DEF Attempt
<1>5. QED
  BY Zenon, <1>1, <1>2, <1>3, <1>4

(* Every record the actions write to a callback is one.                   *)
LEMMA CallbackFields ==
  /\ Connect!Idle \in Callback
  /\ \A a \in Attempts : [at |-> "exchange", a |-> a, over |-> FALSE] \in Callback
  /\ \A r \in Callback :
       /\ [r EXCEPT !.over = TRUE] \in Callback
       /\ \A at \in {"complete", "release"} : [r EXCEPT !.at = at] \in Callback
BY DEF Callback, Connect!Idle

(* The initial values have their types.                                   *)
LEMMA ConnectTypesInit == Init => ConnectTypes
<1> SUFFICES ASSUME Init PROVE ConnectTypes
  OBVIOUS
<1>1. [Connect!Gone EXCEPT !.st = "unused"] \in Attempt
  BY DEF Connect!Gone, Attempt
<1>2. attempt \in [Attempts -> Attempt] /\ callback \in [Callbacks -> Callback]
  BY <1>1, CallbackFields DEF Init
<1>3. \A h \in Callbacks : callback[h].at = "idle"
  BY DEF Init, Connect!Idle
<1>4. configured \in BOOLEAN /\ erasing \in BOOLEAN /\ made \in Nat /\ conn \in 0..made
      /\ completed \subseteq Attempts /\ removed \subseteq Attempts
  <2>1. configured \in BOOLEAN /\ erasing \in BOOLEAN
    BY Zenon DEF Init
  <2>2. made = 0 /\ conn = 0 /\ completed = {} /\ removed = {}
    BY Zenon DEF Init
  <2>3. QED
    BY <2>1, <2>2
<1>5. QED
  BY <1>2, <1>3, <1>4 DEF ConnectTypes, CallbacksOK, Connect!TypeOK, Attempt, Callback

(* Every step of LastfmConnect keeps its types.                            *)
LEMMA ConnectTypesStep == ASSUME ConnectTypes, Connect!Step PROVE ConnectTypes'
<1>0. attempt \in [Attempts -> Attempt] /\ callback \in [Callbacks -> Callback]
  BY DEF ConnectTypes, Connect!TypeOK, Attempt, Callback
<1> USE DEF ConnectTypes, CallbacksOK
<1>1. CASE Connect!AdminSet \/ Connect!AdminClear \/ Connect!AdminEraseFails
  BY <1>1 DEF Connect!TypeOK, Connect!AdminSet, Connect!AdminClear, Connect!AdminEraseFails
<1>2. CASE Connect!AdminErase \/ Connect!Disconnect
  <2>1. conn' = 0 /\ made' = made /\ completed' = completed /\ callback' = callback /\ configured' = configured
        /\ erasing' \in {FALSE, erasing} /\ removed' = removed \cup Connect!Pending
        /\ attempt' = [a \in Attempts |-> IF a \in Connect!Pending THEN Connect!Gone ELSE attempt[a]]
    BY <1>2 DEF Connect!AdminErase, Connect!Disconnect, Connect!Erase
  <2>2. attempt' \in [Attempts -> Attempt]
    BY <1>0, <2>1, AttemptFields
  <2>3. QED
    <3>1. removed' \subseteq Attempts /\ conn' \in 0..made' /\ erasing' \in BOOLEAN
      <4>1. made \in Nat /\ removed \subseteq Attempts /\ erasing \in BOOLEAN /\ Connect!Pending \subseteq Attempts
        BY DEF Connect!TypeOK, Connect!Pending
      <4>2. erasing' \in BOOLEAN
        BY Zenon, <2>1, <4>1
      <4>3. removed' \subseteq Attempts
        BY Zenon, <2>1, <4>1
      <4>4. conn' = 0 /\ made' = made
        BY <2>1
      <4>5. QED
        BY <4>1, <4>2, <4>3, <4>4
    <3>2. UNCHANGED <<made, completed, callback, configured>>
      BY <2>1
    <3>3. QED
      BY <2>2, <3>1, <3>2 DEF Connect!TypeOK, Attempt
<1>3. ASSUME NEW a \in Attempts, Connect!Connect(a)
      PROVE ConnectTypes'
  <2>1. attempt' \in [Attempts -> Attempt]
    <3> DEFINE new == [Connect!Gone EXCEPT !.st = "open"]
    <3>1. attempt' = [b \in Attempts |-> IF b \in Connect!Expired THEN Connect!Gone
                                        ELSE IF b = a THEN new ELSE attempt[b]]
      BY <1>3 DEF Connect!Connect
    <3>2. Connect!Gone \in Attempt /\ new \in Attempt
      BY AttemptFields
    <3> HIDE DEF new
    <3>3. QED
      BY <1>0, <3>1, <3>2
  <2>2. QED
    BY <1>3, <2>1 DEF Connect!Connect, Connect!TypeOK, Connect!Pending, Connect!Expired, Attempt
<1>4. ASSUME NEW a \in Attempts, Connect!AttemptLate(a)
      PROVE ConnectTypes'
  <2>1. attempt' \in [Attempts -> Attempt] /\ callback' \in [Callbacks -> Callback]
    BY <1>0, <1>4, AttemptFields, CallbackFields DEF Connect!AttemptLate
  <2>2. \A h \in Callbacks : callback'[h].at = callback[h].at /\ callback'[h].a = callback[h].a
    BY <1>0, <1>4 DEF Connect!AttemptLate, Callback
  <2>3. QED
    BY <1>4, <2>1, <2>2 DEF Connect!AttemptLate, Connect!TypeOK, Attempt, Callback
<1>5. ASSUME NEW a \in Attempts, Connect!AttemptExpires(a)
      PROVE ConnectTypes'
  <2>1. attempt' \in [Attempts -> Attempt]
    BY <1>0, <1>5, AttemptFields DEF Connect!AttemptExpires
  <2>2. QED
    BY <1>5, <2>1 DEF Connect!AttemptExpires, Connect!TypeOK, Attempt
<1>6. ASSUME NEW h \in Callbacks, NEW a \in Attempts, Connect!ClaimAttempt(h, a)
      PROVE ConnectTypes'
  <2>1. attempt' \in [Attempts -> Attempt] /\ callback' \in [Callbacks -> Callback]
    BY <1>0, <1>6, AttemptFields, CallbackFields DEF Connect!ClaimAttempt
  <2>2. QED
    BY <1>0, <1>6, <2>1 DEF Connect!ClaimAttempt, Connect!TypeOK, Attempt, Callback
<1>7. ASSUME NEW h \in Callbacks, Connect!Exchange(h) \/ Connect!CompleteRefused(h) \/ Connect!CallbackLost(h)
      PROVE ConnectTypes'
  <2>1. UNCHANGED <<configured, conn, made, erasing, attempt, completed, removed>>
    BY <1>7 DEF Connect!Exchange, Connect!CompleteRefused, Connect!CallbackLost
  <2>2. callback[h].at # "idle" /\
        \/ \E at \in {"complete", "release"} : callback' = [callback EXCEPT ![h].at = at]
        \/ callback' = [callback EXCEPT ![h] = Connect!Idle]
    BY <1>7 DEF Connect!Exchange, Connect!CompleteRefused, Connect!CallbackLost
  <2>3. callback' \in [Callbacks -> Callback]
    <3>1. CASE callback' = [callback EXCEPT ![h] = Connect!Idle]
      BY <1>0, <3>1, CallbackFields
    <3>2. ASSUME NEW at \in {"complete", "release"}, callback' = [callback EXCEPT ![h].at = at]
          PROVE  callback' \in [Callbacks -> Callback]
      BY <1>0, <3>2, CallbackFields
    <3>3. QED
      BY <2>2, <3>1, <3>2
  <2>4. CallbacksOK'
    BY <1>0, <2>2 DEF Connect!Idle, Callback
  <2>5. QED
    BY <2>1, <2>3, <2>4 DEF Connect!TypeOK, Callback
<1>8. ASSUME NEW h \in Callbacks, Connect!CompleteAttempt(h)
      PROVE ConnectTypes'
  <2>1. callback[h].a \in Attempts
    BY <1>8 DEF Connect!CompleteAttempt
  <2>2. attempt' \in [Attempts -> Attempt] /\ callback' \in [Callbacks -> Callback]
    BY <1>0, <1>8, AttemptFields, CallbackFields DEF Connect!CompleteAttempt
  <2>3. CallbacksOK'
    BY <1>0, <1>8 DEF Connect!CompleteAttempt, Connect!Idle, Callback
  <2>4. QED
    BY <1>8, <2>1, <2>2, <2>3 DEF Connect!CompleteAttempt, Connect!TypeOK, Attempt, Callback
<1>9. ASSUME NEW h \in Callbacks, Connect!ReleaseAttempt(h)
      PROVE ConnectTypes'
  <2>1. callback[h].a \in Attempts
    BY <1>9 DEF Connect!ReleaseAttempt
  <2>2. attempt' \in [Attempts -> Attempt] /\ callback' \in [Callbacks -> Callback]
    <3> DEFINE freed == [attempt[callback[h].a] EXCEPT !.st = "open", !.by = None, !.late = FALSE]
    <3>1. callback' = [callback EXCEPT ![h] = Connect!Idle]
          /\ (attempt' = attempt \/ attempt' = [attempt EXCEPT ![callback[h].a] = freed])
      BY <1>9 DEF Connect!ReleaseAttempt
    <3>2. freed \in Attempt /\ Connect!Idle \in Callback
      BY <1>0, <2>1, AttemptFields, CallbackFields
    <3> HIDE DEF freed
    <3>3. QED
      BY <1>0, <2>1, <3>1, <3>2
  <2>3. CallbacksOK'
    BY <1>0, <1>9 DEF Connect!ReleaseAttempt, Connect!Idle, Callback
  <2>4. QED
    BY <1>9, <2>2, <2>3 DEF Connect!ReleaseAttempt, Connect!TypeOK, Attempt, Callback
<1>10. QED
  BY <1>1, <1>2, <1>3, <1>4, <1>5, <1>6, <1>7, <1>8, <1>9 DEF Connect!Step

(* LastfmConnect counts as this module does.                               *)
LEMMA SameCount == \A S : Connect!Cardinality(S) = Cardinality(S)
BY DEF Connect!Cardinality, Cardinality

(* What a deletion leaves: nothing pending, nothing connected.             *)
LEMMA EraseFinal ==
  ASSUME FinalInv, Connect!Erase
  PROVE  /\ EndedIsGone' /\ (completed \cap removed)' = {} /\ (made = Cardinality(completed))'
         /\ conn' = 0 /\ Connect!Pending' = {}
<1>0. attempt \in [Attempts -> Attempt] /\ completed \subseteq Attempts /\ removed \subseteq Attempts
  BY DEF FinalInv, ConnectTypes, Connect!TypeOK, Attempt
<1>1. /\ conn' = 0 /\ made' = made /\ completed' = completed /\ removed' = removed \cup Connect!Pending
      /\ attempt' = [a \in Attempts |-> IF a \in Connect!Pending THEN Connect!Gone ELSE attempt[a]]
  BY DEF Connect!Erase
<1>2. \A a \in Attempts : a \in Connect!Pending => attempt'[a].st = "gone"
  BY <1>1 DEF Connect!Gone
<1>3. \A a \in Attempts \ Connect!Pending : attempt'[a] = attempt[a]
  BY <1>1
<1>4. Connect!Pending \cap completed = {} /\ Connect!Pending \subseteq Attempts
  BY DEF FinalInv, EndedIsGone, Connect!Pending
<1>5. EndedIsGone'
  <2> SUFFICES ASSUME NEW a \in (completed \cup removed)' PROVE attempt'[a].st = "gone"
    BY DEF EndedIsGone
  <2>1. a \in Attempts /\ (a \in Connect!Pending \/ attempt[a].st = "gone")
    <3>1. a \in completed \/ a \in removed \/ a \in Connect!Pending
      BY <1>1
    <3>2. QED
      BY <1>0, <1>4, <3>1 DEF FinalInv, EndedIsGone
  <2>2. QED
    BY <1>2, <1>3, <2>1
<1>6. Connect!Pending' = {}
  BY <1>2, <1>3 DEF Connect!Pending
<1>7. (completed \cap removed)' = {} /\ (made = Cardinality(completed))'
  <2>1. completed \cap removed = {} /\ made = Cardinality(completed)
    BY SameCount DEF FinalInv, DisconnectIsFinal, Connect!DisconnectIsFinal
  <2>2. (completed \cap removed)' = {}
    BY Zenon, <1>1, <1>4, <2>1
  <2>3. QED
    BY <1>1, <2>1, <2>2
<1>8. QED
  BY <1>1, <1>5, <1>6, <1>7

(* Whatever ends no attempt and opens none keeps what ended.               *)
LEMMA FinalKept ==
  ASSUME FinalInv, UNCHANGED <<profiles, conn, made, completed, removed>>,
         \A a \in Attempts : /\ attempt[a].st = "gone" => attempt'[a].st = "gone"
                             /\ attempt'[a].st \in {"open", "claimed"} => attempt[a].st \in {"open", "claimed"}
  PROVE  EndedIsGone' /\ DisconnectIsFinal'
<1>1. completed \subseteq Attempts /\ removed \subseteq Attempts
  BY DEF FinalInv, ConnectTypes, Connect!TypeOK
<1>2. EndedIsGone'
  BY <1>1 DEF FinalInv, EndedIsGone
<1>3. Connect!Pending' \subseteq Connect!Pending
  BY DEF Connect!Pending
<1>4. QED
  BY <1>2, <1>3 DEF FinalInv, DisconnectIsFinal, Connect!DisconnectIsFinal

(* Every step of LastfmConnect leaves ended what ended.                    *)
LEMMA FinalStep == ASSUME FinalInv, Connect!Step PROVE EndedIsGone' /\ DisconnectIsFinal'
<1>0. /\ attempt \in [Attempts -> Attempt] /\ completed \subseteq Attempts /\ removed \subseteq Attempts
      /\ CallbacksOK
  BY DEF FinalInv, ConnectTypes, Connect!TypeOK, Attempt
<1>1. CASE Connect!AdminErase \/ Connect!Disconnect
  <2>1. Connect!Erase
    BY <1>1 DEF Connect!AdminErase, Connect!Disconnect
  <2>2. QED
    BY <2>1, EraseFinal, SameCount DEF DisconnectIsFinal, Connect!DisconnectIsFinal
<1>2. ASSUME NEW b \in Attempts, Connect!Connect(b)
      PROVE EndedIsGone' /\ DisconnectIsFinal'
  <2>1. /\ Listener \in profiles' /\ conn' = conn /\ made' = made /\ completed' = completed
        /\ attempt[b].st = "unused" /\ removed' = removed \cup Connect!Expired
    BY <1>2 DEF Connect!Connect
  <2>2. \A a \in Attempts : /\ a \in Connect!Expired => attempt'[a].st = "gone"
                            /\ a \notin Connect!Expired /\ a # b => attempt'[a] = attempt[a]
    BY <1>2 DEF Connect!Connect, Connect!Gone
  <2>3. \A a \in Connect!Expired : a \in Attempts /\ attempt[a].st \in {"open", "claimed"}
    BY DEF Connect!Expired, Connect!Pending
  <2>4. EndedIsGone'
    BY <1>0, <2>1, <2>2, <2>3 DEF FinalInv, EndedIsGone
  <2>5. QED
    BY <2>1, <2>3, <2>4 DEF FinalInv, EndedIsGone, DisconnectIsFinal, Connect!DisconnectIsFinal
<1>3. ASSUME NEW a \in Attempts, Connect!AttemptLate(a) \/ Connect!AttemptExpires(a)
      PROVE EndedIsGone' /\ DisconnectIsFinal'
  <2>1. \A b \in Attempts : attempt'[b].st = attempt[b].st
    BY <1>0, <1>3 DEF Connect!AttemptLate, Connect!AttemptExpires, Attempt
  <2>2. QED
    BY <1>3, <2>1, FinalKept DEF Connect!AttemptLate, Connect!AttemptExpires
<1>4. ASSUME NEW h \in Callbacks, NEW a \in Attempts, Connect!ClaimAttempt(h, a)
      PROVE EndedIsGone' /\ DisconnectIsFinal'
  <2>1. /\ attempt[a].st \in {"open", "claimed"} /\ attempt'[a].st = "claimed"
        /\ \A b \in Attempts \ {a} : attempt'[b] = attempt[b]
    BY <1>0, <1>4 DEF Connect!ClaimAttempt, Attempt
  <2>2. QED
    BY <1>4, <2>1, FinalKept DEF Connect!ClaimAttempt
<1>5. ASSUME NEW h \in Callbacks, Connect!CompleteAttempt(h)
      PROVE EndedIsGone' /\ DisconnectIsFinal'
  <2> DEFINE a == callback[h].a
  <2>1. a \in Attempts /\ a \in Connect!Pending
    BY <1>0, <1>5 DEF Connect!CompleteAttempt, Connect!HoldsAttempt, CallbacksOK, Connect!Pending
  <2>2. /\ conn' = made + 1 /\ made' = made + 1 /\ completed' = completed \cup {a}
        /\ profiles' = profiles /\ removed' = removed /\ attempt' = [attempt EXCEPT ![a] = Connect!Gone]
    BY <1>5 DEF Connect!CompleteAttempt
  <2> HIDE DEF a
  <2>3. a \notin completed /\ a \notin removed /\ Listener \in profiles
    BY <2>1 DEF FinalInv, EndedIsGone, DisconnectIsFinal, Connect!DisconnectIsFinal, Connect!Pending
  <2>4. Cardinality(completed \cup {a}) = Cardinality(completed) + 1
    <3>1. IsFiniteSet(completed)
      BY <1>0, HouseholdAssumption, FS_Subset
    <3>2. QED
      BY <2>3, <3>1, FS_AddElement
  <2>5. attempt'[a].st = "gone" /\ \A b \in Attempts \ {a} : attempt'[b] = attempt[b]
    BY <1>0, <2>1, <2>2 DEF Connect!Gone
  <2>6. EndedIsGone'
    BY <1>0, <2>2, <2>5 DEF FinalInv, EndedIsGone
  <2>7. completed \cap removed = {} /\ made = Cardinality(completed)
    BY SameCount DEF FinalInv, DisconnectIsFinal, Connect!DisconnectIsFinal
  <2>8. (completed \cap removed)' = {} /\ made' = Cardinality(completed')
    BY <2>2, <2>3, <2>4, <2>7
  <2>9. QED
    BY <2>2, <2>3, <2>6, <2>8, SameCount DEF DisconnectIsFinal, Connect!DisconnectIsFinal
<1>6. ASSUME NEW h \in Callbacks, Connect!ReleaseAttempt(h)
      PROVE EndedIsGone' /\ DisconnectIsFinal'
  <2>1. \A b \in Attempts : \/ attempt'[b] = attempt[b]
                            \/ attempt[b].st = "claimed" /\ attempt'[b].st = "open"
    <3>1. CASE Connect!HoldsAttempt(h)
      BY <1>0, <1>6, <3>1 DEF Connect!ReleaseAttempt, Connect!HoldsAttempt, CallbacksOK, Attempt
    <3>2. CASE ~Connect!HoldsAttempt(h)
      BY <1>6, <3>2 DEF Connect!ReleaseAttempt
    <3>3. QED
      BY <3>1, <3>2
  <2>2. QED
    BY <1>6, <2>1, FinalKept DEF Connect!ReleaseAttempt
<1>7. ASSUME UNCHANGED <<profiles, conn, made, attempt, completed, removed>>
      PROVE EndedIsGone' /\ DisconnectIsFinal'
  BY <1>7, FinalKept
<1>8. QED
  BY <1>1, <1>2, <1>3, <1>4, <1>5, <1>6, <1>7
     DEF Connect!Step, Connect!AdminSet, Connect!AdminClear, Connect!AdminEraseFails, Connect!Exchange,
         Connect!CompleteRefused, Connect!CallbackLost

-----------------------------------------------------------------------------
(* Leases                                                                  *)

(* A callback that does not move keeps its lease, unless it is taken from  *)
(* it late or deleted.                                                     *)
LEMMA LeaseKept ==
  ASSUME LeaseInv, NEW h \in Callbacks, callback'[h] = callback[h], removed \subseteq removed',
         callback[h].at # "idle" /\ Connect!HoldsAttempt(h)' =>
           Connect!HoldsAttempt(h) /\ attempt'[callback[h].a].late = attempt[callback[h].a].late,
         callback[h].at # "idle" /\ Connect!HoldsAttempt(h) /\ ~callback[h].over =>
           Connect!HoldsAttempt(h)' \/ callback[h].a \in removed'
  PROVE  Leased(h)'
<1>1. Leased(h)
  BY DEF LeaseInv
<1>2. callback[h].at \in {"exchange", "complete"} => callback[h].at # "idle"
  OBVIOUS
<1>3. QED
  BY Zenon, <1>1, <1>2 DEF Leased

(* Where nothing but the age of attempts changes, nothing of a lease does. *)
LEMMA LeaseUnchanged ==
  ASSUME LeaseInv, UNCHANGED callback, removed \subseteq removed', CallbacksOK,
         \A a \in Attempts : /\ attempt'[a].st = attempt[a].st /\ attempt'[a].by = attempt[a].by
                             /\ attempt'[a].late = attempt[a].late
  PROVE  LeaseInv'
<1> SUFFICES ASSUME NEW h \in Callbacks PROVE Leased(h)'
  BY DEF LeaseInv
<1>1. callback[h].at # "idle" => callback[h].a \in Attempts
  BY DEF CallbacksOK
<1>2. callback[h].at # "idle" =>
        /\ Connect!HoldsAttempt(h)' <=> Connect!HoldsAttempt(h)
        /\ attempt'[callback[h].a].late = attempt[callback[h].a].late
  BY <1>1 DEF Connect!HoldsAttempt
<1>3. QED
  BY <1>2, LeaseKept

(* A deletion takes attempts from whoever holds them, and says so.        *)
LEMMA EraseLeases ==
  ASSUME ConnectTypes, LeaseInv, Connect!Erase, UNCHANGED callback
  PROVE  LeaseInv'
<1> SUFFICES ASSUME NEW h \in Callbacks PROVE Leased(h)'
  BY DEF LeaseInv
<1> DEFINE a == callback[h].a
<1>1. callback[h].at # "idle" => a \in Attempts
  BY DEF ConnectTypes, CallbacksOK
<1>2. removed' = removed \cup Connect!Pending
  BY DEF Connect!Erase
<1>3. a \in Attempts /\ a \in Connect!Pending => attempt'[a].st = "gone"
  BY DEF Connect!Erase, Connect!Gone
<1>4. a \in Attempts /\ a \notin Connect!Pending => attempt'[a] = attempt[a]
  BY DEF Connect!Erase
<1>5. a \in Attempts /\ Connect!HoldsAttempt(h) => a \in Connect!Pending
  BY DEF Connect!HoldsAttempt, Connect!Pending
<1>6. a \in Attempts /\ Connect!HoldsAttempt(h)' => attempt'[a] = attempt[a] /\ Connect!HoldsAttempt(h)
  BY <1>3, <1>4 DEF Connect!HoldsAttempt
<1>7. QED
  BY <1>1, <1>2, <1>5, <1>6, LeaseKept

(* One callback moves: what it does to its own lease, and that it takes    *)
(* no other attempt from another callback, nor one that is not late.       *)
LEMMA LeaseMoves ==
  ASSUME ConnectTypes, LeaseInv, NEW h \in Callbacks, Leased(h)', NEW a,
         UNCHANGED removed, \A g \in Callbacks \ {h} : callback'[g] = callback[g],
         \A b \in Attempts \ {a} : attempt'[b] = attempt[b],
         a \in Attempts =>
           /\ attempt[a].st # "claimed" \/ attempt[a].late \/ attempt[a].by = h
           /\ attempt'[a].st # "claimed" \/ attempt'[a].by = h
  PROVE  LeaseInv'
<1> SUFFICES ASSUME NEW g \in Callbacks \ {h} PROVE Leased(g)'
  BY DEF LeaseInv
<1>1. callback'[g] = callback[g] /\ (callback[g].at # "idle" => callback[g].a \in Attempts)
  BY DEF ConnectTypes, CallbacksOK
<1>2. CASE callback[g].at = "idle" \/ callback[g].a # a
  <2>1. callback[g].at # "idle" => attempt'[callback[g].a] = attempt[callback[g].a]
    BY <1>1, <1>2
  <2>2. callback[g].at # "idle" => (Connect!HoldsAttempt(g)' <=> Connect!HoldsAttempt(g))
    BY <1>1, <2>1 DEF Connect!HoldsAttempt
  <2>3. QED
    BY <1>1, <2>1, <2>2, LeaseKept
<1>3. CASE callback[g].at # "idle" /\ callback[g].a = a
  <2>1. a \in Attempts
    BY <1>1, <1>3
  <2>2. ~Connect!HoldsAttempt(g)'
    BY <1>1, <1>3, <2>1 DEF Connect!HoldsAttempt
  <2>3. Connect!HoldsAttempt(g) => attempt[a].late
    BY <1>3, <2>1 DEF Connect!HoldsAttempt
  <2>4. Leased(g)
    BY DEF LeaseInv
  <2>5. Connect!HoldsAttempt(g) => callback[g].over
    BY Zenon, <1>3, <2>3, <2>4 DEF Leased
  <2>6. QED
    BY <1>1, <2>2, <2>5, LeaseKept
<1>4. QED
  BY <1>2, <1>3

(* Every step of LastfmConnect keeps the leases.                           *)
LEMMA LeaseStep == ASSUME ConnectTypes, LeaseInv, Connect!Step PROVE LeaseInv'
<1>0. /\ attempt \in [Attempts -> Attempt] /\ callback \in [Callbacks -> Callback]
      /\ CallbacksOK
  BY DEF ConnectTypes, Connect!TypeOK, Attempt, Callback
<1>1. CASE Connect!AdminErase \/ Connect!Disconnect
  BY <1>1, EraseLeases DEF Connect!AdminErase, Connect!Disconnect
<1>2. ASSUME NEW b \in Attempts, Connect!Connect(b)
      PROVE LeaseInv'
  <2> SUFFICES ASSUME NEW h \in Callbacks PROVE Leased(h)'
    BY DEF LeaseInv
  <2>1. /\ callback' = callback /\ attempt[b].st = "unused" /\ removed' = removed \cup Connect!Expired
        /\ callback[h].at # "idle" => callback[h].a \in Attempts
    BY <1>0, <1>2 DEF Connect!Connect, CallbacksOK
  <2>2. \A a \in Attempts : /\ a \in Connect!Expired => attempt'[a].st = "gone"
                            /\ a \notin Connect!Expired /\ a # b => attempt'[a] = attempt[a]
                            /\ a \notin Connect!Expired /\ a = b => attempt'[a].st = "open"
    BY <1>2 DEF Connect!Connect, Connect!Gone
  <2>3. callback[h].at # "idle" /\ Connect!HoldsAttempt(h)' =>
          attempt'[callback[h].a] = attempt[callback[h].a] /\ Connect!HoldsAttempt(h)
    BY <2>1, <2>2 DEF Connect!HoldsAttempt
  <2>4. callback[h].at # "idle" /\ Connect!HoldsAttempt(h) => Connect!HoldsAttempt(h)' \/ callback[h].a \in removed'
    BY <2>1, <2>2 DEF Connect!HoldsAttempt
  <2>5. QED
    BY <2>1, <2>3, <2>4, LeaseKept
<1>3. ASSUME NEW a \in Attempts, Connect!AttemptLate(a)
      PROVE LeaseInv'
  <2> SUFFICES ASSUME NEW h \in Callbacks PROVE Leased(h)'
    BY DEF LeaseInv
  <2>1. CASE attempt[a].by = h /\ callback[h].a = a
    <3>1. callback'[h].over = TRUE
      BY <1>0, <1>3, <2>1 DEF Connect!AttemptLate, Callback
    <3>2. QED
      BY <3>1 DEF Leased
  <2>2. CASE ~(attempt[a].by = h /\ callback[h].a = a)
    <3>1. callback'[h] = callback[h] /\ removed' = removed
      BY <1>3, <2>2 DEF Connect!AttemptLate
    <3>2. \A b \in Attempts : /\ attempt'[b].st = attempt[b].st /\ attempt'[b].by = attempt[b].by
                              /\ b # a => attempt'[b] = attempt[b]
      BY <1>0, <1>3 DEF Connect!AttemptLate, Attempt
    <3>3. callback[h].at # "idle" => callback[h].a \in Attempts
      BY <1>0 DEF CallbacksOK
    <3>4. callback[h].at # "idle" =>
            /\ Connect!HoldsAttempt(h)' <=> Connect!HoldsAttempt(h)
            /\ Connect!HoldsAttempt(h) => callback[h].a # a
      BY <2>2, <3>1, <3>2, <3>3 DEF Connect!HoldsAttempt
    <3>5. QED
      BY <3>1, <3>2, <3>3, <3>4, LeaseKept
  <2>3. QED
    BY <2>1, <2>2
<1>4. ASSUME NEW a \in Attempts, Connect!AttemptExpires(a)
      PROVE LeaseInv'
  <2>1. \A b \in Attempts : /\ attempt'[b].st = attempt[b].st /\ attempt'[b].by = attempt[b].by
                            /\ attempt'[b].late = attempt[b].late
    BY <1>0, <1>4 DEF Connect!AttemptExpires, Attempt
  <2>2. QED
    BY <1>0, <1>4, <2>1, LeaseUnchanged DEF Connect!AttemptExpires
<1>5. ASSUME NEW h \in Callbacks, NEW a \in Attempts, Connect!ClaimAttempt(h, a)
      PROVE LeaseInv'
  <2>1. callback'[h] = [at |-> "exchange", a |-> a, over |-> FALSE]
    BY <1>0, <1>5 DEF Connect!ClaimAttempt
  <2>2. attempt'[a].st = "claimed" /\ attempt'[a].by = h /\ attempt'[a].late = FALSE
    BY <1>0, <1>5 DEF Connect!ClaimAttempt, Attempt
  <2>3. Leased(h)'
    BY <2>1, <2>2 DEF Leased, Connect!HoldsAttempt
  <2>4. /\ removed' = removed /\ \A g \in Callbacks \ {h} : callback'[g] = callback[g]
        /\ \A b \in Attempts \ {a} : attempt'[b] = attempt[b]
        /\ attempt[a].st # "claimed" \/ attempt[a].late
    BY <1>0, <1>5 DEF Connect!ClaimAttempt
  <2>5. QED
    BY <2>2, <2>3, <2>4, LeaseMoves
<1>6. ASSUME NEW h \in Callbacks, Connect!Exchange(h) \/ Connect!CompleteRefused(h) \/ Connect!CallbackLost(h)
      PROVE LeaseInv'
  <2>1. /\ removed' = removed /\ attempt' = attempt
        /\ \A g \in Callbacks \ {h} : callback'[g] = callback[g]
    BY <1>0, <1>6 DEF Connect!Exchange, Connect!CompleteRefused, Connect!CallbackLost
  <2>2. \/ callback'[h].at = "idle" \/ callback'[h].at = "release"
        \/ callback[h].at = "exchange"
    BY <1>0, <1>6 DEF Connect!Exchange, Connect!CompleteRefused, Connect!CallbackLost, Connect!Idle, Callback
  <2>3. callback'[h].at = "idle" \/ (callback'[h].a = callback[h].a /\ callback'[h].over = callback[h].over
                                     /\ callback[h].at # "idle")
    BY <1>0, <1>6 DEF Connect!Exchange, Connect!CompleteRefused, Connect!CallbackLost, Connect!Idle, Callback
  <2>4. Leased(h)
    BY DEF LeaseInv
  <2>5. Leased(h)'
    BY <2>1, <2>2, <2>3, <2>4 DEF Leased, Connect!HoldsAttempt
  <2>6. QED
    <3>1. \A b \in Attempts \ {None} : attempt'[b] = attempt[b]
      BY <2>1
    <3>2. None \notin Attempts
      BY HouseholdAssumption
    <3>3. QED
      BY <2>1, <2>5, <3>1, <3>2, LeaseMoves
<1>7. ASSUME NEW h \in Callbacks, Connect!CompleteAttempt(h)
      PROVE LeaseInv'
  <2> DEFINE a == callback[h].a
  <2>1. a \in Attempts /\ attempt[a].by = h
    BY <1>0, <1>7 DEF Connect!CompleteAttempt, Connect!HoldsAttempt, CallbacksOK
  <2>2. callback'[h].at = "idle" /\ attempt'[a].st = "gone"
    BY <1>0, <1>7, <2>1 DEF Connect!CompleteAttempt, Connect!Idle, Connect!Gone
  <2>3. Leased(h)'
    BY <2>2 DEF Leased
  <2>4. /\ removed' = removed /\ \A g \in Callbacks \ {h} : callback'[g] = callback[g]
        /\ \A b \in Attempts \ {a} : attempt'[b] = attempt[b]
    BY <1>0, <1>7 DEF Connect!CompleteAttempt
  <2> HIDE DEF a
  <2>5. QED
    BY <2>1, <2>2, <2>3, <2>4, LeaseMoves
<1>8. ASSUME NEW h \in Callbacks, Connect!ReleaseAttempt(h)
      PROVE LeaseInv'
  <2> DEFINE a == callback[h].a
  <2>1. a \in Attempts /\ callback'[h].at = "idle" /\ removed' = removed
        /\ \A g \in Callbacks \ {h} : callback'[g] = callback[g]
    BY <1>0, <1>8 DEF Connect!ReleaseAttempt, CallbacksOK, Connect!Idle
  <2>2. Leased(h)'
    BY <2>1 DEF Leased
  <2>3. CASE Connect!HoldsAttempt(h)
    <3>1. attempt[a].by = h /\ attempt'[a].st = "open" /\ \A b \in Attempts \ {a} : attempt'[b] = attempt[b]
      BY <1>0, <1>8, <2>1, <2>3 DEF Connect!ReleaseAttempt, Connect!HoldsAttempt, Attempt
    <3> HIDE DEF a
    <3>2. QED
      BY <2>1, <2>2, <3>1, LeaseMoves
  <2>4. CASE ~Connect!HoldsAttempt(h)
    <3>1. attempt' = attempt
      BY <1>8, <2>4 DEF Connect!ReleaseAttempt
    <3>2. None \notin Attempts /\ \A b \in Attempts \ {None} : attempt'[b] = attempt[b]
      BY <3>1, HouseholdAssumption
    <3>3. QED
      BY <2>1, <2>2, <3>2, LeaseMoves
  <2>5. QED
    BY <2>3, <2>4
<1>9. ASSUME UNCHANGED <<attempt, callback, removed>>
      PROVE LeaseInv'
  BY <1>0, <1>9, LeaseUnchanged
<1>10. QED
  BY <1>1, <1>2, <1>3, <1>4, <1>5, <1>6, <1>7, <1>8, <1>9
     DEF Connect!Step, Connect!AdminSet, Connect!AdminClear, Connect!AdminEraseFails

-----------------------------------------------------------------------------
(* All of it                                                               *)

(* At the start nothing is approved, given, claimed or connected.          *)
LEMMA InvInit == Init => HouseholdInv
<1> SUFFICES ASSUME Init PROVE HouseholdInv
  OBVIOUS
<1>1. AccessTypes /\ ConnectTypes
  BY AccessTypesInit, ConnectTypesInit
<1>2. Sourced
  <2>1. minted = 0
    BY DEF Init, Access!Init
  <2>2. \A x : Access!From(x) = {}
    BY <2>1 DEF Access!From
  <2>3. QED
    BY <2>2 DEF Sourced
<1>3. TokensAreGranted
  BY DEF Init, Access!Init, TokensAreGranted, Access!TokensAreGranted
<1>4. EndedIsGone /\ DisconnectIsFinal
  <2>1. completed = {} /\ removed = {} /\ made = 0 /\ Listener \in profiles
    BY HouseholdAssumption DEF Init, Access!Init
  <2>2. Cardinality(completed) = 0
    BY <2>1, FS_EmptySet
  <2>3. QED
    BY <2>1, <2>2, SameCount DEF EndedIsGone, DisconnectIsFinal, Connect!DisconnectIsFinal
<1>5. LeaseInv
  <2>1. \A h \in Callbacks : callback[h].at = "idle"
    BY DEF Init, Connect!Idle
  <2>2. QED
    BY <2>1 DEF LeaseInv, Leased
<1>6. QED
  BY <1>1, <1>2, <1>3, <1>4, <1>5 DEF HouseholdInv, FinalInv

(* Steps that change neither part change nothing of the connection.        *)
LEMMA ConnectUnchanged ==
  ASSUME FinalInv, LeaseInv, UNCHANGED <<profiles, connectVars>>
  PROVE  FinalInv' /\ LeaseInv'
<1>1. UNCHANGED <<configured, erasing, conn, made, attempt, callback, completed, removed>>
  BY DEF connectVars
<1>2. ConnectTypes' /\ CallbacksOK
  BY <1>1 DEF FinalInv, ConnectTypes, CallbacksOK, Connect!TypeOK
<1>3. EndedIsGone' /\ DisconnectIsFinal'
  BY <1>1, FinalKept
<1>4. LeaseInv'
  BY <1>1, <1>2, LeaseUnchanged
<1>5. QED
  BY <1>2, <1>3, <1>4 DEF FinalInv

(* Nor do steps of the connection, or none, change anything of devices.    *)
LEMMA AccessUnchanged ==
  ASSUME AccessTypes, Sourced, TokensAreGranted, UNCHANGED <<profiles, accessVars>>
  PROVE  AccessTypes' /\ Sourced' /\ TokensAreGranted'
<1>1. UNCHANGED <<pairing, code, devices, minted, source, tokens, poll, login, verified>>
  BY DEF accessVars
<1>2. AccessTypes'
  BY AccessTypesUnchanged
<1>3. Sourced'
  BY <1>1, SourcedKept
<1>4. TokensAreGranted'
  BY <1>1 DEF TokensAreGranted, Access!TokensAreGranted
<1>5. QED
  BY <1>2, <1>3, <1>4

(* The connection where a profile that has none is deleted.                *)
LEMMA OtherProfileDeleted ==
  ASSUME FinalInv, LeaseInv, NEW p, p # Listener, profiles' = profiles \ {p}, UNCHANGED connectVars
  PROVE  FinalInv' /\ LeaseInv'
<1>1. UNCHANGED <<configured, erasing, conn, made, attempt, callback, completed, removed>>
  BY DEF connectVars
<1>2. ConnectTypes' /\ CallbacksOK
  BY <1>1 DEF FinalInv, ConnectTypes, CallbacksOK, Connect!TypeOK
<1>3. EndedIsGone' /\ DisconnectIsFinal'
  <2>1. (Listener \in profiles' <=> Listener \in profiles) /\ Connect!Pending' = Connect!Pending
    BY <1>1 DEF Connect!Pending
  <2>2. EndedIsGone'
    BY <1>1 DEF FinalInv, EndedIsGone
  <2>3. QED
    BY <1>1, <2>1, <2>2, SameCount DEF FinalInv, DisconnectIsFinal, Connect!DisconnectIsFinal
<1>4. LeaseInv'
  BY <1>1, <1>2, LeaseUnchanged
<1>5. QED
  BY <1>2, <1>3, <1>4 DEF FinalInv

(* The connection where the profile that has it is deleted.                *)
LEMMA ListenerDeleted ==
  ASSUME FinalInv, LeaseInv, Connect!DeleteListener
  PROVE  FinalInv' /\ LeaseInv'
<1>1. Connect!Erase /\ UNCHANGED <<configured, erasing, callback>>
  BY DEF Connect!DeleteListener
<1>2. ConnectTypes /\ CallbacksOK /\ attempt \in [Attempts -> Attempt]
  BY DEF FinalInv, ConnectTypes, Connect!TypeOK, Attempt
<1>3. /\ conn' = 0 /\ made' = made /\ completed' = completed /\ removed' = removed \cup Connect!Pending
      /\ attempt' = [a \in Attempts |-> IF a \in Connect!Pending THEN Connect!Gone ELSE attempt[a]]
  BY <1>1 DEF Connect!Erase
<1>4. attempt' \in [Attempts -> Attempt]
  BY <1>2, <1>3, AttemptFields
<1>5. removed' \subseteq Attempts /\ conn' \in 0..made'
  BY <1>2, <1>3 DEF ConnectTypes, Connect!TypeOK, Connect!Pending
<1>6. ConnectTypes'
  BY <1>1, <1>2, <1>3, <1>4, <1>5 DEF ConnectTypes, CallbacksOK, Connect!TypeOK, Attempt
<1>7. EndedIsGone' /\ DisconnectIsFinal'
  BY <1>1, EraseFinal, SameCount DEF DisconnectIsFinal, Connect!DisconnectIsFinal
<1>8. LeaseInv'
  BY <1>1, <1>2, EraseLeases
<1>9. QED
  BY <1>6, <1>7, <1>8 DEF FinalInv

(* Every step of the household keeps the invariant.                        *)
LEMMA InvStep == ASSUME HouseholdInv, [Next]_vars PROVE HouseholdInv'
<1>0. AccessTypes /\ Sourced /\ TokensAreGranted /\ FinalInv /\ LeaseInv /\ ConnectTypes
  BY DEF HouseholdInv, FinalInv
<1>1. CASE Access!Step /\ UNCHANGED connectVars
  <2>1. profiles' = profiles
    BY <1>1 DEF Access!Step, Access!StartPairing, Access!PairingExpires, Access!SetPairingStatus,
         Access!GetPairing, Access!DeliverPairingToken, Access!NothingToDeliver, Access!CreatePairCode,
         Access!CodeExpires, Access!ClaimPairCode, Access!DeleteDevice, Access!Login, Access!VerifyPin,
         Access!CreateProfileToken, Access!LoginFails
  <2>2. QED
    BY <1>0, <1>1, <2>1, AccessTypesStep, SourcedStep, GrantedStep, ConnectUnchanged DEF HouseholdInv
<1>2. CASE Connect!Step /\ UNCHANGED accessVars
  <2>1. profiles' = profiles
    BY <1>2 DEF Connect!Step, Connect!AdminSet, Connect!AdminClear, Connect!AdminErase,
         Connect!AdminEraseFails, Connect!Disconnect, Connect!Connect, Connect!AttemptLate,
         Connect!AttemptExpires, Connect!ClaimAttempt, Connect!Exchange, Connect!CompleteAttempt,
         Connect!CompleteRefused, Connect!ReleaseAttempt, Connect!CallbackLost
  <2>2. ConnectTypes' /\ EndedIsGone' /\ DisconnectIsFinal' /\ LeaseInv'
    BY <1>0, <1>2, ConnectTypesStep, FinalStep, LeaseStep
  <2>3. QED
    BY <1>0, <1>2, <2>1, <2>2, AccessUnchanged DEF HouseholdInv, FinalInv
<1>3. ASSUME NEW p \in profiles, DeleteProfile(p)
      PROVE HouseholdInv'
  <2>1. Access!DeleteProfile(p) /\ profiles' = profiles \ {p}
    BY <1>3 DEF DeleteProfile, Access!DeleteProfile
  <2>2. AccessTypes'
    BY <1>0, <2>1, AccessTypesDelete
  <2>3. Sourced'
    BY <1>0, <2>1, SourcedKept DEF Access!DeleteProfile
  <2>4. TokensAreGranted'
    BY <1>0, <2>1 DEF Access!DeleteProfile, TokensAreGranted, Access!TokensAreGranted
  <2>5. FinalInv' /\ LeaseInv'
    BY <1>0, <1>3, <2>1, OtherProfileDeleted, ListenerDeleted DEF DeleteProfile
  <2>6. QED
    BY <2>2, <2>3, <2>4, <2>5 DEF HouseholdInv
<1>4. CASE UNCHANGED vars
  BY <1>0, <1>4, AccessUnchanged, ConnectUnchanged DEF vars, HouseholdInv
<1>5. QED
  BY <1>1, <1>2, <1>3, <1>4 DEF Next

(* The invariant holds.                                                    *)
THEOREM Invariance == Spec => []HouseholdInv
<1>1. Init => HouseholdInv
  BY InvInit
<1>2. HouseholdInv /\ [Next]_vars => HouseholdInv'
  BY InvStep
<1>3. QED
  BY <1>1, <1>2, PTL DEF Spec

(* The variables of both parts keep their types.                           *)
THEOREM TypeCorrect == Spec => []TypeOK
<1>1. HouseholdInv => TypeOK
  BY DEF HouseholdInv, AccessTypes, FinalInv, ConnectTypes, TypeOK
<1>2. QED
  BY <1>1, Invariance, PTL

(* An approved pairing has one device at a time and a code one ever,       *)
(* however many polls and scans race.                                      *)
THEOREM DevicesAreUnique == Spec => []OneDeviceEach
<1>1. HouseholdInv => OneDeviceEach
  BY DEF HouseholdInv, Sourced, OneDeviceEach, Access!OneDeviceEach
<1>2. QED
  BY <1>1, Invariance, PTL

(* A profile token belongs to a device and a profile that both exist, and  *)
(* the PIN was given.                                                      *)
THEOREM TokensGranted == Spec => []TokensAreGranted
<1>1. HouseholdInv => TokensAreGranted
  BY DEF HouseholdInv
<1>2. QED
  BY <1>1, Invariance, PTL

(* A Last.fm attempt connects once, and not at all after a disconnection   *)
(* or the profile's deletion.                                              *)
THEOREM ConnectionsEnd == Spec => []DisconnectIsFinal
<1>1. HouseholdInv => DisconnectIsFinal
  BY DEF HouseholdInv, FinalInv
<1>2. QED
  BY <1>1, Invariance, PTL

(* Nobody but a deletion takes an attempt from the callback that claimed   *)
(* it less than a minute ago.                                              *)
THEOREM LeasesProtect == Spec => []LeaseProtects
<1>1. HouseholdInv => LeaseProtects
  BY DEF HouseholdInv, LeaseInv, Leased, LeaseProtects, Connect!LeaseProtects
<1>2. QED
  BY <1>1, Invariance, PTL

=============================================================================
