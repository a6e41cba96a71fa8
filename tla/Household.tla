------------------------------ MODULE Household ------------------------------
(***************************************************************************)
(* DeviceAccess and LastfmConnect in one process with one database: both   *)
(* hang on the profiles, and deleting a profile takes the tokens of the    *)
(* one and the attempts and connection of the other in one statement.      *)
(***************************************************************************)
EXTENDS Naturals, FiniteSets

CONSTANTS Profiles, Pairings, Codes, Polls, Logins, MaxDevices,
          Listener, Callbacks, Attempts, None

ASSUME HouseholdAssumption ==
  /\ Listener \in Profiles
  /\ MaxDevices \in Nat
  /\ Pairings \cap Codes = {} /\ IsFiniteSet(Attempts)
  /\ None \notin Profiles \cup Pairings \cup Codes \cup Attempts \cup Callbacks

VARIABLES
  profiles,
  pairing, code, devices, minted, source, tokens, poll, login, verified,
  configured, erasing, conn, made, attempt, callback, completed, removed

Access  == INSTANCE DeviceAccess
Connect == INSTANCE LastfmConnect

accessVars  == <<pairing, code, devices, minted, source, tokens, poll, login, verified>>
connectVars == <<configured, erasing, conn, made, attempt, callback, completed, removed>>
vars == <<profiles, accessVars, connectVars>>

Init ==
  /\ Access!Init
  /\ configured = TRUE /\ erasing = FALSE /\ conn = 0 /\ made = 0
  /\ attempt = [a \in Attempts |-> [Connect!Gone EXCEPT !.st = "unused"]]
  /\ callback = [h \in Callbacks |-> Connect!Idle]
  /\ completed = {} /\ removed = {}

DeleteProfile(p) ==
  /\ Access!DeleteProfile(p)
  /\ IF p = Listener THEN Connect!DeleteListener ELSE UNCHANGED connectVars

Next ==
  \/ Access!Step /\ UNCHANGED connectVars
  \/ Connect!Step /\ UNCHANGED accessVars
  \/ \E p \in profiles : DeleteProfile(p)

Spec == Init /\ [][Next]_vars

-----------------------------------------------------------------------------
(* Properties of the parts, which hold when they run together.             *)

(* The variables of both keep their types.                                 *)
TypeOK == Access!TypeOK /\ Connect!TypeOK

(* DeliverPairingToken, ClaimPairCode: see DeviceAccess.                   *)
OneDeviceEach == Access!OneDeviceEach

(* CreateProfileToken against both deletions: see DeviceAccess.            *)
TokensAreGranted == Access!TokensAreGranted

(* CompleteLastfmAttempt against disconnection and deletion: see           *)
(* LastfmConnect.                                                          *)
DisconnectIsFinal == Connect!DisconnectIsFinal

(* ClaimLastfmAttempt, ReleaseLastfmAttempt: see LastfmConnect.            *)
LeaseProtects == Connect!LeaseProtects

=============================================================================
