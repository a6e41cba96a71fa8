----------------------------- MODULE LastfmConnect -----------------------------
(***************************************************************************)
(* How a profile connects to Last.fm and parts from it.  ConnectMyLastfm   *)
(* opens an attempt, Last.fm sends the user's browser back with a token,   *)
(* and the callback claims the attempt, exchanges the token outside any    *)
(* transaction, and makes the connection.  The browser may come twice, the *)
(* exchange may outlast the claim's minute, and meanwhile the profile may  *)
(* be disconnected or deleted, or the administrator may remove everything. *)
(*                                                                         *)
(* The profile is one of the household's; a connection is numbered as it   *)
(* is made.  "late" is a claim older than a minute, "old" an attempt older *)
(* than fifteen.                                                           *)
(***************************************************************************)
EXTENDS Naturals, FiniteSets

CONSTANTS
  Listener,         (* the profile                                          *)
  Callbacks,        (* handlers of the browser callback                     *)
  Attempts,         (* states of authorization attempts                     *)
  None              (* no attempt, no handler                               *)

VARIABLES
  profiles,         (* the profiles that exist                              *)
  configured,       (* the instance has an API key and a secret             *)
  erasing,          (* AdminDeleteLastfm cleared them and has not deleted   *)
  conn,             (* lastfm_profiles: the connection, or 0                *)
  made,             (* history: connections made so far                     *)
  attempt,          (* lastfm_auth_attempts, per state                      *)
  callback,         (* per handler: where it is and its attempt             *)
  completed,        (* history: attempts that made a connection             *)
  removed           (* history: attempts deleted otherwise                  *)

ownVars == <<configured, erasing, conn, made, attempt, callback, completed, removed>>
vars == <<profiles, ownVars>>

Gone == [st |-> "gone", by |-> None, late |-> FALSE, old |-> FALSE]
Idle == [at |-> "idle", a |-> None, over |-> FALSE]

Pending == {a \in Attempts : attempt[a].st \in {"open", "claimed"}}
Expired == {a \in Pending : attempt[a].old}

(* DeleteLastfmData, DeleteAllLastfmData, and what DELETE FROM profiles    *)
(* cascades to: one transaction.                                           *)
Erase ==
  /\ conn' = 0
  /\ attempt' = [a \in Attempts |-> IF a \in Pending THEN Gone ELSE attempt[a]]
  /\ removed' = removed \cup Pending
  /\ UNCHANGED <<made, completed>>

-----------------------------------------------------------------------------
(* The administrator                                                       *)

AdminSet ==
  /\ ~configured /\ configured' = TRUE
  /\ UNCHANGED <<profiles, erasing, conn, made, attempt, callback, completed, removed>>

AdminClear ==                      \* the settings go first, each on its own
  /\ ~erasing /\ configured' = FALSE /\ erasing' = TRUE
  /\ UNCHANGED <<profiles, conn, made, attempt, callback, completed, removed>>

AdminErase ==
  /\ erasing /\ erasing' = FALSE
  /\ Erase
  /\ UNCHANGED <<profiles, configured, callback>>

AdminEraseFails ==                 \* the settings are gone, the data stays
  /\ erasing /\ erasing' = FALSE
  /\ UNCHANGED <<profiles, configured, conn, made, attempt, callback, completed, removed>>

DeleteListener ==
  /\ Listener \in profiles /\ profiles' = profiles \ {Listener}
  /\ Erase
  /\ UNCHANGED <<configured, erasing, callback>>

-----------------------------------------------------------------------------
(* The profile and its browser                                             *)

(* Expired attempts are deleted on the way.  The key was read before, so   *)
(* that the administrator may have cleared it by now.                      *)
Connect(a) ==
  /\ Listener \in profiles /\ attempt[a].st = "unused"
  /\ attempt' = [b \in Attempts |-> IF b \in Expired THEN Gone
                                    ELSE IF b = a THEN [Gone EXCEPT !.st = "open"] ELSE attempt[b]]
  /\ removed' = removed \cup Expired
  /\ UNCHANGED <<profiles, configured, erasing, conn, made, callback, completed>>

Disconnect ==
  /\ Listener \in profiles
  /\ Erase
  /\ UNCHANGED <<profiles, configured, erasing, callback>>

AttemptLate(a) ==                  \* a minute after it was claimed
  /\ attempt[a].st = "claimed" /\ ~attempt[a].late
  /\ attempt' = [attempt EXCEPT ![a].late = TRUE]
  /\ callback' = [h \in Callbacks |-> IF attempt[a].by = h /\ callback[h].a = a
                                      THEN [callback[h] EXCEPT !.over = TRUE] ELSE callback[h]]
  /\ UNCHANGED <<profiles, configured, erasing, conn, made, completed, removed>>

AttemptExpires(a) ==               \* fifteen minutes after it was made
  /\ a \in Pending /\ ~attempt[a].old
  /\ attempt' = [attempt EXCEPT ![a].old = TRUE]
  /\ UNCHANGED <<profiles, configured, erasing, conn, made, callback, completed, removed>>

ClaimAttempt(h, a) ==
  /\ callback[h].at = "idle" /\ ~attempt[a].old
  /\ attempt[a].st = "open" \/ (attempt[a].st = "claimed" /\ attempt[a].late)
  /\ attempt' = [attempt EXCEPT ![a] = [@ EXCEPT !.st = "claimed", !.by = h, !.late = FALSE]]
  /\ callback' = [callback EXCEPT ![h] = [at |-> "exchange", a |-> a, over |-> FALSE]]
  /\ UNCHANGED <<profiles, configured, erasing, conn, made, completed, removed>>

Exchange(h) ==                     \* a client if there are credentials, then Last.fm
  /\ callback[h].at = "exchange"
  /\ \E at \in {"complete", "release"} :
       /\ at = "release" \/ configured
       /\ callback' = [callback EXCEPT ![h].at = at]
  /\ UNCHANGED <<profiles, configured, erasing, conn, made, attempt, completed, removed>>

HoldsAttempt(h) ==
  /\ attempt[callback[h].a].st = "claimed"
  /\ attempt[callback[h].a].by = h

(* Mutant: the claim is not looked at again.                               *)
CompleteAttemptBlind(h) ==
  /\ callback[h].at = "complete"
  /\ attempt' = [attempt EXCEPT ![callback[h].a] = Gone]
  /\ conn' = made + 1 /\ made' = made + 1
  /\ completed' = completed \cup {callback[h].a}
  /\ callback' = [callback EXCEPT ![h] = Idle]
  /\ UNCHANGED <<profiles, configured, erasing, removed>>
CompleteAttempt(h) ==
  /\ callback[h].at = "complete" /\ HoldsAttempt(h)
  /\ attempt' = [attempt EXCEPT ![callback[h].a] = Gone]
  /\ conn' = made + 1 /\ made' = made + 1
  /\ completed' = completed \cup {callback[h].a}
  /\ callback' = [callback EXCEPT ![h] = Idle]
  /\ UNCHANGED <<profiles, configured, erasing, removed>>

(* ErrGone: it was taken over, deleted or swept.  Or a statement fails,    *)
(* and its transaction leaves nothing.                                     *)
CompleteRefused(h) ==
  /\ callback[h].at = "complete"
  /\ callback' = [callback EXCEPT ![h].at = "release"]
  /\ UNCHANGED <<profiles, configured, erasing, conn, made, attempt, completed, removed>>

(* Mutant: whoever holds it.                                               *)
ReleaseAttemptBlind(h) ==
  /\ callback[h].at = "release"
  /\ attempt' = IF attempt[callback[h].a].st = "claimed"
                THEN [attempt EXCEPT ![callback[h].a] = [@ EXCEPT !.st = "open", !.by = None, !.late = FALSE]]
                ELSE attempt
  /\ callback' = [callback EXCEPT ![h] = Idle]
  /\ UNCHANGED <<profiles, configured, erasing, conn, made, completed, removed>>
ReleaseAttempt(h) ==
  /\ callback[h].at = "release"
  /\ attempt' = IF HoldsAttempt(h)
                THEN [attempt EXCEPT ![callback[h].a] = [@ EXCEPT !.st = "open", !.by = None, !.late = FALSE]]
                ELSE attempt
  /\ callback' = [callback EXCEPT ![h] = Idle]
  /\ UNCHANGED <<profiles, configured, erasing, conn, made, completed, removed>>

(* The handler ends without releasing: the statement fails, or it crashes. *)
CallbackLost(h) ==
  /\ callback[h].at # "idle"
  /\ callback' = [callback EXCEPT ![h] = Idle]
  /\ UNCHANGED <<profiles, configured, erasing, conn, made, attempt, completed, removed>>

-----------------------------------------------------------------------------
Init ==
  /\ profiles = {Listener}
  /\ configured = TRUE /\ erasing = FALSE
  /\ conn = 0 /\ made = 0
  /\ attempt = [a \in Attempts |-> [Gone EXCEPT !.st = "unused"]]
  /\ callback = [h \in Callbacks |-> Idle]
  /\ completed = {} /\ removed = {}

Step ==                            \* whatever leaves the profiles alone
  \/ AdminSet \/ AdminClear \/ AdminErase \/ AdminEraseFails \/ Disconnect
  \/ \E a \in Attempts : Connect(a) \/ AttemptLate(a) \/ AttemptExpires(a)
  \/ \E h \in Callbacks :
       \/ \E a \in Attempts : ClaimAttempt(h, a)
       \/ Exchange(h) \/ CompleteAttempt(h) \/ CompleteRefused(h) \/ ReleaseAttempt(h)
       \/ CallbackLost(h)

Next == Step \/ DeleteListener

Spec == Init /\ [][Next]_vars

-----------------------------------------------------------------------------
(* Properties                                                              *)

(* The variables keep their types.                                         *)
TypeOK ==
  /\ configured \in BOOLEAN /\ erasing \in BOOLEAN
  /\ made \in Nat /\ conn \in 0..made
  /\ attempt \in [Attempts -> [st : {"unused", "open", "claimed", "gone"}, by : Callbacks \cup {None},
                               late : BOOLEAN, old : BOOLEAN]]
  /\ callback \in [Callbacks -> [at : {"idle", "exchange", "complete", "release"},
                                 a : Attempts \cup {None}, over : BOOLEAN]]
  /\ completed \subseteq Attempts /\ removed \subseteq Attempts

(* "Single-use callback bound to the initiating profile" (openapi,         *)
(* completeLastfmAuth): an attempt makes one connection, however many      *)
(* callbacks hold it over time, and none once it was deleted by a          *)
(* disconnection, the administrator or the profile's deletion; a profile   *)
(* that is gone has no connection.                                         *)
DisconnectIsFinal ==
  /\ completed \cap removed = {}
  /\ made = Cardinality(completed)
  /\ Listener \notin profiles => conn = 0 /\ Pending = {}

(* ClaimLastfmAttempt and ReleaseLastfmAttempt: until its minute is over   *)
(* nobody but a deletion takes an attempt from the callback that claimed   *)
(* it, neither a second callback nor the release by one whose claim was    *)
(* taken over.                                                             *)
LeaseProtects ==
  \A h \in Callbacks :
    callback[h].at \in {"exchange", "complete"} /\ ~callback[h].over =>
      HoldsAttempt(h) \/ callback[h].a \in removed

=============================================================================
