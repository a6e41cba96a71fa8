--------------------------------- MODULE Party ---------------------------------
(***************************************************************************)
(* A listening party: held in memory, changed under the manager's mutex,   *)
(* and told to its members afterwards, without it.  A handler that changed *)
(* the party looks it up again, copies the timeline, and walks through the *)
(* member map publishing to each, while other handlers go on: they join,   *)
(* kick, move the timeline, or do not get to the copy before it is made.   *)
(*                                                                         *)
(* Copying and walking race with writers.  The copy may fall into a change *)
(* of the timeline.  The walk visits whoever is in the map all the while,  *)
(* perhaps those who come, and not those who go; or the runtime sees it    *)
(* and ends the process.  Publishing is one append to the event log;       *)
(* EventBus says what becomes of it.                                       *)
(*                                                                         *)
(* A position at a time (PositionMs, AsOf) is kept as the time it was set: *)
(* clients extrapolate, so bringing it to the present changes nothing they *)
(* see.  A request with no known action does no more than that.            *)
(***************************************************************************)
EXTENDS Naturals, FiniteSets

CONSTANTS
  Profiles,         (* of the household                                     *)
  Host,             (* the one who created the party                        *)
  Handlers,         (* requests at a time                                   *)
  MaxOps,           (* bound: requests that change the party                *)
  MaxFaults         (* bound: failing look-ups and publications, crashes    *)

ASSUME PartyAssumption == Host \in Profiles /\ MaxOps \in Nat /\ MaxFaults \in Nat

VARIABLES
  live,             (* it is in Manager.parties                             *)
  members, invited, (* its maps of profiles                                 *)
  queue, current,   (* items queued; the last one started, or 0             *)
  timeline,         (* State: track (an item, or 0), paused, asOf           *)
  handler,          (* per request: position and local variables            *)
  ops, faults,      (* the counters behind the bounds; ops is also the time *)
  readings,         (* history: copies of the timeline made so far          *)
  told,             (* history: per profile, what it heard last, which copy *)
                    (* that was, and the newest copy published to it        *)
  asked, unasked    (* history: invited and told so; and it failed          *)

partyVars == <<live, members, invited, queue, current, timeline>>
toldVars  == <<readings, told>>
askedVars == <<asked, unasked>>
vars == <<partyVars, handler, ops, faults, toldVars, askedVars>>

Opening == [track |-> 0, paused |-> TRUE, asOf |-> 0]
Idle    == [at |-> "idle", todo |-> {}, late |-> {}, copy |-> Opening, reading |-> 0]

Locked  == \E h \in Handlers : handler[h].at = "acting"
Walking == {h \in Handlers : handler[h].at = "tell"}

Op ==
  /\ ops < MaxOps
  /\ ops' = ops + 1
Fault ==
  /\ faults < MaxFaults
  /\ faults' = faults + 1

-----------------------------------------------------------------------------
(* Changes, under the mutex                                                *)

Enter(h) == handler[h].at = "idle" /\ ~Locked /\ live /\ Op

(* Whoever is put into the member map may turn up in a walk, whoever is    *)
(* taken out of it does not.                                               *)
Changed(h, new, gone) ==
  handler' = [g \in Handlers |->
    IF g = h THEN [Idle EXCEPT !.at = "lookup"]
    ELSE IF g \in Walking
         THEN [handler[g] EXCEPT !.todo = @ \ gone, !.late = (@ \cup new) \ gone]
         ELSE handler[g]]

Uninvite(those) ==
  /\ invited' = invited \ those
  /\ asked' = asked \ those /\ unasked' = unasked \ those

JoinQuietly(h, p) ==               \* mutant: who has joined is not told
  /\ Enter(h)
  /\ members' = members \cup {p}
  /\ IF p \in members THEN UNCHANGED <<invited, askedVars>> ELSE Uninvite({p})
  /\ UNCHANGED handler
  /\ UNCHANGED <<live, queue, current, timeline, faults, toldVars>>
Join(h, p) ==
  /\ Enter(h)
  /\ members' = members \cup {p}
  /\ IF p \in members THEN UNCHANGED <<invited, askedVars>> ELSE Uninvite({p})
  /\ Changed(h, {p} \ members, {})
  /\ UNCHANGED <<live, queue, current, timeline, faults, toldVars>>

Remove(h, p) ==                    \* removeMember
  /\ members' = members \ {p}
  /\ Uninvite({p})
  /\ Changed(h, {}, {p})
  /\ UNCHANGED <<live, queue, current, timeline, faults, toldVars>>

Leave(h, p)     == p \in members /\ p # Host /\ Enter(h) /\ Remove(h, p)
Kick(h, target) == Host \in members /\ Enter(h) /\ Remove(h, target)

End(h) ==                          \* by EndParty, or as the host leaves
  /\ Enter(h) /\ live' = FALSE
  /\ UNCHANGED <<members, invited, queue, current, timeline, handler, faults, toldVars, askedVars>>

AppendQueue(h, p) ==
  /\ p \in members /\ Enter(h)
  /\ queue' = queue + 1
  /\ Changed(h, {}, {})
  /\ UNCHANGED <<live, members, invited, current, timeline, faults, toldVars, askedVars>>

(* Transport: the position is brought to the present, then the action.     *)
Materialize(h) ==
  /\ Host \in members /\ Enter(h)
  /\ handler' = [handler EXCEPT ![h].at = "acting"]
  /\ UNCHANGED <<partyVars, faults, toldVars, askedVars>>

Playing(track) == [track |-> track, paused |-> FALSE, asOf |-> ops]
NextUnplayed == IF current < queue THEN current + 1 ELSE 0

Play ==
  IF timeline.track # 0 THEN timeline' = Playing(timeline.track) /\ UNCHANGED current
  ELSE IF NextUnplayed # 0 THEN timeline' = Playing(NextUnplayed) /\ current' = NextUnplayed
  ELSE UNCHANGED <<timeline, current>>
Pause == timeline' = [timeline EXCEPT !.paused = TRUE, !.asOf = ops] /\ UNCHANGED current
Seek  == timeline' = [timeline EXCEPT !.asOf = ops] /\ UNCHANGED current
Skip ==
  IF NextUnplayed # 0 THEN timeline' = Playing(NextUnplayed) /\ current' = NextUnplayed
  ELSE timeline' = [track |-> 0, paused |-> TRUE, asOf |-> ops] /\ UNCHANGED current

Act(h) ==
  /\ handler[h].at = "acting"
  /\ Play \/ Pause \/ Seek \/ Skip
  /\ Changed(h, {}, {})
  /\ UNCHANGED <<live, members, invited, queue, ops, faults, toldVars, askedVars>>

ActUnknown(h) ==                   \* an error, and nothing is published
  /\ handler[h].at = "acting"
  /\ handler' = [handler EXCEPT ![h] = Idle]
  /\ UNCHANGED <<partyVars, ops, faults, toldVars, askedVars>>

-----------------------------------------------------------------------------
(* publishUpdated, without the mutex                                       *)

LookUp(h) ==
  /\ handler[h].at = "lookup" /\ ~Locked
  /\ handler' = [handler EXCEPT ![h] = IF live THEN [@ EXCEPT !.at = "copy"] ELSE Idle]
  /\ UNCHANGED <<partyVars, ops, faults, toldVars, askedVars>>

Copy(h) ==
  /\ handler[h].at = "copy"
  /\ readings' = readings + 1
  /\ handler' = [handler EXCEPT ![h] = [at |-> "tell", todo |-> members, late |-> {},
                                        copy |-> timeline, reading |-> readings + 1]]
  /\ UNCHANGED <<partyVars, ops, faults, told, askedVars>>

Visited(h, p) == [handler EXCEPT ![h].todo = @ \ {p}, ![h].late = @ \ {p}]

Newest(h, p) == IF handler[h].reading > told[p].newest THEN handler[h].reading ELSE told[p].newest

Tell(h, p) ==
  /\ handler[h].at = "tell" /\ p \in handler[h].todo \cup handler[h].late
  /\ told' = [told EXCEPT ![p] = [heard |-> handler[h].copy, reading |-> handler[h].reading,
                                  newest |-> Newest(h, p)]]
  /\ handler' = Visited(h, p)
  /\ UNCHANGED <<partyVars, ops, faults, readings, askedVars>>

TellFails(h, p) ==                 \* it is logged, and the walk goes on
  /\ handler[h].at = "tell" /\ p \in handler[h].todo \cup handler[h].late
  /\ Fault
  /\ told' = [told EXCEPT ![p].newest = Newest(h, p)]
  /\ handler' = Visited(h, p)
  /\ UNCHANGED <<partyVars, ops, readings, askedVars>>

Walked(h) ==
  /\ handler[h].at = "tell" /\ handler[h].todo = {}
  /\ handler' = [handler EXCEPT ![h] = Idle]
  /\ UNCHANGED <<partyVars, ops, faults, toldVars, askedVars>>

-----------------------------------------------------------------------------
(* Invite: the profiles one by one under the mutex, then the events        *)

InvitesAnyone(h, p, those) ==      \* mutant: members are put on the list too
  /\ p \in members /\ those # {} /\ Enter(h)
  /\ invited' = invited \cup those
  /\ handler' = [handler EXCEPT ![h] = [Idle EXCEPT !.at = "invite", !.todo = those \ members]]
  /\ UNCHANGED <<live, members, queue, current, timeline, faults, toldVars, askedVars>>
Invite(h, p, those) ==
  /\ p \in members /\ those # {} /\ Enter(h)
  /\ invited' = invited \cup (those \ members)
  /\ handler' = [handler EXCEPT ![h] = [Idle EXCEPT !.at = "invite", !.todo = those \ members]]
  /\ UNCHANGED <<live, members, queue, current, timeline, faults, toldVars, askedVars>>

(* One of the profiles is not found: those before it stay on the list.     *)
InviteFails(h, p, those) ==
  /\ p \in members /\ Enter(h) /\ Fault
  /\ invited' = invited \cup (those \ members)
  /\ unasked' = unasked \cup (those \ (members \cup asked))
  /\ UNCHANGED <<live, members, queue, current, timeline, handler, toldVars, asked>>

(* An invitation may have been accepted, or withdrawn, by now.             *)
Ask(h, p) ==
  /\ handler[h].at = "invite" /\ p \in handler[h].todo
  /\ \/ asked' = asked \cup ({p} \cap invited) /\ unasked' = unasked \ {p} /\ UNCHANGED faults
     \/ Fault /\ unasked' = unasked \cup (({p} \cap invited) \ asked) /\ UNCHANGED asked
  /\ handler' = [handler EXCEPT ![h].todo = @ \ {p}]
  /\ UNCHANGED <<partyVars, ops, toldVars>>

Asked(h) ==
  /\ handler[h].at = "invite" /\ handler[h].todo = {}
  /\ handler' = [handler EXCEPT ![h] = Idle]
  /\ UNCHANGED <<partyVars, ops, faults, toldVars, askedVars>>

-----------------------------------------------------------------------------
(* The process ends, also because the member map was written and walked    *)
(* through at the same moment.  Parties do not survive it.                 *)
Down ==
  /\ live /\ Fault
  /\ live' = FALSE
  /\ handler' = [h \in Handlers |-> Idle]
  /\ UNCHANGED <<members, invited, queue, current, timeline, ops, toldVars, askedVars>>

Init ==                            \* Create: the host has the answer
  /\ live = TRUE
  /\ members = {Host} /\ invited = {}
  /\ queue = 0 /\ current = 0 /\ timeline = Opening
  /\ handler = [h \in Handlers |-> Idle]
  /\ ops = 0 /\ faults = 0 /\ readings = 0
  /\ told = [p \in Profiles |-> [heard |-> Opening, reading |-> 0, newest |-> 0]]
  /\ asked = {} /\ unasked = {}

Next ==
  \/ \E h \in Handlers :
       \/ End(h) \/ Materialize(h) \/ Act(h) \/ ActUnknown(h)
       \/ LookUp(h) \/ Copy(h) \/ Walked(h) \/ Asked(h)
       \/ \E p \in Profiles :
            \/ Join(h, p) \/ Leave(h, p) \/ Kick(h, p) \/ AppendQueue(h, p)
            \/ Tell(h, p) \/ TellFails(h, p) \/ Ask(h, p)
            \/ \E those \in SUBSET Profiles : Invite(h, p, those) \/ InviteFails(h, p, those)
  \/ Down

Spec == Init /\ [][Next]_vars

-----------------------------------------------------------------------------
(* Properties                                                              *)

Places   == {"idle", "acting", "lookup", "copy", "tell", "invite"}
Timeline == [track : Nat, paused : BOOLEAN, asOf : Nat]
Requests == [at : Places, todo : SUBSET Profiles, late : SUBSET Profiles, copy : Timeline, reading : Nat]

(* The variables keep their types.                                         *)
TypeOK ==
  /\ live \in BOOLEAN
  /\ members \subseteq Profiles /\ invited \subseteq Profiles
  /\ queue \in Nat /\ current \in Nat /\ timeline \in Timeline
  /\ handler \in [Handlers -> Requests]
  /\ ops \in 0..MaxOps /\ faults \in 0..MaxFaults /\ readings \in Nat
  /\ told \in [Profiles -> [heard : Timeline, reading : Nat, newest : Nat]]
  /\ asked \subseteq Profiles /\ unasked \subseteq Profiles

WillHear(h, p) ==
  \/ handler[h].at \in {"lookup", "copy"}
  \/ handler[h].at = "tell" /\ p \in handler[h].todo /\ handler[h].copy = timeline

(* "Server-owned timeline broadcast over the event bus" (manager.go:3),    *)
(* with joins, kicks and other hands on the timeline in between: whoever   *)
(* is in the party heard last of the timeline as it is, or is about to.    *)
(* The exception: the publication with the newest copy failed, or one with *)
(* an older copy came after it.                                            *)
EveryoneTold ==
  live => \A p \in members :
    \/ told[p].heard = timeline
    \/ \E h \in Handlers : WillHear(h, p)
    \/ told[p].reading < told[p].newest

(* "Invite profiles (fires party.invited to each)" (openapi): whoever sees *)
(* the party among its invitations has been told, or is about to be, or    *)
(* the request failed on another profile or the publication did.           *)
InvitedAreTold ==
  live => \A p \in invited :
    p \in asked \cup unasked \/ \E h \in Handlers : handler[h].at = "invite" /\ p \in handler[h].todo

=============================================================================
