------------------------------ MODULE PartyProofs ------------------------------
(***************************************************************************)
(* That members are told of the timeline, and invited profiles of their    *)
(* invitation, for any number of profiles, requests, changes and failures. *)
(***************************************************************************)
EXTENDS Party, TLAPS

(* One handler at a time is within an action of Transport, which will give *)
(* the timeline a time that it has not had.                                *)
Acting ==
  /\ \A g, h \in Handlers : handler[g].at = "acting" /\ handler[h].at = "acting" => g = h
  /\ \A h \in Handlers : handler[h].at = "acting" => timeline.asOf < ops

(* So no timeline comes back: what was copied or heard is not of the       *)
(* future.                                                                 *)
Times ==
  /\ timeline.asOf <= ops
  /\ \A h \in Handlers : handler[h].copy.asOf <= timeline.asOf
  /\ \A p \in Profiles : told[p].heard.asOf <= timeline.asOf

(* Copies are numbered as they are made.                                   *)
Numbers ==
  /\ \A h \in Handlers : handler[h].reading <= readings
  /\ \A p \in Profiles : told[p].reading <= told[p].newest /\ told[p].newest <= readings

Tells(h) == handler[h].at = "tell"
Fresh(h) == Tells(h) /\ handler[h].copy = timeline
Stale(h) == Tells(h) /\ handler[h].copy # timeline

(* An older copy has a smaller number, in the hands of a handler ...       *)
Ordered == \A g, h \in Handlers : Stale(g) /\ Fresh(h) => handler[g].reading < handler[h].reading
(* ... and in the ears of a member.                                        *)
HeardOrdered ==
  \A p \in Profiles, h \in Handlers :
    /\ Stale(h) /\ told[p].heard = timeline => handler[h].reading < told[p].reading
    /\ Fresh(h) /\ handler[h].reading <= told[p].reading => told[p].heard = timeline

(* A member that missed the newest copy has been published a copy newer    *)
(* than any that is out of date and still on its way.                      *)
Missed(p) ==
  /\ told[p].reading < told[p].newest
  /\ \A h \in Handlers : Stale(h) => handler[h].reading < told[p].newest
Served(p) ==
  \/ told[p].heard = timeline
  \/ \E h \in Handlers : WillHear(h, p)
  \/ Missed(p)

Order == Acting /\ Times /\ Numbers /\ Ordered /\ HeardOrdered
AllServed == live => \A p \in members : Served(p)

(* The inductive invariant.                                                *)
PartyInv == TypeOK /\ Order /\ AllServed /\ InvitedAreTold

-----------------------------------------------------------------------------
(* Types                                                                   *)

LEMMA TypeInit == Init => TypeOK
BY PartyAssumption DEF Init, TypeOK, Idle, Opening, Requests, Timeline, Places

(* What is not said about any other request is so as before.               *)
Others(h) == \A g \in Handlers : g # h => handler'[g] = handler[g]

LEMMA IdleType == Idle \in Requests /\ [Idle EXCEPT !.at = "lookup"] \in Requests
BY DEF Idle, Opening, Requests, Timeline, Places

LEMMA Put ==
  ASSUME TypeOK, NEW h \in Handlers, NEW r \in Requests, handler' = [handler EXCEPT ![h] = r]
  PROVE  handler' \in [Handlers -> Requests] /\ handler'[h] = r /\ Others(h)
BY DEF TypeOK, Others

(* What Changed does to the request that changed, and to the others.       *)
LEMMA ChangedFacts ==
  ASSUME TypeOK, NEW h \in Handlers, NEW new \in SUBSET Profiles, NEW gone \in SUBSET Profiles,
         Changed(h, new, gone)
  PROVE  /\ handler' \in [Handlers -> Requests]
         /\ handler'[h] = [Idle EXCEPT !.at = "lookup"]
         /\ \A g \in Handlers : g # h =>
              /\ handler'[g].at = handler[g].at
              /\ handler'[g].copy = handler[g].copy /\ handler'[g].reading = handler[g].reading
              /\ handler[g].at = "invite" => handler'[g].todo = handler[g].todo
<1>1. handler' = [g \in Handlers |-> handler'[g]]
  BY DEF Changed
<1>2. handler'[h] = [Idle EXCEPT !.at = "lookup"]
  BY DEF Changed
<1>3. ASSUME NEW g \in Handlers, g # h
      PROVE  /\ handler'[g] \in Requests
             /\ handler'[g].at = handler[g].at
             /\ handler'[g].copy = handler[g].copy /\ handler'[g].reading = handler[g].reading
             /\ handler[g].at = "invite" => handler'[g].todo = handler[g].todo
  <2>1. handler[g] \in Requests
    BY DEF TypeOK
  <2>2. handler'[g] = IF g \in Walking
                      THEN [handler[g] EXCEPT !.todo = handler[g].todo \ gone,
                                              !.late = (handler[g].late \cup new) \ gone]
                      ELSE handler[g]
    BY <1>3 DEF Changed
  <2>3. CASE g \in Walking
    <3>1. handler[g].at = "tell"
      BY <2>3 DEF Walking
    <3>2. handler'[g] = [handler[g] EXCEPT !.todo = handler[g].todo \ gone,
                                           !.late = (handler[g].late \cup new) \ gone]
      BY <2>2, <2>3
    <3>3. /\ handler'[g].at = handler[g].at
          /\ handler'[g].copy = handler[g].copy /\ handler'[g].reading = handler[g].reading
      BY <2>1, <3>2 DEF Requests
    <3>4. [handler[g] EXCEPT !.todo = handler[g].todo \ gone,
                             !.late = (handler[g].late \cup new) \ gone] \in Requests
      BY <2>1 DEF Requests
    <3>5. QED BY <3>1, <3>2, <3>3, <3>4
  <2>4. QED BY <2>1, <2>2, <2>3
<1>4. \A g \in Handlers : handler'[g] \in Requests
  BY <1>2, <1>3, IdleType
<1>5. handler' \in [Handlers -> Requests]
  BY <1>1, <1>4
<1>6. QED BY <1>2, <1>3, <1>5

(* The steps of a single request, one by one.                              *)
LEMMA MaterializeFacts ==
  ASSUME TypeOK, NEW h \in Handlers, Materialize(h)
  PROVE  /\ handler' \in [Handlers -> Requests] /\ Others(h)
         /\ handler'[h] = [handler[h] EXCEPT !.at = "acting"]
<1>1. handler[h] \in Requests
  BY DEF TypeOK
<1>2. [handler[h] EXCEPT !.at = "acting"] \in Requests
  BY <1>1 DEF Requests, Places
<1>3. handler' = [handler EXCEPT ![h] = [handler[h] EXCEPT !.at = "acting"]]
  BY DEF Materialize
<1>4. QED BY <1>2, <1>3, Put

LEMMA RestFacts ==
  ASSUME TypeOK, NEW h \in Handlers, ActUnknown(h) \/ Walked(h) \/ Asked(h)
  PROVE  handler' \in [Handlers -> Requests] /\ Others(h) /\ handler'[h] = Idle
<1>1. handler' = [handler EXCEPT ![h] = Idle]
  BY DEF ActUnknown, Walked, Asked
<1>2. QED BY <1>1, Put, IdleType

LEMMA LookUpFacts ==
  ASSUME TypeOK, NEW h \in Handlers, LookUp(h)
  PROVE  /\ handler' \in [Handlers -> Requests] /\ Others(h)
         /\ handler'[h] = IF live THEN [handler[h] EXCEPT !.at = "copy"] ELSE Idle
<1>1. handler[h] \in Requests
  BY DEF TypeOK
<1>2. [handler[h] EXCEPT !.at = "copy"] \in Requests
  BY <1>1 DEF Requests, Places
<1>3. handler' = [handler EXCEPT ![h] = IF live THEN [handler[h] EXCEPT !.at = "copy"] ELSE Idle]
  BY DEF LookUp
<1>4. QED BY <1>2, <1>3, Put, IdleType

LEMMA CopyFacts ==
  ASSUME TypeOK, NEW h \in Handlers, Copy(h)
  PROVE  /\ handler' \in [Handlers -> Requests] /\ Others(h)
         /\ handler'[h] = [at |-> "tell", todo |-> members, late |-> {},
                           copy |-> timeline, reading |-> readings + 1]
<1>1. [at |-> "tell", todo |-> members, late |-> {}, copy |-> timeline, reading |-> readings + 1] \in Requests
  BY DEF Requests, Places, TypeOK
<1>2. QED BY <1>1, Put DEF Copy

LEMMA VisitedFacts ==
  ASSUME TypeOK, NEW h \in Handlers, NEW p \in Profiles, handler' = Visited(h, p)
  PROVE  /\ handler' \in [Handlers -> Requests] /\ Others(h)
         /\ handler'[h] = [handler[h] EXCEPT !.todo = handler[h].todo \ {p}, !.late = handler[h].late \ {p}]
<1>1. handler[h] \in Requests
  BY DEF TypeOK
<1>2. [handler[h] EXCEPT !.todo = handler[h].todo \ {p}, !.late = handler[h].late \ {p}] \in Requests
  BY <1>1 DEF Requests
<1>3. handler' = [handler EXCEPT ![h] = [handler[h] EXCEPT !.todo = handler[h].todo \ {p},
                                                           !.late = handler[h].late \ {p}]]
  BY <1>1 DEF Visited, TypeOK
<1>4. QED BY <1>2, <1>3, Put

LEMMA InviteFacts ==
  ASSUME TypeOK, NEW h \in Handlers, NEW p \in Profiles, NEW those \in SUBSET Profiles, Invite(h, p, those)
  PROVE  /\ handler' \in [Handlers -> Requests] /\ Others(h)
         /\ handler'[h] = [Idle EXCEPT !.at = "invite", !.todo = those \ members]
<1>1. [Idle EXCEPT !.at = "invite", !.todo = those \ members] \in Requests
  BY IdleType DEF Requests, Places
<1>2. handler' = [handler EXCEPT ![h] = [Idle EXCEPT !.at = "invite", !.todo = those \ members]]
  BY DEF Invite
<1>3. QED BY <1>1, <1>2, Put

LEMMA AskFacts ==
  ASSUME TypeOK, NEW h \in Handlers, NEW p \in Profiles, Ask(h, p)
  PROVE  /\ handler' \in [Handlers -> Requests] /\ Others(h)
         /\ handler'[h] = [handler[h] EXCEPT !.todo = handler[h].todo \ {p}]
<1>1. handler[h] \in Requests
  BY DEF TypeOK
<1>2. [handler[h] EXCEPT !.todo = handler[h].todo \ {p}] \in Requests
  BY <1>1 DEF Requests
<1>3. handler' = [handler EXCEPT ![h] = [handler[h] EXCEPT !.todo = handler[h].todo \ {p}]]
  BY <1>1 DEF Ask, TypeOK
<1>4. QED BY <1>2, <1>3, Put

LEMMA TypeStep == ASSUME TypeOK, Next PROVE TypeOK'
<1>1. ASSUME NEW h \in Handlers, NEW p \in Profiles, Join(h, p) PROVE TypeOK'
  <2>1. handler' \in [Handlers -> Requests]
    BY <1>1, ChangedFacts DEF Join
  <2>2. QED BY <1>1, <2>1, PartyAssumption DEF Join, Enter, Op, Uninvite, TypeOK, toldVars, askedVars
<1>2. ASSUME NEW h \in Handlers, NEW p \in Profiles, Enter(h), Remove(h, p) PROVE TypeOK'
  <2>1. handler' \in [Handlers -> Requests]
    BY <1>2, ChangedFacts DEF Remove
  <2>2. QED BY <1>2, <2>1, PartyAssumption DEF Remove, Enter, Op, Uninvite, TypeOK, toldVars, askedVars
<1>3. ASSUME NEW h \in Handlers, End(h) PROVE TypeOK'
  <2>1. live' \in BOOLEAN
    BY <1>3, Zenon DEF End
  <2>2. ops' \in 0..MaxOps
    BY <1>3, PartyAssumption DEF End, Enter, Op, TypeOK
  <2>3. QED BY <1>3, <2>1, <2>2, Zenon DEF End, TypeOK, toldVars, askedVars
<1>4. ASSUME NEW h \in Handlers, NEW p \in Profiles, AppendQueue(h, p) PROVE TypeOK'
  <2>1. handler' \in [Handlers -> Requests]
    BY <1>4, ChangedFacts DEF AppendQueue
  <2>2. QED BY <1>4, <2>1, PartyAssumption DEF AppendQueue, Enter, Op, TypeOK, toldVars, askedVars
<1>5. ASSUME NEW h \in Handlers, Materialize(h) PROVE TypeOK'
  <2>1. handler' \in [Handlers -> Requests]
    BY <1>5, MaterializeFacts
  <2>2. QED
    BY <1>5, <2>1, PartyAssumption DEF Materialize, Enter, Op, TypeOK, partyVars, toldVars, askedVars
<1>6. ASSUME NEW h \in Handlers, Act(h) PROVE TypeOK'
  <2>1. handler' \in [Handlers -> Requests]
    BY <1>6, ChangedFacts DEF Act
  <2>2. timeline \in Timeline /\ current \in Nat /\ queue \in Nat /\ ops \in Nat
    BY PartyAssumption DEF TypeOK
  <2>3. NextUnplayed \in Nat
    BY <2>2 DEF NextUnplayed
  <2>4. Play \/ Pause \/ Seek \/ Skip
    BY <1>6 DEF Act
  <2>5. timeline' \in Timeline /\ current' \in Nat
    <3>1. ASSUME NEW track \in Nat PROVE Playing(track) \in Timeline
      BY <2>2 DEF Playing, Timeline
    <3>2. CASE Play
      BY <2>2, <2>3, <3>1, <3>2 DEF Play, Timeline
    <3>3. CASE Pause \/ Seek
      <4>1. [timeline EXCEPT !.paused = TRUE, !.asOf = ops] \in Timeline
        BY <2>2 DEF Timeline
      <4>2. [timeline EXCEPT !.asOf = ops] \in Timeline
        BY <2>2 DEF Timeline
      <4>3. QED BY <2>2, <3>3, <4>1, <4>2 DEF Pause, Seek
    <3>4. CASE Skip
      <4>1. [track |-> 0, paused |-> TRUE, asOf |-> ops] \in Timeline
        BY <2>2 DEF Timeline
      <4>2. QED BY <2>2, <2>3, <3>1, <3>4, <4>1 DEF Skip
    <3>5. QED BY <2>4, <3>2, <3>3, <3>4
  <2>6. QED BY <1>6, <2>1, <2>5 DEF Act, TypeOK, toldVars, askedVars
<1>7. ASSUME NEW h \in Handlers, ActUnknown(h) \/ Walked(h) \/ Asked(h) PROVE TypeOK'
  <2>1. handler' \in [Handlers -> Requests]
    BY <1>7, RestFacts
  <2>2. QED BY <1>7, <2>1 DEF ActUnknown, Walked, Asked, TypeOK, partyVars, toldVars, askedVars
<1>8. ASSUME NEW h \in Handlers, LookUp(h) PROVE TypeOK'
  <2>1. handler' \in [Handlers -> Requests]
    BY <1>8, LookUpFacts
  <2>2. QED BY <1>8, <2>1 DEF LookUp, TypeOK, partyVars, toldVars, askedVars
<1>9. ASSUME NEW h \in Handlers, Copy(h) PROVE TypeOK'
  <2>1. handler' \in [Handlers -> Requests]
    BY <1>9, CopyFacts
  <2>2. QED BY <1>9, <2>1 DEF Copy, TypeOK, partyVars, askedVars
<1>10. ASSUME NEW h \in Handlers, NEW p \in Profiles, Tell(h, p) \/ TellFails(h, p) PROVE TypeOK'
  <2>1. handler' \in [Handlers -> Requests]
    BY <1>10, VisitedFacts DEF Tell, TellFails
  <2>2. told[p] \in [heard : Timeline, reading : Nat, newest : Nat] /\ handler[h] \in Requests
    BY DEF TypeOK
  <2>3. Newest(h, p) \in Nat
    BY <2>2 DEF Newest, Requests
  <2>4. told' \in [Profiles -> [heard : Timeline, reading : Nat, newest : Nat]]
    BY <1>10, <2>2, <2>3 DEF Tell, TellFails, Requests, TypeOK
  <2>5. faults' \in 0..MaxFaults
    BY <1>10, PartyAssumption DEF Tell, TellFails, Fault, TypeOK
  <2>6. QED BY <1>10, <2>1, <2>4, <2>5 DEF Tell, TellFails, TypeOK, partyVars, askedVars
<1>11. ASSUME NEW h \in Handlers, NEW p \in Profiles, Ask(h, p) PROVE TypeOK'
  <2>1. handler' \in [Handlers -> Requests]
    BY <1>11, AskFacts
  <2>2. QED BY <1>11, <2>1, PartyAssumption DEF Ask, Fault, TypeOK, partyVars, toldVars
<1>12. ASSUME NEW h \in Handlers, NEW p \in Profiles, NEW those \in SUBSET Profiles, Invite(h, p, those)
       PROVE  TypeOK'
  <2>1. handler' \in [Handlers -> Requests]
    BY <1>12, InviteFacts
  <2>2. QED BY <1>12, <2>1, PartyAssumption DEF Invite, Enter, Op, TypeOK, toldVars, askedVars
<1>13. ASSUME NEW h \in Handlers, NEW p \in Profiles, NEW those \in SUBSET Profiles, InviteFails(h, p, those)
       PROVE  TypeOK'
  BY <1>13, PartyAssumption DEF InviteFails, Enter, Op, Fault, TypeOK, toldVars
<1>14. ASSUME Down PROVE TypeOK'
  <2>1. handler' \in [Handlers -> Requests]
    BY <1>14, IdleType DEF Down
  <2>2. live' \in BOOLEAN
    BY <1>14, Zenon DEF Down
  <2>3. faults' \in 0..MaxFaults
    BY <1>14, PartyAssumption DEF Down, Fault, TypeOK
  <2>4. QED BY <1>14, <2>1, <2>2, <2>3, Zenon DEF Down, TypeOK, toldVars, askedVars
<1>15. QED
  BY <1>1, <1>2, <1>3, <1>4, <1>5, <1>6, <1>7, <1>8, <1>9, <1>10, <1>11, <1>12, <1>13, <1>14 DEF Next, Leave, Kick

(* Every variable keeps its type, whatever the party goes through.         *)
THEOREM TypeCorrect == Spec => []TypeOK
<1>1. TypeOK /\ [Next]_vars => TypeOK'
  <2>1. ASSUME TypeOK, UNCHANGED vars PROVE TypeOK'
    BY <2>1 DEF TypeOK, vars, partyVars, toldVars, askedVars
  <2>2. QED BY <2>1, TypeStep
<1>2. QED BY TypeInit, <1>1, PTL DEF Spec

-----------------------------------------------------------------------------
(* Order                                                                   *)

LEMMA Counts ==
  ASSUME TypeOK
  PROVE  /\ ops \in Nat /\ readings \in Nat /\ timeline \in Timeline /\ timeline.asOf \in Nat
         /\ \A h \in Handlers : /\ handler[h] \in Requests
                                /\ handler[h].reading \in Nat /\ handler[h].copy.asOf \in Nat
         /\ \A p \in Profiles : /\ told[p] \in [heard : Timeline, reading : Nat, newest : Nat]
                                /\ told[p].reading \in Nat /\ told[p].newest \in Nat
                                /\ told[p].heard.asOf \in Nat
<1>1. ops \in Nat /\ readings \in Nat /\ timeline \in Timeline /\ timeline.asOf \in Nat
  BY PartyAssumption DEF TypeOK, Timeline
<1>2. ASSUME NEW h \in Handlers
      PROVE  handler[h] \in Requests /\ handler[h].reading \in Nat /\ handler[h].copy.asOf \in Nat
  <2>1. handler[h] \in Requests
    BY DEF TypeOK
  <2>2. QED BY <2>1 DEF Requests, Timeline
<1>3. ASSUME NEW p \in Profiles
      PROVE  /\ told[p] \in [heard : Timeline, reading : Nat, newest : Nat]
             /\ told[p].reading \in Nat /\ told[p].newest \in Nat /\ told[p].heard.asOf \in Nat
  <2>1. told[p] \in [heard : Timeline, reading : Nat, newest : Nat]
    BY DEF TypeOK
  <2>2. QED BY <2>1 DEF Timeline
<1>4. QED BY <1>1, <1>2, <1>3

(* A request keeps its copy, or lays it down; it makes none.               *)
Calm(g) ==
  \/ /\ handler'[g].copy = handler[g].copy /\ handler'[g].reading = handler[g].reading
     /\ handler'[g].at = "tell" => handler[g].at = "tell"
  \/ handler'[g].copy = Opening /\ handler'[g].reading = 0 /\ handler'[g].at # "tell"

(* No request begins an action of Transport.                               *)
NoneBegins == \A g \in Handlers : handler'[g].at = "acting" => handler[g].at = "acting"

(* A step in which nobody is told anything and the timeline stays.         *)
Silent ==
  /\ timeline' = timeline /\ told' = told /\ readings' = readings
  /\ ops <= ops'
  /\ \A g \in Handlers : Calm(g)

LEMMA SilentOrder ==
  ASSUME TypeOK, TypeOK', Order, Silent
  PROVE  Times' /\ Numbers' /\ Ordered' /\ HeardOrdered'
<1> USE Counts
<1>1. Times'
  <2>1. ops' \in Nat
    BY PartyAssumption DEF TypeOK
  <2>2. timeline'.asOf <= ops'
    BY <2>1 DEF Order, Times, Silent
  <2>3. ASSUME NEW h \in Handlers PROVE handler'[h].copy.asOf <= timeline'.asOf
    BY DEF Order, Times, Silent, Calm, Opening
  <2>4. QED BY <2>2, <2>3 DEF Order, Times, Silent
<1>2. Numbers'
  BY DEF Order, Numbers, Silent, Calm
<1>3. ASSUME NEW h \in Handlers, Stale(h)' PROVE Stale(h) /\ handler'[h].reading = handler[h].reading
  BY <1>3 DEF Stale, Tells, Silent, Calm
<1>4. ASSUME NEW h \in Handlers, Fresh(h)' PROVE Fresh(h) /\ handler'[h].reading = handler[h].reading
  BY <1>4 DEF Fresh, Tells, Silent, Calm
<1>5. Ordered'
  BY <1>3, <1>4 DEF Order, Ordered
<1>6. HeardOrdered'
  BY <1>3, <1>4 DEF Order, HeardOrdered, Silent
<1>7. QED BY <1>1, <1>2, <1>5, <1>6

LEMMA ActingStays ==
  ASSUME TypeOK, TypeOK', Order, NoneBegins, timeline' = timeline, ops <= ops'
  PROVE  Acting'
<1>1. ops' \in Nat
  BY PartyAssumption DEF TypeOK
<1>2. QED BY <1>1, Counts DEF Order, Acting, NoneBegins

(* A step that is silent, and begins no action.                            *)
LEMMA QuietOrder == ASSUME TypeOK, TypeOK', Order, Silent, NoneBegins PROVE Order'
<1>1. Acting'
  BY ActingStays DEF Silent
<1>2. QED BY <1>1, SilentOrder DEF Order

(* The party changes, other than by an action of Transport.                *)
LEMMA ChangedQuiet ==
  ASSUME TypeOK, NEW h \in Handlers, NEW new \in SUBSET Profiles, NEW gone \in SUBSET Profiles,
         Changed(h, new, gone)
  PROVE  NoneBegins /\ \A g \in Handlers : Calm(g)
<1>1. handler'[h].at = "lookup" /\ handler'[h].copy = Opening /\ handler'[h].reading = 0
  BY ChangedFacts DEF Idle
<1>2. ASSUME NEW g \in Handlers, g # h
      PROVE  /\ handler'[g].at = handler[g].at
             /\ handler'[g].copy = handler[g].copy /\ handler'[g].reading = handler[g].reading
  BY <1>2, ChangedFacts
<1>3. QED BY <1>1, <1>2 DEF NoneBegins, Calm

LEMMA IdleCalm ==
  ASSUME NEW h \in Handlers, Others(h), handler'[h] = Idle
  PROVE  NoneBegins /\ \A g \in Handlers : Calm(g)
BY DEF NoneBegins, Calm, Others, Idle

LEMMA ActTime ==
  ASSUME TypeOK, NEW h \in Handlers, Act(h)
  PROVE  timeline' = timeline \/ timeline'.asOf = ops
<1>1. \A track : Playing(track).asOf = ops
  BY DEF Playing
<1>2. CASE Play
  BY <1>1, <1>2 DEF Play
<1>3. CASE Pause \/ Seek
  <2>1. timeline \in Timeline
    BY DEF TypeOK
  <2>2. [timeline EXCEPT !.paused = TRUE, !.asOf = ops].asOf = ops /\ [timeline EXCEPT !.asOf = ops].asOf = ops
    BY <2>1 DEF Timeline
  <2>3. QED BY <1>3, <2>2 DEF Pause, Seek
<1>4. CASE Skip
  <2>1. [track |-> 0, paused |-> TRUE, asOf |-> ops].asOf = ops
    OBVIOUS
  <2>2. QED BY <1>1, <1>4, <2>1 DEF Skip
<1>5. QED BY <1>2, <1>3, <1>4 DEF Act

LEMMA ActOrder ==
  ASSUME TypeOK, TypeOK', Order, NEW h \in Handlers, Act(h)
  PROVE  Order'
<1> USE Counts
<1>1. told' = told /\ readings' = readings /\ ops' = ops /\ Changed(h, {}, {}) /\ handler[h].at = "acting"
  BY DEF Act, toldVars
<1>2. (\A g \in Handlers : Calm(g)) /\ NoneBegins
  BY <1>1, ChangedQuiet
<1>3. timeline' = timeline \/ timeline'.asOf = ops
  BY ActTime
<1>4. CASE timeline' = timeline
  BY <1>1, <1>2, <1>4, QuietOrder DEF Silent
<1>5. CASE timeline'.asOf = ops
  <2>1. timeline.asOf < ops
    BY <1>1 DEF Order, Acting
  <2>2. \A g \in Handlers : handler'[g].at # "acting"
    <3>1. handler'[h].at = "lookup"
      BY <1>1, ChangedFacts DEF Idle
    <3>2. QED BY <1>1, <1>2, <3>1 DEF Order, Acting, NoneBegins
  <2>3. \A g \in Handlers : handler'[g].copy.asOf \in Nat /\ handler'[g].copy.asOf < ops
    BY <1>2, <2>1 DEF Order, Times, Calm, Opening
  <2>4. \A p \in Profiles : told[p].heard.asOf < ops
    BY <2>1 DEF Order, Times
  <2>5. Times'
    BY <1>1, <1>5, <2>3, <2>4 DEF Times
  <2>6. Numbers'
    BY <1>1, <1>2 DEF Order, Numbers, Calm
  <2>7. \A g \in Handlers : ~Fresh(g)'
    BY <1>5, <2>3 DEF Fresh
  <2>8. \A p \in Profiles : told[p].heard # timeline'
    BY <1>5, <2>4
  <2>9. QED BY <1>1, <2>2, <2>5, <2>6, <2>7, <2>8 DEF Order, Acting, Ordered, HeardOrdered
<1>6. QED BY <1>3, <1>4, <1>5

LEMMA MaterializeOrder ==
  ASSUME TypeOK, TypeOK', Order, NEW h \in Handlers, Materialize(h)
  PROVE  Order'
<1>1. handler[h].at = "idle" /\ (\A g \in Handlers : handler[g].at # "acting") /\ ops' = ops + 1
  BY DEF Materialize, Enter, Locked, Op
<1>2. Others(h) /\ handler'[h] = [handler[h] EXCEPT !.at = "acting"] /\ handler[h] \in Requests
  BY MaterializeFacts, Counts
<1>3. /\ handler'[h].at = "acting"
      /\ handler'[h].copy = handler[h].copy /\ handler'[h].reading = handler[h].reading
  BY <1>2 DEF Requests
<1>4. Silent
  BY <1>1, <1>2, <1>3, Counts DEF Silent, Calm, Others, Materialize, partyVars, toldVars
<1>5. Acting'
  BY <1>1, <1>2, <1>4, Counts DEF Acting, Order, Times, Others, Silent
<1>6. QED BY <1>4, <1>5, SilentOrder DEF Order

LEMMA CopyOrder ==
  ASSUME TypeOK, TypeOK', Order, NEW h \in Handlers, Copy(h)
  PROVE  Order'
<1> USE Counts
<1>1. /\ timeline' = timeline /\ told' = told /\ ops' = ops /\ readings' = readings + 1
      /\ Others(h)
  BY CopyFacts DEF Copy, partyVars
<1>2. handler'[h].at = "tell" /\ handler'[h].copy = timeline /\ handler'[h].reading = readings + 1
  BY CopyFacts
<1>3. Acting'
  BY <1>1, <1>2, ActingStays DEF NoneBegins, Others
<1>4. Times' /\ Numbers'
  BY <1>1, <1>2 DEF Order, Times, Numbers, Others
<1>5. ASSUME NEW g \in Handlers, Stale(g)'
      PROVE  Stale(g) /\ g # h /\ handler'[g].reading = handler[g].reading
  BY <1>1, <1>2, <1>5 DEF Stale, Tells, Others
<1>6. ASSUME NEW g \in Handlers, Fresh(g)', g # h
      PROVE  Fresh(g) /\ handler'[g].reading = handler[g].reading
  BY <1>1, <1>6 DEF Fresh, Tells, Others
<1>7. Ordered'
  BY <1>2, <1>5, <1>6 DEF Order, Ordered, Numbers
<1>8. HeardOrdered'
  BY <1>1, <1>2, <1>5, <1>6 DEF Order, HeardOrdered, Numbers
<1>9. QED BY <1>3, <1>4, <1>7, <1>8 DEF Order

(* What Tell and TellFails share.                                          *)
LEMMA TellFacts ==
  ASSUME TypeOK, NEW h \in Handlers, NEW p \in Profiles, Tell(h, p) \/ TellFails(h, p)
  PROVE  /\ live' = live /\ members' = members /\ timeline' = timeline /\ ops' = ops /\ readings' = readings
         /\ Tells(h)
         /\ \A g \in Handlers : /\ handler'[g].at = handler[g].at
                                /\ handler'[g].copy = handler[g].copy
                                /\ handler'[g].reading = handler[g].reading
                                /\ \A q \in Profiles : g # h \/ q # p =>
                                     (q \in handler'[g].todo <=> q \in handler[g].todo)
                                /\ handler[g].at = "invite" => handler'[g].todo = handler[g].todo
         /\ \A q \in Profiles : q # p => told'[q] = told[q]
         /\ told'[p].newest = Newest(h, p)
         /\ Tell(h, p) => told'[p].heard = handler[h].copy /\ told'[p].reading = handler[h].reading
         /\ TellFails(h, p) => told'[p].heard = told[p].heard /\ told'[p].reading = told[p].reading
<1>1. live' = live /\ members' = members /\ timeline' = timeline /\ ops' = ops /\ readings' = readings /\ Tells(h)
  BY DEF Tell, TellFails, partyVars, Tells
<1>2. Others(h) /\ handler'[h] = [handler[h] EXCEPT !.todo = handler[h].todo \ {p}, !.late = handler[h].late \ {p}]
  BY VisitedFacts DEF Tell, TellFails
<1>3. handler[h] \in Requests
  BY Counts
<1>4. /\ handler'[h].at = handler[h].at /\ handler'[h].copy = handler[h].copy
      /\ handler'[h].reading = handler[h].reading /\ handler'[h].todo = handler[h].todo \ {p}
  BY <1>2, <1>3 DEF Requests
<1>5. \A g \in Handlers : /\ handler'[g].at = handler[g].at
                          /\ handler'[g].copy = handler[g].copy
                          /\ handler'[g].reading = handler[g].reading
                          /\ \A q \in Profiles : g # h \/ q # p =>
                               (q \in handler'[g].todo <=> q \in handler[g].todo)
                          /\ handler[g].at = "invite" => handler'[g].todo = handler[g].todo
  BY <1>1, <1>2, <1>4 DEF Others, Tells
<1>6. told \in [Profiles -> [heard : Timeline, reading : Nat, newest : Nat]]
  BY DEF TypeOK
<1>7. \A q \in Profiles : q # p => told'[q] = told[q]
  BY <1>6 DEF Tell, TellFails
<1>8. CASE Tell(h, p)
  <2>1. told'[p] = [heard |-> handler[h].copy, reading |-> handler[h].reading, newest |-> Newest(h, p)]
    BY <1>6, <1>8 DEF Tell
  <2>2. ~TellFails(h, p) \/ told'[p] = [told[p] EXCEPT !.newest = Newest(h, p)]
    BY <1>6 DEF TellFails
  <2>3. told[p] \in [heard : Timeline, reading : Nat, newest : Nat]
    BY <1>6
  <2>4. QED BY <1>1, <1>5, <1>7, <2>1, <2>2, <2>3
<1>9. CASE TellFails(h, p)
  <2>1. told'[p] = [told[p] EXCEPT !.newest = Newest(h, p)]
    BY <1>6, <1>9 DEF TellFails
  <2>2. ~Tell(h, p) \/ told'[p] = [heard |-> handler[h].copy, reading |-> handler[h].reading, newest |-> Newest(h, p)]
    BY <1>6 DEF Tell
  <2>3. told[p] \in [heard : Timeline, reading : Nat, newest : Nat]
    BY <1>6
  <2>4. QED BY <1>1, <1>5, <1>7, <2>1, <2>2, <2>3
<1>10. QED BY <1>8, <1>9

LEMMA TellOrder ==
  ASSUME TypeOK, TypeOK', Order, NEW h \in Handlers, NEW p \in Profiles, Tell(h, p) \/ TellFails(h, p)
  PROVE  Order'
<1> USE Counts, TellFacts
<1>1. Acting'
  BY ActingStays DEF NoneBegins
<1>2. Times'
  <2>1. told'[p].heard.asOf <= timeline'.asOf
    BY DEF Order, Times
  <2>2. QED BY <2>1 DEF Order, Times
<1>3. Numbers'
  <2>1. told'[p].reading <= told'[p].newest /\ told'[p].newest <= readings'
    BY DEF Order, Numbers, Newest
  <2>2. QED BY <2>1 DEF Order, Numbers
<1>4. \A g \in Handlers : (Fresh(g)' <=> Fresh(g)) /\ (Stale(g)' <=> Stale(g))
  BY DEF Fresh, Stale, Tells
<1>5. Ordered'
  BY <1>4 DEF Order, Ordered
<1>6. HeardOrdered'
  <2>1. ASSUME NEW q \in Profiles, q # p, NEW g \in Handlers
        PROVE  /\ Stale(g)' /\ told'[q].heard = timeline' => handler'[g].reading < told'[q].reading
               /\ Fresh(g)' /\ handler'[g].reading <= told'[q].reading => told'[q].heard = timeline'
    BY <1>4, <2>1 DEF Order, HeardOrdered
  <2>2. ASSUME NEW g \in Handlers
        PROVE  /\ Stale(g)' /\ told'[p].heard = timeline' => handler'[g].reading < told'[p].reading
               /\ Fresh(g)' /\ handler'[g].reading <= told'[p].reading => told'[p].heard = timeline'
    <3>1. CASE TellFails(h, p)
      BY <1>4, <3>1 DEF Order, HeardOrdered
    <3>2. CASE Tell(h, p)
      <4>1. Fresh(h) \/ Stale(h)
        BY DEF Fresh, Stale
      <4>2. QED BY <1>4, <3>2, <4>1 DEF Order, Ordered, Fresh, Stale
    <3>3. QED BY <3>1, <3>2
  <2>3. QED BY <2>1, <2>2 DEF HeardOrdered
<1>7. QED BY <1>1, <1>2, <1>3, <1>5, <1>6 DEF Order

LEMMA OrderStep ==
  ASSUME TypeOK, TypeOK', Order, Next
  PROVE  Order'
<1> USE Counts
<1>1. ASSUME NEW h \in Handlers, NEW p \in Profiles, Join(h, p) PROVE Order'
  <2>1. NoneBegins /\ \A g \in Handlers : Calm(g)
    BY <1>1, ChangedQuiet DEF Join
  <2>2. QED BY <1>1, <2>1, QuietOrder DEF Silent, Join, Enter, Op, toldVars
<1>2. ASSUME NEW h \in Handlers, NEW p \in Profiles, Enter(h), Remove(h, p) PROVE Order'
  <2>1. NoneBegins /\ \A g \in Handlers : Calm(g)
    BY <1>2, ChangedQuiet DEF Remove
  <2>2. QED BY <1>2, <2>1, QuietOrder DEF Silent, Remove, Enter, Op, toldVars
<1>3. ASSUME NEW h \in Handlers, NEW p \in Profiles, AppendQueue(h, p) PROVE Order'
  <2>1. NoneBegins /\ \A g \in Handlers : Calm(g)
    BY <1>3, ChangedQuiet DEF AppendQueue
  <2>2. QED BY <1>3, <2>1, QuietOrder DEF Silent, AppendQueue, Enter, Op, toldVars
<1>4. ASSUME NEW h \in Handlers, End(h) PROVE Order'
  BY <1>4, QuietOrder DEF Silent, NoneBegins, Calm, End, Enter, Op, toldVars
<1>5. ASSUME NEW h \in Handlers, ActUnknown(h) \/ Walked(h) \/ Asked(h) PROVE Order'
  <2>1. NoneBegins /\ \A g \in Handlers : Calm(g)
    BY <1>5, RestFacts, IdleCalm
  <2>2. QED BY <1>5, <2>1, QuietOrder DEF Silent, ActUnknown, Walked, Asked, partyVars, toldVars
<1>6. ASSUME NEW h \in Handlers, LookUp(h) PROVE Order'
  <2>1. Others(h) /\ handler'[h] = IF live THEN [handler[h] EXCEPT !.at = "copy"] ELSE Idle
    BY <1>6, LookUpFacts
  <2>2. NoneBegins /\ \A g \in Handlers : Calm(g)
    <3>1. CASE live
      <4>1. /\ handler'[h].at = "copy" /\ handler'[h].copy = handler[h].copy
            /\ handler'[h].reading = handler[h].reading
        BY <2>1, <3>1 DEF Requests
      <4>2. QED BY <2>1, <4>1 DEF NoneBegins, Calm, Others
    <3>2. CASE ~live
      BY <2>1, <3>2, IdleCalm
    <3>3. QED BY <3>1, <3>2
  <2>3. QED BY <1>6, <2>2, QuietOrder DEF Silent, LookUp, partyVars, toldVars
<1>7. ASSUME NEW h \in Handlers, NEW p \in Profiles, NEW those \in SUBSET Profiles, Invite(h, p, those)
      PROVE  Order'
  <2>1. Others(h) /\ handler'[h] = [Idle EXCEPT !.at = "invite", !.todo = those \ members]
    BY <1>7, InviteFacts
  <2>2. handler'[h].at = "invite" /\ handler'[h].copy = Opening /\ handler'[h].reading = 0
    BY <2>1 DEF Idle
  <2>3. NoneBegins /\ \A g \in Handlers : Calm(g)
    BY <2>1, <2>2 DEF NoneBegins, Calm, Others
  <2>4. QED BY <1>7, <2>3, QuietOrder DEF Silent, Invite, Enter, Op, toldVars
<1>8. ASSUME NEW h \in Handlers, NEW p \in Profiles, NEW those \in SUBSET Profiles, InviteFails(h, p, those)
      PROVE  Order'
  BY <1>8, QuietOrder DEF Silent, NoneBegins, Calm, InviteFails, Enter, Op, toldVars
<1>9. ASSUME NEW h \in Handlers, NEW p \in Profiles, Ask(h, p) PROVE Order'
  <2>1. Others(h) /\ handler'[h] = [handler[h] EXCEPT !.todo = handler[h].todo \ {p}]
    BY <1>9, AskFacts
  <2>2. handler'[h].at = handler[h].at /\ handler'[h].copy = handler[h].copy
        /\ handler'[h].reading = handler[h].reading
    BY <2>1 DEF Requests
  <2>3. NoneBegins /\ \A g \in Handlers : Calm(g)
    BY <2>1, <2>2 DEF NoneBegins, Calm, Others
  <2>4. QED BY <1>9, <2>3, QuietOrder DEF Silent, Ask, partyVars, toldVars
<1>10. ASSUME Down PROVE Order'
  <2>1. \A g \in Handlers : handler'[g] = Idle
    BY <1>10 DEF Down
  <2>2. NoneBegins /\ \A g \in Handlers : Calm(g)
    BY <2>1 DEF NoneBegins, Calm, Idle
  <2>3. timeline' = timeline /\ told' = told /\ readings' = readings /\ ops' = ops
    BY <1>10, Zenon DEF Down, toldVars
  <2>4. QED BY <2>2, <2>3, QuietOrder DEF Silent
<1>11. QED
  BY <1>1, <1>2, <1>3, <1>4, <1>5, <1>6, <1>7, <1>8, <1>9, <1>10,
     MaterializeOrder, ActOrder, CopyOrder, TellOrder DEF Next, Leave, Kick

-----------------------------------------------------------------------------
(* Members are told                                                        *)

(* The step of a request that is about to publish serves everybody.        *)
LEMMA ServedByLookUp ==
  ASSUME NEW h \in Handlers, handler'[h].at \in {"lookup", "copy"}
  PROVE  AllServed'
BY DEF AllServed, Served, WillHear

(* A step in which nobody is told anything, nobody comes, and no request   *)
(* that is to tell somebody of the timeline as it is lets go of it.        *)
LEMMA ServedStays ==
  ASSUME TypeOK, Silent, AllServed, live' => live, members' \subseteq members,
         \A h \in Handlers, p \in members : WillHear(h, p) => WillHear(h, p)'
  PROVE  AllServed'
<1>1. ASSUME NEW h \in Handlers, Stale(h)' PROVE Stale(h) /\ handler'[h].reading = handler[h].reading
  BY <1>1 DEF Stale, Tells, Silent, Calm
<1>2. ASSUME NEW p \in members', Served(p) PROVE Served(p)'
  BY <1>1, <1>2 DEF Served, Missed, Silent
<1>3. QED BY <1>2 DEF AllServed

LEMMA TellServes ==
  ASSUME TypeOK, Order, AllServed, NEW h \in Handlers, NEW p \in Profiles, Tell(h, p) \/ TellFails(h, p)
  PROVE  AllServed'
<1> USE Counts, TellFacts
<1>1. \A g \in Handlers : Stale(g)' <=> Stale(g)
  BY DEF Stale, Tells
<1>2. \A g \in Handlers, q \in Profiles : (g # h \/ q # p) /\ WillHear(g, q) => WillHear(g, q)'
  BY DEF WillHear
<1>3. Fresh(h) \/ Stale(h)
  BY DEF Fresh, Stale
<1>4. ASSUME NEW q \in Profiles, q # p, Served(q) PROVE Served(q)'
  BY <1>1, <1>2, <1>4 DEF Served, Missed
<1>5. ASSUME Served(p) PROVE Served(p)'
  <2>1. CASE \E g \in Handlers : g # h /\ WillHear(g, p)
    BY <1>2, <2>1 DEF Served
  <2>2. CASE told[p].heard = timeline
    <3>1. CASE TellFails(h, p)
      BY <2>2, <3>1 DEF Served
    <3>2. CASE Tell(h, p) /\ Fresh(h)
      BY <3>2 DEF Served, Fresh
    <3>3. CASE Tell(h, p) /\ Stale(h)
      <4>1. \A g \in Handlers : Stale(g) => handler[g].reading < told[p].reading
        BY <2>2 DEF Order, HeardOrdered
      <4>2. Missed(p)'
        BY <1>1, <3>3, <4>1 DEF Missed, Newest, Order, Numbers
      <4>3. QED BY <4>2 DEF Served
    <3>4. QED BY <1>3, <3>1, <3>2, <3>3
  <2>3. CASE Fresh(h)
    <3>1. CASE Tell(h, p)
      BY <2>3, <3>1 DEF Served, Fresh
    <3>2. CASE TellFails(h, p) /\ handler[h].reading <= told[p].reading
      BY <2>3, <3>2 DEF Served, Order, HeardOrdered
    <3>3. CASE TellFails(h, p) /\ told[p].reading < handler[h].reading
      <4>1. \A g \in Handlers : Stale(g) => handler[g].reading < handler[h].reading
        BY <2>3 DEF Order, Ordered
      <4>2. Missed(p)'
        BY <1>1, <3>3, <4>1 DEF Missed, Newest
      <4>3. QED BY <4>2 DEF Served
    <3>4. QED BY <3>1, <3>2, <3>3
  <2>4. CASE Missed(p) /\ Stale(h)
    <3>1. Missed(p)'
      BY <1>1, <2>4 DEF Missed, Newest
    <3>2. QED BY <3>1 DEF Served
  <2>5. ~(Stale(h) /\ WillHear(h, p))
    BY DEF Stale, Tells, WillHear
  <2>6. QED BY <1>3, <1>5, <2>1, <2>2, <2>3, <2>4, <2>5 DEF Served
<1>6. members \subseteq Profiles
  BY DEF TypeOK
<1>7. QED BY <1>4, <1>5, <1>6 DEF AllServed

LEMMA ServedStep ==
  ASSUME TypeOK, Order, AllServed, Next
  PROVE  AllServed'
<1> USE Counts
<1>1. ASSUME NEW h \in Handlers, NEW new \in SUBSET Profiles, NEW gone \in SUBSET Profiles, Changed(h, new, gone)
      PROVE  AllServed'
  <2>1. handler'[h] = [Idle EXCEPT !.at = "lookup"]
    BY <1>1, ChangedFacts
  <2>2. handler'[h].at = "lookup"
    BY <2>1 DEF Idle
  <2>3. QED BY <2>2, ServedByLookUp
<1>2. ASSUME NEW h \in Handlers, NEW p \in Profiles, Join(h, p) PROVE AllServed'
  BY <1>1, <1>2 DEF Join
<1>3. ASSUME NEW h \in Handlers, NEW p \in Profiles, Remove(h, p) PROVE AllServed'
  BY <1>1, <1>3 DEF Remove
<1>4. ASSUME NEW h \in Handlers, NEW p \in Profiles, AppendQueue(h, p) PROVE AllServed'
  BY <1>1, <1>4 DEF AppendQueue
<1>5. ASSUME NEW h \in Handlers, Act(h) PROVE AllServed'
  BY <1>1, <1>5 DEF Act
<1>6. ASSUME NEW h \in Handlers, End(h) PROVE AllServed'
  <2>1. ~live'
    BY <1>6, Zenon DEF End
  <2>2. QED BY <2>1 DEF AllServed
<1>7. ASSUME Down PROVE AllServed'
  <2>1. ~live'
    BY <1>7, Zenon DEF Down
  <2>2. QED BY <2>1 DEF AllServed
<1>8. ASSUME NEW h \in Handlers, Materialize(h) PROVE AllServed'
  <2>1. handler[h].at = "idle" /\ Others(h) /\ handler'[h] = [handler[h] EXCEPT !.at = "acting"]
    BY <1>8, MaterializeFacts DEF Materialize, Enter
  <2>2. /\ handler'[h].at = "acting"
        /\ handler'[h].copy = handler[h].copy /\ handler'[h].reading = handler[h].reading
    BY <2>1 DEF Requests
  <2>3. /\ live' = live /\ members' = members /\ timeline' = timeline /\ told' = told /\ readings' = readings
        /\ ops' = ops + 1
    BY <1>8 DEF Materialize, Enter, Op, partyVars, toldVars
  <2>4. \A g \in Handlers : Calm(g)
    BY <2>1, <2>2 DEF Calm, Others
  <2>5. \A g \in Handlers, p \in members : WillHear(g, p) => WillHear(g, p)'
    BY <2>1, <2>3 DEF WillHear, Others
  <2>6. QED BY <2>3, <2>4, <2>5, ServedStays DEF Silent
<1>9. ASSUME NEW h \in Handlers, ActUnknown(h) \/ Walked(h) \/ Asked(h) PROVE AllServed'
  <2>1. Others(h) /\ handler'[h] = Idle
    BY <1>9, RestFacts
  <2>2. /\ live' = live /\ members' = members /\ timeline' = timeline /\ told' = told /\ readings' = readings
        /\ ops' = ops
    BY <1>9 DEF ActUnknown, Walked, Asked, partyVars, toldVars
  <2>3. \A g \in Handlers : Calm(g)
    BY <2>1, IdleCalm
  <2>4. handler[h].at \in {"acting", "invite"} \/ handler[h].todo = {}
    BY <1>9 DEF ActUnknown, Walked, Asked
  <2>5. \A g \in Handlers, p \in members : WillHear(g, p) => WillHear(g, p)'
    <3>1. \A p \in members : ~WillHear(h, p)
      BY <1>9, <2>4 DEF WillHear, ActUnknown, Walked, Asked
    <3>2. QED BY <2>1, <2>2, <3>1 DEF WillHear, Others
  <2>6. QED BY <2>2, <2>3, <2>5, ServedStays DEF Silent
<1>10. ASSUME NEW h \in Handlers, LookUp(h) PROVE AllServed'
  <2>1. live' = live /\ handler'[h] = IF live THEN [handler[h] EXCEPT !.at = "copy"] ELSE Idle
    BY <1>10, LookUpFacts DEF LookUp, partyVars
  <2>2. CASE live
    <3>1. handler'[h].at = "copy"
      BY <2>1, <2>2 DEF Requests
    <3>2. QED BY <3>1, ServedByLookUp
  <2>3. CASE ~live
    BY <2>1, <2>3 DEF AllServed
  <2>4. QED BY <2>2, <2>3
<1>11. ASSUME NEW h \in Handlers, Copy(h) PROVE AllServed'
  <2>1. timeline' = timeline /\ members' = members
    BY <1>11 DEF Copy, partyVars
  <2>2. handler'[h].at = "tell" /\ handler'[h].todo = members /\ handler'[h].copy = timeline
    BY <1>11, CopyFacts
  <2>3. \A p \in members' : WillHear(h, p)'
    BY <2>1, <2>2 DEF WillHear
  <2>4. QED BY <2>3 DEF AllServed, Served
<1>12. ASSUME NEW h \in Handlers, NEW p \in Profiles, NEW those \in SUBSET Profiles, Invite(h, p, those)
       PROVE  AllServed'
  <2>1. Others(h) /\ handler'[h] = [Idle EXCEPT !.at = "invite", !.todo = those \ members]
        /\ handler[h].at = "idle"
    BY <1>12, InviteFacts DEF Invite, Enter
  <2>2. handler'[h].at = "invite" /\ handler'[h].copy = Opening /\ handler'[h].reading = 0
    BY <2>1 DEF Idle
  <2>3. /\ live' = live /\ members' = members /\ timeline' = timeline /\ told' = told /\ readings' = readings
        /\ ops' = ops + 1
    BY <1>12 DEF Invite, Enter, Op, toldVars
  <2>4. \A g \in Handlers : Calm(g)
    BY <2>1, <2>2 DEF Calm, Others
  <2>5. \A g \in Handlers, q \in members : WillHear(g, q) => WillHear(g, q)'
    BY <2>1, <2>3 DEF WillHear, Others
  <2>6. QED BY <2>3, <2>4, <2>5, ServedStays DEF Silent
<1>13. ASSUME NEW h \in Handlers, NEW p \in Profiles, NEW those \in SUBSET Profiles, InviteFails(h, p, those)
       PROVE  AllServed'
  <2>1. /\ live' = live /\ members' = members /\ timeline' = timeline /\ told' = told /\ readings' = readings
        /\ ops' = ops + 1 /\ handler' = handler
    BY <1>13 DEF InviteFails, Enter, Op, toldVars
  <2>2. (\A g \in Handlers : Calm(g)) /\ \A g \in Handlers, q \in members : WillHear(g, q) => WillHear(g, q)'
    BY <2>1 DEF Calm, WillHear
  <2>3. QED BY <2>1, <2>2, ServedStays DEF Silent
<1>14. ASSUME NEW h \in Handlers, NEW p \in Profiles, Ask(h, p) PROVE AllServed'
  <2>1. handler[h].at = "invite" /\ Others(h) /\ handler'[h] = [handler[h] EXCEPT !.todo = handler[h].todo \ {p}]
    BY <1>14, AskFacts DEF Ask
  <2>2. /\ handler'[h].at = handler[h].at /\ handler'[h].copy = handler[h].copy
        /\ handler'[h].reading = handler[h].reading
    BY <2>1 DEF Requests
  <2>3. /\ live' = live /\ members' = members /\ timeline' = timeline /\ told' = told /\ readings' = readings
        /\ ops' = ops
    BY <1>14 DEF Ask, partyVars, toldVars
  <2>4. \A g \in Handlers : Calm(g)
    BY <2>1, <2>2 DEF Calm, Others
  <2>5. \A g \in Handlers, q \in members : WillHear(g, q) => WillHear(g, q)'
    BY <2>1, <2>3 DEF WillHear, Others
  <2>6. QED BY <2>3, <2>4, <2>5, ServedStays DEF Silent
<1>15. QED
  BY <1>2, <1>3, <1>4, <1>5, <1>6, <1>7, <1>8, <1>9, <1>10, <1>11, <1>12, <1>13, <1>14, TellServes
     DEF Next, Leave, Kick

-----------------------------------------------------------------------------
(* Invited profiles are told                                               *)

WillAsk(h, p) == handler[h].at = "invite" /\ p \in handler[h].todo

(* A step that invites nobody, and loses no invitation and no answer.      *)
LEMMA AskedStays ==
  ASSUME InvitedAreTold, live' => live, invited' \subseteq invited,
         \A p \in invited' : p \in asked \cup unasked => p \in asked' \cup unasked',
         \A h \in Handlers, p \in invited' : WillAsk(h, p) => WillAsk(h, p)'
  PROVE  InvitedAreTold'
BY DEF InvitedAreTold, WillAsk

LEMMA InvitedStep ==
  ASSUME TypeOK, InvitedAreTold, Next
  PROVE  InvitedAreTold'
<1>1. ASSUME NEW h \in Handlers, NEW new \in SUBSET Profiles, NEW gone \in SUBSET Profiles,
             Changed(h, new, gone), handler[h].at # "invite"
      PROVE  \A g \in Handlers, p \in Profiles : WillAsk(g, p) => WillAsk(g, p)'
  BY <1>1, ChangedFacts DEF WillAsk
<1>2. invited \subseteq Profiles
  BY DEF TypeOK
<1>3. ASSUME NEW h \in Handlers, NEW p \in Profiles, Join(h, p) PROVE InvitedAreTold'
  <2>1. \A g \in Handlers, q \in Profiles : WillAsk(g, q) => WillAsk(g, q)'
    BY <1>1, <1>3 DEF Join, Enter
  <2>2. /\ live' = live /\ invited' \subseteq invited
        /\ \A q \in invited' : q \in asked \cup unasked => q \in asked' \cup unasked'
    BY <1>3 DEF Join, Uninvite, askedVars
  <2>3. QED BY <1>2, <2>1, <2>2, AskedStays
<1>4. ASSUME NEW h \in Handlers, NEW p \in Profiles, Enter(h), Remove(h, p) PROVE InvitedAreTold'
  <2>1. \A g \in Handlers, q \in Profiles : WillAsk(g, q) => WillAsk(g, q)'
    BY <1>1, <1>4 DEF Remove, Enter
  <2>2. /\ live' = live /\ invited' \subseteq invited
        /\ \A q \in invited' : q \in asked \cup unasked => q \in asked' \cup unasked'
    BY <1>4 DEF Remove, Uninvite
  <2>3. QED BY <1>2, <2>1, <2>2, AskedStays
<1>5. ASSUME NEW h \in Handlers, NEW p \in Profiles, AppendQueue(h, p) PROVE InvitedAreTold'
  <2>1. \A g \in Handlers, q \in Profiles : WillAsk(g, q) => WillAsk(g, q)'
    BY <1>1, <1>5 DEF AppendQueue, Enter
  <2>2. QED BY <1>2, <1>5, <2>1, AskedStays DEF AppendQueue, askedVars
<1>6. ASSUME NEW h \in Handlers, Act(h) PROVE InvitedAreTold'
  <2>1. \A g \in Handlers, q \in Profiles : WillAsk(g, q) => WillAsk(g, q)'
    BY <1>1, <1>6 DEF Act
  <2>2. QED BY <1>2, <1>6, <2>1, AskedStays DEF Act, askedVars
<1>7. ASSUME NEW h \in Handlers, End(h) PROVE InvitedAreTold'
  <2>1. ~live'
    BY <1>7, Zenon DEF End
  <2>2. QED BY <2>1 DEF InvitedAreTold
<1>8. ASSUME Down PROVE InvitedAreTold'
  <2>1. ~live'
    BY <1>8, Zenon DEF Down
  <2>2. QED BY <2>1 DEF InvitedAreTold
<1>9. ASSUME NEW h \in Handlers, Others(h), \A q \in Profiles : ~WillAsk(h, q)
      PROVE  \A g \in Handlers, q \in Profiles : WillAsk(g, q) => WillAsk(g, q)'
  BY <1>9 DEF Others, WillAsk
<1>10. ASSUME NEW h \in Handlers, Materialize(h) PROVE InvitedAreTold'
  <2>1. \A g \in Handlers, q \in Profiles : WillAsk(g, q) => WillAsk(g, q)'
    BY <1>9, <1>10, MaterializeFacts DEF Materialize, Enter, WillAsk
  <2>2. QED BY <1>2, <1>10, <2>1, AskedStays DEF Materialize, partyVars, askedVars
<1>11. ASSUME NEW h \in Handlers, ActUnknown(h) \/ Walked(h) \/ Asked(h) PROVE InvitedAreTold'
  <2>1. \A q \in Profiles : ~WillAsk(h, q)
    BY <1>11 DEF ActUnknown, Walked, Asked, WillAsk
  <2>2. \A g \in Handlers, q \in Profiles : WillAsk(g, q) => WillAsk(g, q)'
    BY <1>9, <1>11, <2>1, RestFacts
  <2>3. QED BY <1>2, <1>11, <2>2, AskedStays DEF ActUnknown, Walked, Asked, partyVars, askedVars
<1>12. ASSUME NEW h \in Handlers, LookUp(h) PROVE InvitedAreTold'
  <2>1. \A g \in Handlers, q \in Profiles : WillAsk(g, q) => WillAsk(g, q)'
    BY <1>9, <1>12, LookUpFacts DEF LookUp, WillAsk
  <2>2. QED BY <1>2, <1>12, <2>1, AskedStays DEF LookUp, partyVars, askedVars
<1>13. ASSUME NEW h \in Handlers, Copy(h) PROVE InvitedAreTold'
  <2>1. \A g \in Handlers, q \in Profiles : WillAsk(g, q) => WillAsk(g, q)'
    BY <1>9, <1>13, CopyFacts DEF Copy, WillAsk
  <2>2. QED BY <1>2, <1>13, <2>1, AskedStays DEF Copy, partyVars, askedVars
<1>14. ASSUME NEW h \in Handlers, NEW p \in Profiles, Tell(h, p) \/ TellFails(h, p) PROVE InvitedAreTold'
  <2>1. \A g \in Handlers, q \in Profiles : WillAsk(g, q) => WillAsk(g, q)'
    BY <1>14, TellFacts DEF WillAsk
  <2>2. QED BY <1>2, <1>14, <2>1, AskedStays DEF Tell, TellFails, partyVars, askedVars
<1>15. ASSUME NEW h \in Handlers, NEW p \in Profiles, Ask(h, p) PROVE InvitedAreTold'
  <2>1. Others(h) /\ handler'[h] = [handler[h] EXCEPT !.todo = handler[h].todo \ {p}] /\ handler[h] \in Requests
    BY <1>15, AskFacts, Counts
  <2>2. handler'[h].at = handler[h].at /\ handler'[h].todo = handler[h].todo \ {p}
    BY <2>1 DEF Requests
  <2>3. \A g \in Handlers, q \in Profiles : q # p /\ WillAsk(g, q) => WillAsk(g, q)'
    BY <2>1, <2>2 DEF Others, WillAsk
  <2>4. /\ live' = live /\ invited' = invited
        /\ \A q \in Profiles : q \in asked \cup unasked /\ q # p => q \in asked' \cup unasked'
        /\ p \in invited => p \in asked' \cup unasked'
    BY <1>15 DEF Ask, partyVars
  <2>5. QED BY <1>2, <2>3, <2>4 DEF InvitedAreTold, WillAsk
<1>16. ASSUME NEW h \in Handlers, NEW p \in Profiles, NEW those \in SUBSET Profiles, Invite(h, p, those)
       PROVE  InvitedAreTold'
  <2>1. /\ handler[h].at = "idle" /\ Others(h)
        /\ handler'[h] = [Idle EXCEPT !.at = "invite", !.todo = those \ members]
    BY <1>16, InviteFacts DEF Invite, Enter
  <2>2. handler'[h].at = "invite" /\ handler'[h].todo = those \ members
    BY <2>1 DEF Idle
  <2>3. \A g \in Handlers, q \in Profiles : WillAsk(g, q) => WillAsk(g, q)'
    BY <1>9, <2>1 DEF WillAsk
  <2>4. \A q \in those \ members : WillAsk(h, q)'
    BY <2>2 DEF WillAsk
  <2>5. live' = live /\ invited' = invited \cup (those \ members) /\ asked' = asked /\ unasked' = unasked
    BY <1>16 DEF Invite, askedVars
  <2>6. QED BY <1>2, <2>3, <2>4, <2>5 DEF InvitedAreTold, WillAsk
<1>17. ASSUME NEW h \in Handlers, NEW p \in Profiles, NEW those \in SUBSET Profiles, InviteFails(h, p, those)
       PROVE  InvitedAreTold'
  <2>1. /\ live' = live /\ handler' = handler /\ asked' = asked
        /\ invited' = invited \cup (those \ members)
        /\ unasked' = unasked \cup (those \ (members \cup asked))
    BY <1>17 DEF InviteFails
  <2>2. QED BY <2>1 DEF InvitedAreTold
<1>18. QED
  BY <1>3, <1>4, <1>5, <1>6, <1>7, <1>8, <1>10, <1>11, <1>12, <1>13, <1>14, <1>15, <1>16, <1>17
     DEF Next, Leave, Kick

-----------------------------------------------------------------------------
(* The invariant                                                           *)

LEMMA OrderInit == Init => Order /\ AllServed
<1> SUFFICES ASSUME Init PROVE Order /\ AllServed
  OBVIOUS
<1>1. /\ ops = 0 /\ readings = 0 /\ timeline = Opening /\ members = {Host}
      /\ \A h \in Handlers : handler[h] = Idle
      /\ \A p \in Profiles : told[p] = [heard |-> Opening, reading |-> 0, newest |-> 0]
  BY DEF Init
<1>2. \A h \in Handlers : handler[h].at = "idle" /\ handler[h].copy = Opening /\ handler[h].reading = 0
  BY <1>1 DEF Idle
<1>3. timeline.asOf = 0 /\ Opening.asOf = 0
  BY <1>1 DEF Opening
<1>4. Order
  BY <1>1, <1>2, <1>3 DEF Order, Acting, Times, Numbers, Ordered, HeardOrdered, Fresh, Stale, Tells
<1>5. AllServed
  BY <1>1, PartyAssumption DEF AllServed, Served
<1>6. QED BY <1>4, <1>5

LEMMA PartyInvariant == Spec => []PartyInv
<1>1. Init => PartyInv
  BY TypeInit, OrderInit DEF PartyInv, Init, InvitedAreTold
<1>2. ASSUME PartyInv, [Next]_vars PROVE PartyInv'
  <2>1. CASE Next
    <3>1. TypeOK'
      BY <1>2, <2>1, TypeStep DEF PartyInv
    <3>2. QED BY <1>2, <2>1, <3>1, OrderStep, ServedStep, InvitedStep DEF PartyInv
  <2>2. CASE UNCHANGED vars
    BY <1>2, <2>2 DEF PartyInv, vars, partyVars, toldVars, askedVars, TypeOK, Order, Acting, Times, Numbers,
       Ordered, HeardOrdered, Fresh, Stale, Tells, AllServed, Served, WillHear, Missed, InvitedAreTold
  <2>3. QED BY <1>2, <2>1, <2>2
<1>3. QED BY <1>1, <1>2, PTL DEF Spec

(* Whoever is in the party heard last of the timeline as it is, or is      *)
(* about to, unless the newest publication to it failed or was overtaken,  *)
(* whatever number of requests change the party and tell of it at a time.  *)
THEOREM EveryoneIsTold == Spec => []EveryoneTold
<1>1. PartyInv => EveryoneTold
  BY DEF PartyInv, AllServed, Served, Missed, EveryoneTold
<1>2. QED BY <1>1, PartyInvariant, PTL

(* Whoever is invited has been told so or will be, unless a request or a   *)
(* publication failed.                                                     *)
THEOREM InvitedAreAsked == Spec => []InvitedAreTold
<1>1. PartyInv => InvitedAreTold
  BY DEF PartyInv
<1>2. QED BY <1>1, PartyInvariant, PTL

=============================================================================
