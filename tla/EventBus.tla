------------------------------ MODULE EventBus ------------------------------
(***************************************************************************)
(* events.Bus and the stream behind GET /v1/events: publishers append an   *)
(* event to the durable log and then fan it out to the channels of the     *)
(* streams that are attached; a stream's goroutine replays the log from    *)
(* Last-Event-ID and goes on with its channel; the log is pruned.          *)
(*                                                                         *)
(* One stream of one profile is followed through its connections.  Events  *)
(* for other profiles take sequence numbers that it never sees.            *)
(***************************************************************************)
EXTENDS Naturals, Sequences, FiniteSets

CONSTANTS
  Publishers,  (* goroutines that publish at the same time                  *)
  Cap,         (* capacity of the two channels: 64 in the code              *)
  Keep,        (* pruneKeep, which also limits a replay: 10000 in the code  *)
  PruneEvery,  (* events between two prunings: 1000 in the code             *)
  MaxSeq,      (* bound: events                                             *)
  MaxConnects  (* bound: connections of the stream                          *)

ASSUME BusAssumption ==
  /\ Cap \in Nat \ {0} /\ Keep \in Nat \ {0} /\ PruneEvery \in Nat \ {0}
  /\ MaxSeq \in Nat /\ MaxConnects \in Nat

VARIABLES
  last,        (* the newest sequence number ever given                     *)
  log,         (* the sequence numbers in the events table                  *)
  visible,     (* those of events for this profile or for everyone          *)
  pub,         (* per publisher: idle, or appended, or about to prune       *)
  published,   (* Bus.published, modulo PruneEvery                          *)
  conn,        (* the stream: off, open (since is read), query, replay, live *)
  ch,          (* subscriber.ch, filled by publishers while attached        *)
  rows,        (* the replayed rows still to be sent                        *)
  hand,        (* an event taken from ch and not yet sent to out, or 0      *)
  lastSent,    (* the goroutine's lastSent; since when it starts            *)
  out,         (* the channel the HTTP handler reads                        *)
  lastId,      (* the client: the id of the last event received, 0 if none  *)
  received,    (* history: everything the client received                   *)
  start,       (* history: where its live-only stream began                 *)
  causes,      (* history: what has endangered delivery so far              *)
  connects     (* the counter behind the bound                              *)

tableVars  == <<last, log, visible>>
readerVars == <<rows, hand, lastSent, out>>
clientVars == <<lastId, received, start>>
vars == <<tableVars, pub, published, conn, ch, readerVars, clientVars, causes, connects>>

NewestOf(S) == IF S = {} THEN 0 ELSE CHOOSE s \in S : \A t \in S : t <= s
OldestOf(S) == CHOOSE s \in S : \A t \in S : s <= t

(* The stream's channel is among Bus.subs.  Mutant: it joins after the     *)
(* replay, which the comment in Subscribe rules out.                       *)
attachedLate == conn = "live"
attached == conn \in {"query", "replay", "live"}

HasRoom(c) == Len(c) < Cap

-----------------------------------------------------------------------------
(* Publish                                                                 *)

(* AppendEvent *)
AppendEvent(p) ==
  /\ pub[p].at = "idle" /\ last < MaxSeq
  /\ last' = last + 1
  /\ log' = log \cup {last + 1}
  /\ \E mine \in BOOLEAN : visible' = IF mine THEN visible \cup {last + 1} ELSE visible
  /\ pub' = [pub EXCEPT ![p] = [at |-> "append", seq |-> last + 1]]
  /\ UNCHANGED <<published, conn, ch, readerVars, clientVars, causes, connects>>

(* Another publisher holds an older event that it has yet to fan out *)
Overtakes(p) ==
  \E q \in Publishers : pub[q].at = "append" /\ pub[q].seq < pub[p].seq /\ pub[q].seq \in visible

(* The section under b.mu: send to the channel unless it is full *)
FanOut(p) ==
  /\ pub[p].at = "append"
  /\ IF attached /\ pub[p].seq \in visible
     THEN /\ ch' = IF HasRoom(ch) THEN Append(ch, pub[p].seq) ELSE ch
          /\ causes' = causes \cup (IF HasRoom(ch) THEN {} ELSE {"full"})
                              \cup (IF Overtakes(p) THEN {"reordered"} ELSE {})
     ELSE UNCHANGED <<ch, causes>>
  /\ published' = (published + 1) % PruneEvery
  /\ pub' = [pub EXCEPT ![p] = [at |-> IF published' = 0 THEN "prune" ELSE "idle", seq |-> 0]]
  /\ UNCHANGED <<tableVars, conn, readerVars, clientVars, connects>>

(* PruneEvents, after b.mu is released *)
Kept(S) == {s \in S : s + Keep > NewestOf(S)}

Prune(p) ==
  /\ pub[p].at = "prune"
  /\ log' = Kept(log)
  /\ pub' = [pub EXCEPT ![p] = [at |-> "idle", seq |-> 0]]
  /\ UNCHANGED <<last, visible, published, conn, ch, readerVars, clientVars, causes, connects>>

-----------------------------------------------------------------------------
(* The stream: handleStreamEvents, Subscribe and its goroutine              *)

(* Where the stream begins: at Last-Event-ID, or else at the newest event; *)
(* at 0 when that cannot be read.                                          *)
SinceLatest == {NewestOf(log)}                      \* mutant: Last-Event-ID is ignored
Since == IF lastId # 0 THEN {lastId} ELSE {NewestOf(log), 0}

Connect ==
  /\ conn = "off" /\ connects < MaxConnects
  /\ connects' = connects + 1
  /\ conn' = "open"
  /\ lastSent' \in Since
  /\ start' = IF lastId # 0 THEN start ELSE lastSent'
  /\ UNCHANGED <<tableVars, pub, published, ch, rows, hand, out, lastId, received, causes>>

(* Subscribe attaches the channel before the log is read *)
Attach ==
  /\ conn = "open"
  /\ conn' = "query"
  /\ UNCHANGED <<tableVars, pub, published, ch, readerVars, clientVars, causes, connects>>

(* EventsSince: the oldest Keep rows after since; on an error, none *)
Backlog == {s \in log \cap visible : s > lastSent}
Oldest(S) == {s \in S : Cardinality({t \in S : t < s}) < Keep}

Query ==
  /\ conn = "query"
  /\ conn' = "replay"
  /\ \/ /\ rows' = Oldest(Backlog)
        /\ causes' = causes \cup
             (IF rows' = {s \in visible : s > lastSent} THEN {} ELSE {"pruned"})
     \/ /\ rows' = {}
        /\ causes' = causes \cup {"error"}
  /\ UNCHANGED <<tableVars, pub, published, ch, hand, lastSent, out, clientVars, connects>>

Replay ==
  /\ conn = "replay"
  /\ IF rows = {}
     THEN conn' = "live" /\ UNCHANGED readerVars
     ELSE /\ HasRoom(out)
          /\ out' = Append(out, OldestOf(rows))
          /\ lastSent' = OldestOf(rows)
          /\ rows' = rows \ {OldestOf(rows)}
          /\ UNCHANGED <<conn, hand>>
  /\ UNCHANGED <<tableVars, pub, published, ch, clientVars, causes, connects>>

(* The test that drops what was replayed already *)
SentUntested(n) == FALSE                            \* mutant: events are not deduplicated
Sent(n) == n <= lastSent

TakeLive ==
  /\ conn = "live" /\ hand = 0 /\ ch # <<>>
  /\ ch' = Tail(ch)
  /\ hand' = IF Sent(Head(ch)) THEN 0 ELSE Head(ch)
  /\ UNCHANGED <<tableVars, pub, published, conn, rows, lastSent, out, clientVars, causes,
                 connects>>

SendLive ==
  /\ conn = "live" /\ hand # 0 /\ HasRoom(out)
  /\ out' = Append(out, hand)
  /\ lastSent' = hand
  /\ hand' = 0
  /\ UNCHANGED <<tableVars, pub, published, conn, ch, rows, clientVars, causes, connects>>

(* The handler writes a frame and the client receives it *)
Receive ==
  /\ attached /\ out # <<>>
  /\ out' = Tail(out)
  /\ lastId' = Head(out)
  /\ received' = received \cup {Head(out)}
  /\ UNCHANGED <<tableVars, pub, published, conn, ch, rows, hand, lastSent, start, causes,
                 connects>>

(* The connection ends, with whatever was on its way *)
Detach ==
  /\ conn' = "off"
  /\ ch' = <<>> /\ rows' = {} /\ hand' = 0 /\ lastSent' = 0 /\ out' = <<>>
  /\ UNCHANGED <<tableVars, clientVars, causes, connects>>

Disconnect ==
  /\ conn # "off" /\ connects < MaxConnects
  /\ Detach
  /\ UNCHANGED <<pub, published>>

(* The process ends: publishers stop between append and fan-out *)
Restart ==
  /\ connects < MaxConnects
  /\ Detach
  /\ pub' = [p \in Publishers |-> [at |-> "idle", seq |-> 0]]
  /\ published' = 0

-----------------------------------------------------------------------------
Init ==
  /\ last = 0 /\ log = {} /\ visible = {}
  /\ pub = [p \in Publishers |-> [at |-> "idle", seq |-> 0]] /\ published = 0
  /\ conn = "off" /\ ch = <<>> /\ rows = {} /\ hand = 0 /\ lastSent = 0 /\ out = <<>>
  /\ lastId = 0 /\ received = {} /\ start = 0 /\ causes = {} /\ connects = 0

PublisherStep(p) == AppendEvent(p) \/ FanOut(p) \/ Prune(p)
StreamStep == Connect \/ Attach \/ Query \/ Replay \/ TakeLive \/ SendLive \/ Receive

Next ==
  \/ \E p \in Publishers : PublisherStep(p)
  \/ StreamStep \/ Disconnect \/ Restart

Spec == Init /\ [][Next]_vars

(* Publishers that appended go on; the client reconnects; the stream's     *)
(* goroutine, its handler and the network keep moving while connected.     *)
Fairness ==
  /\ \A p \in Publishers : WF_vars(FanOut(p) \/ Prune(p))
  /\ WF_vars(Connect \/ Attach \/ Query \/ Replay)
  /\ WF_vars(TakeLive \/ SendLive) /\ WF_vars(Receive)

FairSpec == Spec /\ Fairness

-----------------------------------------------------------------------------
(* Properties                                                              *)

Causes == {"full", "reordered", "pruned", "error"}

(* The types of the variables. *)
TypeOK ==
  /\ last \in Nat /\ log \in SUBSET (1 .. last) /\ visible \in SUBSET (1 .. last)
  /\ pub \in [Publishers -> [at : {"idle", "append", "prune"}, seq : Nat]]
  /\ published \in 0 .. PruneEvery - 1
  /\ conn \in {"off", "open", "query", "replay", "live"}
  /\ ch \in Seq(Nat) /\ Len(ch) <= Cap /\ out \in Seq(Nat) /\ Len(out) <= Cap
  /\ rows \in SUBSET Nat /\ hand \in Nat /\ lastSent \in Nat
  /\ lastId \in Nat /\ received \in SUBSET Nat /\ start \in Nat
  /\ causes \in SUBSET Causes /\ connects \in Nat

(* Ids only ever grow, from one connection to the next as well: replayed    *)
(* and live events never repeat or overtake one another.                    *)
IdsIncrease == [][lastId' # lastId => lastId' > lastId]_vars

(* Up to the id the client holds, it has received everything it should *)
Lossless == {s \in visible : start < s /\ s <= lastId} \subseteq received

(* Resuming from Last-Event-ID loses nothing, whatever was on its way when  *)
(* connections or the process ended, while no channel was full, publishers  *)
(* reached b.mu in the order of their sequence numbers, and the log had     *)
(* what the replay asked for.                                               *)
LosslessUnlessEndangered == causes = {} => Lossless

(* An event for this profile reaches the client, over this connection or a  *)
(* later one, unless the client starts live-only after it or delivery is     *)
(* endangered as above.                                                      *)
EventReceived ==
  \A s \in 1 .. MaxSeq : s \in visible ~> (s \in received \/ s <= start \/ causes # {})

=============================================================================
