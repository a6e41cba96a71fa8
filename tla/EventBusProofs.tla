--------------------------- MODULE EventBusProofs ---------------------------
(***************************************************************************)
(* Proofs about EventBus for all constants that satisfy BusAssumption: any *)
(* number of publishers, events and connections, and channels, logs and    *)
(* replays of any size.                                                    *)
(***************************************************************************)
EXTENDS EventBus, TLAPS, NaturalsInduction, WellFoundedInduction

-----------------------------------------------------------------------------
(* The inductive invariant                                                 *)

In(s, q)      == \E i \in 1..Len(q) : q[i] = s
Increasing(q) == \A i, j \in 1..Len(q) : i < j => q[i] < q[j]
Pending(p)    == pub[p].at = "append" /\ pub[p].seq \in visible

(* Each event has one publisher.                                           *)
Given ==
  /\ \A p \in Publishers : pub[p].at = "append" => pub[p].seq \in 1..last
  /\ \A p, q \in Publishers : pub[p].at = "append" /\ pub[q] = pub[p] => p = q

(* What a stream has in hand, and where.                                   *)
Places ==
  /\ rows \subseteq visible /\ hand \in visible \cup {0}
  /\ \A i \in 1..Len(ch) : ch[i] \in visible
  /\ lastSent <= last /\ lastId <= last
  /\ conn # "replay" => rows = {}
  /\ conn # "live" => hand = 0
  /\ conn \in {"off", "open"} => ch = <<>>
  /\ conn \in {"off", "open", "query"} => out = <<>>
  /\ conn = "off" => lastSent = 0

(* What is sent comes after all that was sent, and that after all that was *)
(* received.                                                               *)
Ordered ==
  /\ conn # "off" => lastId <= lastSent
  /\ \A r \in rows : lastSent < r
  /\ hand # 0 => lastSent < hand
  /\ Increasing(out)
  /\ \A i \in 1..Len(out) : lastId < out[i] /\ out[i] <= lastSent

(* The channel is in order, and comes before what is yet to be fanned out. *)
Sorted ==
  /\ Increasing(ch)
  /\ \A i \in 1..Len(ch), p \in Publishers : Pending(p) => ch[i] < pub[p].seq
  /\ hand # 0 => \A i \in 1..Len(ch) : hand < ch[i]
  /\ hand # 0 => \A p \in Publishers : Pending(p) => hand < pub[p].seq

(* What was not sent is on its way, and the replay comes first.            *)
OnItsWay ==
  \A s \in visible : lastSent < s =>
    s \in rows \/ s = hand \/ In(s, ch) \/ \E p \in Publishers : Pending(p) /\ pub[p].seq = s
ReplayFirst == \A s \in visible \ rows : lastSent < s => \A r \in rows : r < s

(* What was sent is received or about to be.                               *)
SentIsThere == \A s \in visible : start < s /\ s <= lastSent => s \in received \/ In(s, out)

StreamInv ==
  /\ Sorted /\ SentIsThere /\ Lossless
  /\ conn \in {"replay", "live"} => OnItsWay
  /\ conn = "replay" => ReplayFirst

BusInv == TypeOK /\ Given /\ Places /\ Ordered /\ (causes = {} => StreamInv)

-----------------------------------------------------------------------------
(* Sequences and sets of numbers                                           *)

(* A channel or a buffer that grows by one element.                        *)
LEMMA AppendFacts ==
  ASSUME NEW q \in Seq(Nat), NEW s \in Nat
  PROVE  /\ Append(q, s) \in Seq(Nat) /\ Len(Append(q, s)) = Len(q) + 1 /\ Len(q) \in Nat
         /\ \A i \in 1..Len(q) : Append(q, s)[i] = q[i]
         /\ Append(q, s)[Len(q) + 1] = s
         /\ \A t : In(t, Append(q, s)) <=> In(t, q) \/ t = s
         /\ Increasing(q) /\ (\A i \in 1..Len(q) : q[i] < s) => Increasing(Append(q, s))
<1>1. /\ Append(q, s) \in Seq(Nat) /\ Len(Append(q, s)) = Len(q) + 1 /\ Len(q) \in Nat
      /\ \A i \in 1..Len(q) : Append(q, s)[i] = q[i]
      /\ Append(q, s)[Len(q) + 1] = s
  OBVIOUS
<1>2. \A t : In(t, Append(q, s)) <=> In(t, q) \/ t = s
  BY SMT, <1>1 DEF In
<1>3. ASSUME Increasing(q), \A i \in 1..Len(q) : q[i] < s
      PROVE  Increasing(Append(q, s))
  BY SMT, <1>1, <1>3 DEF Increasing
<1>4. QED BY <1>1, <1>2, <1>3

(* ... and one that loses its first.                                       *)
LEMMA TailFacts ==
  ASSUME NEW q \in Seq(Nat), q # <<>>
  PROVE  /\ Tail(q) \in Seq(Nat) /\ Len(q) \in Nat /\ Len(Tail(q)) = Len(q) - 1
         /\ Head(q) = q[1] /\ 1 \in 1..Len(q)
         /\ \A i \in 1..Len(Tail(q)) : i + 1 \in 1..Len(q) /\ Tail(q)[i] = q[i + 1]
         /\ \A t : In(t, q) <=> t = Head(q) \/ In(t, Tail(q))
         /\ Increasing(q) =>
              Increasing(Tail(q)) /\ \A i \in 1..Len(Tail(q)) : Head(q) < Tail(q)[i]
<1>1. /\ Tail(q) \in Seq(Nat) /\ Len(q) \in Nat /\ Len(Tail(q)) = Len(q) - 1
      /\ Head(q) = q[1] /\ 1 \in 1..Len(q)
      /\ \A i \in 1..Len(Tail(q)) : i + 1 \in 1..Len(q) /\ Tail(q)[i] = q[i + 1]
  OBVIOUS
<1>2. ASSUME NEW t PROVE In(t, q) <=> t = Head(q) \/ In(t, Tail(q))
  <2>1. ASSUME NEW i \in 1..Len(q), i # 1
        PROVE  i - 1 \in 1..Len(Tail(q)) /\ Tail(q)[i - 1] = q[i]
    <3>1. i - 1 \in 1..Len(Tail(q)) /\ (i - 1) + 1 = i
      BY SMT, <1>1, <2>1
    <3>2. QED BY <1>1, <3>1
  <2>2. QED BY <1>1, <2>1 DEF In
<1>3. ASSUME Increasing(q)
      PROVE  Increasing(Tail(q)) /\ \A i \in 1..Len(Tail(q)) : Head(q) < Tail(q)[i]
  BY SMT, <1>1, <1>3 DEF Increasing
<1>4. QED BY <1>1, <1>2, <1>3

(* A set of numbers that is not empty has a least one.                     *)
LEMMA Least ==
  ASSUME NEW S, S \subseteq Nat, S # {}
  PROVE  \E s \in S : \A t \in S : s <= t
<1>1. PICK s \in S : \A t \in S : ~(<<t, s>> \in OpToRel(<, Nat))
  BY NatLessThanWellFounded, WFMin
<1>2. \A t \in S : ~(t < s)
  BY <1>1 DEF OpToRel
<1>3. QED BY SMT, <1>2

(* OldestOf is the least of a set that is not empty ...                    *)
LEMMA OldestFacts ==
  ASSUME NEW S, S \subseteq Nat, S # {}
  PROVE  OldestOf(S) \in S /\ \A t \in S : OldestOf(S) <= t
BY Least DEF OldestOf

(* ... and NewestOf the greatest of a bounded one, or 0.                   *)
LEMMA NewestFacts ==
  ASSUME NEW n \in Nat, NEW S, S \subseteq 1..n
  PROVE  NewestOf(S) \in 0..n
<1>1. CASE S = {}
  BY <1>1 DEF NewestOf
<1>2. CASE S # {}
  <2> DEFINE T == {m \in 0..n : n - m \in S}
  <2>1. PICK s \in S : TRUE
    BY <1>2
  <2>2. T \subseteq Nat /\ n - s \in T
    BY SMT
  <2>3. PICK m \in T : \A k \in T : m <= k
    BY Least, <2>2
  <2>4. n - m \in S /\ \A t \in S : t <= n - m
    <3>1. ASSUME NEW t \in S PROVE t <= n - m
      <4>1. n - t \in T
        BY SMT
      <4>2. QED BY SMT, <2>3, <4>1
    <3>2. QED BY <3>1
  <2>5. NewestOf(S) \in S
    BY <1>2, <2>4 DEF NewestOf
  <2>6. \A t \in 1..n : t \in 0..n
    BY SMT
  <2>7. QED BY Zenon, <2>5, <2>6
<1>3. QED BY <1>1, <1>2

-----------------------------------------------------------------------------
(* Publishers                                                              *)

USE DEF tableVars, readerVars, clientVars

(* A new event is later than all others, and its publisher has it.         *)
LEMMA AppendEventStep ==
  ASSUME BusInv, NEW p \in Publishers, AppendEvent(p)
  PROVE  BusInv'
<1>1. /\ last \in Nat /\ last' = last + 1 /\ log' = log \cup {last + 1}
      /\ visible' \in {visible, visible \cup {last + 1}}
      /\ pub' = [pub EXCEPT ![p] = [at |-> "append", seq |-> last + 1]]
      /\ UNCHANGED <<published, conn, ch, readerVars, clientVars, causes, connects>>
      /\ pub[p].at = "idle"
  BY DEF AppendEvent, BusInv, TypeOK
<1>2. visible \subseteq visible' /\ \A s \in visible' \ visible : s = last + 1
  BY <1>1
<1>3. \A s \in visible : s \in Nat /\ s <= last
  BY SMT, <1>1 DEF BusInv, TypeOK
<1>4. \A q \in Publishers \ {p} : pub'[q] = pub[q]
  BY <1>1
<1>5. pub'[p] = [at |-> "append", seq |-> last + 1] /\ pub'[p].seq = last + 1
  BY <1>1 DEF BusInv, TypeOK
<1>6. /\ \A q \in Publishers : Pending(q) => Pending(q)' /\ pub'[q].seq = pub[q].seq
      /\ \A q \in Publishers : Pending(q)' =>
           pub'[q].seq = last + 1 \/ (Pending(q) /\ pub'[q].seq = pub[q].seq)
      /\ \A s \in visible' \ visible : Pending(p)' /\ pub'[p].seq = s
  <2>1. \A q \in Publishers : Pending(q) => q # p /\ Pending(q)' /\ pub'[q].seq = pub[q].seq
    BY <1>1, <1>2, <1>4 DEF Pending
  <2>2. ASSUME NEW q \in Publishers, Pending(q)'
        PROVE  pub'[q].seq = last + 1 \/ (Pending(q) /\ pub'[q].seq = pub[q].seq)
    <3>1. q = p => pub'[q].seq = last + 1
      BY <1>5
    <3>2. q # p /\ pub[q].seq # last + 1 => Pending(q) /\ pub'[q].seq = pub[q].seq
      BY <1>1, <1>4, <2>2 DEF Pending
    <3>3. q # p => pub'[q].seq = pub[q].seq
      BY <1>4
    <3>4. QED BY Zenon, <3>1, <3>2, <3>3
  <2>3. ASSUME NEW s \in visible' \ visible PROVE Pending(p)' /\ pub'[p].seq = s
    BY <1>2, <1>5 DEF Pending
  <2>4. QED BY <2>1, <2>2, <2>3
<1>7. TypeOK'
  <2>1. /\ last' \in Nat /\ log' \in SUBSET (1 .. last') /\ visible' \in SUBSET (1 .. last')
    BY SMT, <1>1 DEF BusInv, TypeOK
  <2>2. pub' \in [Publishers -> [at : {"idle", "append", "prune"}, seq : Nat]]
    BY SMT, <1>1 DEF BusInv, TypeOK
  <2>3. QED BY <1>1, <2>1, <2>2 DEF BusInv, TypeOK
<1>8. Given'
  <2>1. \A q \in Publishers : pub'[q].at = "append" => pub'[q].seq \in 1..last'
    BY SMT, <1>1, <1>4, <1>5 DEF BusInv, Given
  <2>2. \A q \in Publishers \ {p} : pub[q].at = "append" => pub[q].seq # last + 1
    BY SMT, <1>1 DEF BusInv, Given
  <2>3. ASSUME NEW q \in Publishers, NEW r \in Publishers, pub'[q].at = "append", pub'[r] = pub'[q]
        PROVE  q = r
    <3>1. CASE q = p /\ r # p
      BY <1>4, <1>5, <2>2, <2>3, <3>1
    <3>2. CASE r = p /\ q # p
      BY <1>4, <1>5, <2>2, <2>3, <3>2
    <3>3. CASE q # p /\ r # p
      BY <1>4, <2>3, <3>3 DEF BusInv, Given
    <3>4. QED BY <3>1, <3>2, <3>3
  <2>4. QED BY <2>1, <2>3 DEF Given
<1>9. Places'
  BY SMT, <1>1, <1>2 DEF BusInv, Places, TypeOK
<1>10. Ordered'
  BY <1>1 DEF BusInv, Ordered, Increasing
<1>11. ASSUME causes' = {} PROVE StreamInv'
  <2>1. StreamInv
    BY <1>1, <1>11 DEF BusInv
  <2>2. /\ \A i \in 1..Len(ch) : ch[i] \in visible
        /\ hand \in visible \cup {0} /\ rows \subseteq visible
    BY DEF BusInv, Places
  <2>3. Sorted'
    <3>1. ASSUME NEW i \in 1..Len(ch), NEW q \in Publishers, Pending(q)' PROVE ch[i] < pub'[q].seq
      BY SMT, <1>1, <1>3, <1>6, <2>1, <2>2, <3>1 DEF StreamInv, Sorted
    <3>2. ASSUME hand # 0, NEW q \in Publishers, Pending(q)' PROVE hand < pub'[q].seq
      BY SMT, <1>1, <1>3, <1>6, <2>1, <2>2, <3>2 DEF StreamInv, Sorted
    <3>3. QED BY <1>1, <2>1, <3>1, <3>2 DEF StreamInv, Sorted, Increasing
  <2>4. OnItsWay => OnItsWay'
    BY <1>1, <1>6 DEF OnItsWay, In
  <2>5. ReplayFirst => ReplayFirst'
    <3>1. ASSUME ReplayFirst, NEW s \in visible' \ rows, lastSent < s, NEW r \in rows PROVE r < s
      BY SMT, <1>1, <1>2, <1>3, <2>2, <3>1 DEF ReplayFirst
    <3>2. QED BY <1>1, <3>1 DEF ReplayFirst
  <2>6. SentIsThere'
    BY SMT, <1>1, <1>2, <2>1 DEF StreamInv, SentIsThere, In, BusInv, TypeOK, Places
  <2>7. Lossless'
    BY SMT, <1>1, <1>2, <2>1 DEF StreamInv, Lossless, BusInv, TypeOK, Places
  <2>8. QED BY <1>1, <2>1, <2>3, <2>4, <2>5, <2>6, <2>7 DEF StreamInv
<1>12. QED BY <1>7, <1>8, <1>9, <1>10, <1>11 DEF BusInv

(* A publisher lets go of its event.                                       *)
LEMMA LetGo ==
  ASSUME BusInv, NEW p \in Publishers, NEW at \in {"idle", "prune"},
         pub' = [pub EXCEPT ![p] = [at |-> at, seq |-> 0]],
         UNCHANGED <<last, visible>>
  PROVE  /\ pub' \in [Publishers -> [at : {"idle", "append", "prune"}, seq : Nat]]
         /\ Given'
         /\ \A q \in Publishers : Pending(q)' <=> Pending(q) /\ q # p
         /\ \A q \in Publishers : Pending(q)' => pub'[q] = pub[q]
<1>1. pub'[p] = [at |-> at, seq |-> 0] /\ \A q \in Publishers \ {p} : pub'[q] = pub[q]
  BY DEF BusInv, TypeOK
<1>2. pub'[p].at # "append"
  BY <1>1
<1>3. pub' \in [Publishers -> [at : {"idle", "append", "prune"}, seq : Nat]]
  BY SMT DEF BusInv, TypeOK
<1>4. Given'
  BY <1>1, <1>2 DEF BusInv, Given
<1>5. \A q \in Publishers : Pending(q)' <=> Pending(q) /\ q # p
  BY <1>1, <1>2 DEF Pending
<1>6. QED BY <1>1, <1>3, <1>4, <1>5

(* An event that is fanned out joins the channel, unless it is another     *)
(* profile's or the stream is not attached.                                *)
LEMMA FanOutStep ==
  ASSUME BusInv, NEW p \in Publishers, FanOut(p)
  PROVE  BusInv'
<1> DEFINE s == pub[p].seq
<1>1. /\ pub[p].at = "append" /\ s \in 1..last /\ s \in Nat
      /\ UNCHANGED <<tableVars, conn, readerVars, clientVars, connects>>
  BY SMT DEF FanOut, BusInv, Given, TypeOK
<1>2. PICK at \in {"idle", "prune"} : pub' = [pub EXCEPT ![p] = [at |-> at, seq |-> 0]]
  BY DEF FanOut
<1>3. /\ pub' \in [Publishers -> [at : {"idle", "append", "prune"}, seq : Nat]]
      /\ Given'
      /\ \A q \in Publishers : Pending(q)' <=> Pending(q) /\ q # p
      /\ \A q \in Publishers : Pending(q)' => pub'[q] = pub[q]
  BY <1>1, <1>2, LetGo
<1>4. published' \in 0 .. PruneEvery - 1
  BY SMT, BusAssumption DEF FanOut, BusInv, TypeOK
<1>5. \/ ch' = ch /\ (attached /\ Pending(p) => causes' # {}) /\ (causes' = {} => causes = {})
      \/ attached /\ Pending(p) /\ HasRoom(ch) /\ ch' = Append(ch, s) /\ (causes' = {} => causes = {} /\ ~Overtakes(p))
  BY <1>1 DEF FanOut, Pending
<1>6. causes' \in SUBSET Causes
  BY DEF FanOut, Causes, BusInv, TypeOK
<1>7. /\ ch \in Seq(Nat) /\ Append(ch, s) \in Seq(Nat)
      /\ Len(Append(ch, s)) = Len(ch) + 1 /\ Len(ch) \in Nat
      /\ \A i \in 1..Len(ch) : Append(ch, s)[i] = ch[i]
      /\ Append(ch, s)[Len(ch) + 1] = s
      /\ \A t : In(t, Append(ch, s)) <=> In(t, ch) \/ t = s
      /\ Increasing(ch) /\ (\A i \in 1..Len(ch) : ch[i] < s) => Increasing(Append(ch, s))
  <2>1. ch \in Seq(Nat)
    BY DEF BusInv, TypeOK
  <2>2. QED BY <1>1, <2>1, AppendFacts
<1> HIDE DEF s
<1>8. TypeOK'
  <2>1. ch' \in Seq(Nat) /\ Len(ch') <= Cap
    <3>1. ch' = ch \/ (ch' = Append(ch, s) /\ Len(ch) < Cap)
      BY Zenon, <1>5 DEF HasRoom
    <3>2. Len(Append(ch, s)) = Len(ch) + 1 /\ Len(ch) \in Nat /\ Append(ch, s) \in Seq(Nat)
      BY <1>7
    <3>3. ch \in Seq(Nat) /\ Len(ch) <= Cap
      BY DEF BusInv, TypeOK
    <3>4. QED BY SMT, <3>1, <3>2, <3>3, BusAssumption
  <2>2. QED BY <1>1, <1>3, <1>4, <1>6, <2>1 DEF BusInv, TypeOK
<1>9. Places'
  <2>1. \A i \in 1..Len(ch') : ch'[i] \in visible
    <3>1. CASE ch' = ch
      BY <3>1 DEF BusInv, Places
    <3>2. CASE ch' = Append(ch, s) /\ Pending(p)
      <4>1. s \in visible
        BY <3>2 DEF Pending, s
      <4>2. ASSUME NEW i \in 1..Len(ch') PROVE i \in 1..Len(ch) \/ i = Len(ch) + 1
        BY SMT, <1>7, <3>2
      <4>3. QED BY <1>7, <3>2, <4>1, <4>2 DEF BusInv, Places
    <3>3. QED BY <1>5, <3>1, <3>2
  <2>2. conn \in {"off", "open"} => ch' = <<>>
    BY <1>5 DEF BusInv, Places, attached
  <2>3. QED BY <1>1, <2>1, <2>2 DEF BusInv, Places
<1>10. Ordered'
  BY <1>1 DEF BusInv, Ordered, Increasing
<1>11. ASSUME causes' = {} PROVE StreamInv'
  <2>1. StreamInv
    BY <1>5, <1>11 DEF BusInv
  <2>2. SentIsThere' /\ Lossless' /\ (ReplayFirst => ReplayFirst')
    BY <1>1, <2>1 DEF StreamInv, SentIsThere, Lossless, ReplayFirst, In
  <2>3. CASE ch' = ch /\ (attached => ~Pending(p))
    <3>1. Sorted'
      BY <1>1, <1>3, <2>1, <2>3 DEF StreamInv, Sorted, Increasing
    <3>2. attached /\ OnItsWay => OnItsWay'
      BY <1>1, <1>3, <2>3 DEF OnItsWay, In
    <3>3. QED BY <1>1, <2>1, <2>2, <3>1, <3>2 DEF StreamInv, attached
  <2>4. CASE attached /\ Pending(p) /\ ch' = Append(ch, s) /\ ~Overtakes(p)
    <3>1. \A q \in Publishers : Pending(q)' => s < pub'[q].seq
      <4>1. ASSUME NEW q \in Publishers, Pending(q)' PROVE s < pub'[q].seq
        <5>1. Pending(q) /\ q # p /\ pub'[q] = pub[q]
          BY <1>3, <4>1
        <5>2. ~(pub[q].seq < s)
          BY <2>4, <5>1 DEF Overtakes, Pending, s
        <5>3. pub[q].seq # s
          <6>1. ASSUME pub[q].seq = s PROVE FALSE
            <7>1. pub[q] = pub[p]
              <8>1. pub[q].at = pub[p].at /\ pub[q].seq = pub[p].seq
                BY <1>1, <5>1, <6>1 DEF Pending, s
              <8>2. pub[q] \in [at : {"idle", "append", "prune"}, seq : Nat] /\ pub[p] \in [at : {"idle", "append", "prune"}, seq : Nat]
                BY DEF BusInv, TypeOK
              <8>3. QED BY SMT, <8>1, <8>2
            <7>2. QED BY <1>1, <5>1, <7>1 DEF BusInv, Given
          <6>2. QED BY <6>1
        <5>4. pub[q].seq \in Nat
          BY DEF BusInv, TypeOK
        <5>5. QED BY SMT, <1>1, <5>1, <5>2, <5>3, <5>4 DEF s
      <4>2. QED BY <4>1
    <3>2. \A i \in 1..Len(ch) : ch[i] < s
      BY <2>1, <2>4 DEF StreamInv, Sorted, s
    <3>3. hand # 0 => hand < s
      BY <2>1, <2>4 DEF StreamInv, Sorted, s
    <3>4. \A i \in 1..Len(ch') : (i \in 1..Len(ch) /\ ch'[i] = ch[i]) \/ ch'[i] = s
      <4>1. ASSUME NEW i \in 1..Len(ch') PROVE i \in 1..Len(ch) \/ i = Len(ch) + 1
        BY SMT, <1>7, <2>4
      <4>2. QED BY <1>7, <2>4, <4>1
    <3>5. Sorted'
      <4>1. Increasing(ch')
        BY <1>7, <2>1, <2>4, <3>2 DEF StreamInv, Sorted
      <4>2. ASSUME NEW i \in 1..Len(ch'), NEW q \in Publishers, Pending(q)' PROVE ch'[i] < pub'[q].seq
        BY <1>3, <2>1, <3>1, <3>4, <4>2 DEF StreamInv, Sorted
      <4>3. ASSUME hand # 0, NEW q \in Publishers, Pending(q)' PROVE hand < pub'[q].seq
        BY <1>3, <2>1, <4>3 DEF StreamInv, Sorted
      <4>4. ASSUME hand # 0, NEW i \in 1..Len(ch') PROVE hand < ch'[i]
        BY <2>1, <3>3, <3>4, <4>4 DEF StreamInv, Sorted
      <4>5. QED BY <1>1, <4>1, <4>2, <4>3, <4>4 DEF Sorted, Increasing
    <3>6. OnItsWay => OnItsWay'
      <4>1. ASSUME OnItsWay, NEW t \in visible, lastSent < t
            PROVE  \/ t \in rows \/ t = hand \/ In(t, ch')
                   \/ \E q \in Publishers : Pending(q)' /\ pub'[q].seq = t
        <5>1. CASE t \in rows \/ t = hand \/ In(t, ch)
          BY <1>7, <2>4, <5>1
        <5>2. CASE \E q \in Publishers : Pending(q) /\ pub[q].seq = t
          <6>1. PICK q \in Publishers : Pending(q) /\ pub[q].seq = t
            BY <5>2
          <6>2. CASE q = p
            BY <1>7, <2>4, <6>1, <6>2 DEF s
          <6>3. CASE q # p
            BY <1>3, <6>1, <6>3
          <6>4. QED BY <6>2, <6>3
        <5>3. QED BY <4>1, <5>1, <5>2 DEF OnItsWay
      <4>2. QED BY <1>1, <4>1 DEF OnItsWay, In
    <3>7. QED BY <1>1, <2>1, <2>2, <3>5, <3>6 DEF StreamInv
  <2>5. QED BY <1>5, <1>11, <2>3, <2>4
<1>12. QED BY <1>3, <1>8, <1>9, <1>10, <1>11 DEF BusInv

(* Pruning takes rows of the log only; a replay that misses them is a cause. *)
LEMMA PruneStep ==
  ASSUME BusInv, NEW p \in Publishers, Prune(p)
  PROVE  BusInv'
<1>1. /\ pub[p].at = "prune" /\ log' \subseteq log
      /\ pub' = [pub EXCEPT ![p] = [at |-> "idle", seq |-> 0]]
      /\ UNCHANGED <<last, visible, published, conn, ch, readerVars, clientVars, causes, connects>>
  BY DEF Prune, Kept
<1>2. /\ pub' \in [Publishers -> [at : {"idle", "append", "prune"}, seq : Nat]]
      /\ Given'
      /\ \A q \in Publishers : Pending(q)' <=> Pending(q) /\ q # p
      /\ \A q \in Publishers : Pending(q)' => pub'[q] = pub[q]
  BY <1>1, LetGo
<1>3. ~Pending(p)
  BY <1>1 DEF Pending
<1>4. TypeOK' /\ Places' /\ Ordered'
  BY <1>1, <1>2 DEF BusInv, TypeOK, Places, Ordered, Increasing
<1>5. StreamInv => StreamInv'
  <2>1. Sorted => Sorted'
    BY <1>1, <1>2 DEF Sorted, Increasing
  <2>2. OnItsWay => OnItsWay'
    BY <1>1, <1>2, <1>3 DEF OnItsWay, In
  <2>3. (SentIsThere => SentIsThere') /\ (Lossless => Lossless') /\ (ReplayFirst => ReplayFirst')
    BY <1>1 DEF SentIsThere, Lossless, ReplayFirst, In
  <2>4. QED BY <1>1, <2>1, <2>2, <2>3 DEF StreamInv
<1>6. QED BY <1>1, <1>2, <1>4, <1>5 DEF BusInv

-----------------------------------------------------------------------------
(* The stream                                                              *)

(* A connection starts from the id the client holds.                       *)
LEMMA ConnectStep ==
  ASSUME BusInv, Connect
  PROVE  BusInv'
<1>1. /\ conn = "off" /\ conn' = "open"
      /\ lastSent' \in Since
      /\ start' = IF lastId # 0 THEN start ELSE lastSent'
      /\ UNCHANGED <<tableVars, pub, published, ch, rows, hand, out, lastId, received, causes>>
      /\ connects' = connects + 1
  BY DEF Connect
<1>2. lastSent' \in Nat /\ lastId <= lastSent' /\ lastSent' <= last /\ (lastId # 0 => lastSent' = lastId)
  <2>1. NewestOf(log) \in Nat /\ NewestOf(log) <= last
    <3>1. NewestOf(log) \in 0..last
      BY NewestFacts DEF BusInv, TypeOK
    <3>2. QED BY SMT, <3>1 DEF BusInv, TypeOK
  <2>2. lastId \in Nat /\ last \in Nat /\ lastId <= last
    BY DEF BusInv, TypeOK, Places
  <2>3. QED BY SMT, <1>1, <2>1, <2>2 DEF Since
<1>3. ch = <<>> /\ rows = {} /\ hand = 0 /\ out = <<>>
  BY <1>1 DEF BusInv, Places
<1>4. TypeOK' /\ Given'
  BY SMT, <1>1, <1>2 DEF BusInv, TypeOK, Given
<1>5. Places' /\ Ordered'
  BY SMT, <1>1, <1>2, <1>3 DEF BusInv, Places, Ordered, Increasing
<1>6. ASSUME causes' = {} PROVE StreamInv'
  <2>1. Sorted /\ SentIsThere /\ Lossless
    BY <1>1, <1>6 DEF BusInv, StreamInv
  <2>2. Sorted'
    BY <1>1, <2>1 DEF Sorted, Increasing, Pending
  <2>3. \A s \in visible : s \in Nat
    BY SMT DEF BusInv, TypeOK
  <2>4. SentIsThere'
    <3>1. CASE lastId # 0
      BY <1>1, <1>2, <2>1, <3>1 DEF SentIsThere, Lossless
    <3>2. CASE lastId = 0
      BY SMT, <1>1, <1>2, <2>3, <3>2 DEF SentIsThere
    <3>3. QED BY <3>1, <3>2
  <2>5. Lossless'
    <3>1. CASE lastId # 0
      BY <1>1, <2>1, <3>1 DEF Lossless
    <3>2. CASE lastId = 0
      BY SMT, <1>1, <1>2, <2>3, <3>2 DEF Lossless
    <3>3. QED BY <3>1, <3>2
  <2>6. QED BY <1>1, <2>2, <2>4, <2>5 DEF StreamInv
<1>7. QED BY <1>4, <1>5, <1>6 DEF BusInv

(* From here on what is fanned out is in the channel.                      *)
LEMMA AttachStep ==
  ASSUME BusInv, Attach
  PROVE  BusInv'
<1>1. /\ conn = "open" /\ conn' = "query"
      /\ UNCHANGED <<tableVars, pub, published, ch, readerVars, clientVars, causes, connects>>
  BY DEF Attach
<1>2. TypeOK' /\ Given' /\ Places' /\ Ordered'
  BY <1>1 DEF BusInv, TypeOK, Given, Places, Ordered, Increasing
<1>3. StreamInv => StreamInv'
  BY <1>1 DEF StreamInv, Sorted, SentIsThere, Lossless, Increasing, Pending, In
<1>4. QED BY <1>1, <1>2, <1>3 DEF BusInv

(* The query finds all that was not sent, or endangers the stream.         *)
LEMMA QueryStep ==
  ASSUME BusInv, Query
  PROVE  BusInv'
<1>1. /\ conn = "query" /\ conn' = "replay"
      /\ UNCHANGED <<tableVars, pub, published, ch, hand, lastSent, out, clientVars, connects>>
  BY DEF Query
<1>2. rows' \subseteq visible /\ \A r \in rows' : lastSent < r
  BY DEF Query, Oldest, Backlog
<1>3. causes' \in SUBSET Causes
  BY DEF Query, Causes, BusInv, TypeOK
<1>4. causes' = {} => causes = {} /\ rows' = {s \in visible : s > lastSent}
  BY DEF Query
<1>5. hand = 0
  BY <1>1 DEF BusInv, Places
<1>6. TypeOK'
  <2>1. rows' \in SUBSET Nat
    BY SMT, <1>2 DEF BusInv, TypeOK
  <2>2. QED BY <1>1, <1>3, <2>1 DEF BusInv, TypeOK
<1>7. Given' /\ Places' /\ Ordered'
  BY <1>1, <1>2, <1>5 DEF BusInv, Given, Places, Ordered, Increasing
<1>8. ASSUME causes' = {} PROVE StreamInv'
  <2>1. Sorted /\ SentIsThere /\ Lossless
    BY <1>4, <1>8 DEF BusInv, StreamInv
  <2>2. Sorted' /\ SentIsThere' /\ Lossless'
    BY <1>1, <2>1 DEF Sorted, SentIsThere, Lossless, Increasing, Pending, In
  <2>3. \A s \in visible : s \in Nat
    BY SMT DEF BusInv, TypeOK
  <2>4. \A s \in visible : lastSent < s => s \in rows'
    BY <1>4, <1>8
  <2>5. OnItsWay' /\ ReplayFirst'
    BY <1>1, <2>4 DEF OnItsWay, ReplayFirst
  <2>6. QED BY <2>2, <2>5 DEF StreamInv
<1>9. QED BY <1>6, <1>7, <1>8 DEF BusInv

(* What is sent is the next event.                                         *)
LEMMA Sends ==
  ASSUME BusInv, NEW n \in visible, lastSent < n, conn # "off",
         out' = Append(out, n), lastSent' = n,
         UNCHANGED <<last, visible, lastId, received, start>>
  PROVE  /\ out' \in Seq(Nat) /\ Len(out') = Len(out) + 1 /\ lastSent' \in Nat /\ lastSent' <= last
         /\ Increasing(out)' /\ \A i \in 1..Len(out') : lastId < out'[i] /\ out'[i] <= n
         /\ lastId < n
         /\ StreamInv /\ (\A s \in visible : lastSent < s => n <= s) => SentIsThere' /\ Lossless'
<1>1. /\ n \in Nat /\ n <= last /\ lastSent \in Nat /\ lastId \in Nat /\ out \in Seq(Nat)
      /\ \A s \in visible : s \in Nat
  BY SMT DEF BusInv, TypeOK
<1>2. /\ Append(out, n) \in Seq(Nat) /\ Len(Append(out, n)) = Len(out) + 1 /\ Len(out) \in Nat
      /\ \A i \in 1..Len(out) : Append(out, n)[i] = out[i]
      /\ Append(out, n)[Len(out) + 1] = n
      /\ \A t : In(t, Append(out, n)) <=> In(t, out) \/ t = n
      /\ Increasing(out) /\ (\A i \in 1..Len(out) : out[i] < n) => Increasing(Append(out, n))
  BY <1>1, AppendFacts
<1>3. /\ Increasing(out) /\ \A i \in 1..Len(out) : lastId < out[i] /\ out[i] <= lastSent /\ out[i] \in Nat
      /\ lastId <= lastSent
  BY <1>1 DEF BusInv, Ordered
<1>4. \A i \in 1..Len(out) : out[i] < n
  BY SMT, <1>1, <1>3
<1>5. lastId < n
  BY SMT, <1>1, <1>3
<1>6. \A i \in 1..Len(Append(out, n)) : i \in 1..Len(out) \/ i = Len(out) + 1
  BY SMT, <1>2
<1>7. /\ Increasing(out)' /\ out' \in Seq(Nat) /\ Len(out') = Len(out) + 1
  BY <1>2, <1>3, <1>4 DEF Increasing
<1>8. ASSUME StreamInv, \A s \in visible : lastSent < s => n <= s
      PROVE  SentIsThere' /\ Lossless'
  <2>1. ASSUME NEW s \in visible, start < s, s <= n PROVE s \in received \/ In(s, out')
    <3>1. s <= lastSent \/ s = n
      BY SMT, <1>1, <1>8, <2>1
    <3>2. QED BY <1>2, <1>8, <2>1, <3>1 DEF StreamInv, SentIsThere
  <2>2. SentIsThere'
    BY <2>1 DEF SentIsThere, In
  <2>3. QED BY <1>8, <2>2 DEF StreamInv, Lossless
<1>9. ASSUME NEW i \in 1..Len(out') PROVE lastId < out'[i] /\ out'[i] <= n
  <2>1. CASE i \in 1..Len(out)
    BY SMT, <1>1, <1>2, <1>3, <1>4, <2>1
  <2>2. CASE i = Len(out) + 1
    BY SMT, <1>1, <1>2, <1>5, <2>2
  <2>3. QED BY <1>6, <2>1, <2>2
<1>10. QED BY <1>1, <1>5, <1>7, <1>8, <1>9

(* What the replay sends comes before all that is left.                    *)
LEMMA ReplayStep ==
  ASSUME BusInv, Replay
  PROVE  BusInv'
<1>1. /\ conn = "replay"
      /\ UNCHANGED <<tableVars, pub, published, ch, clientVars, causes, connects>>
  BY DEF Replay
<1>2. hand = 0 /\ rows \subseteq visible /\ rows \subseteq Nat
  BY SMT, <1>1 DEF BusInv, Places, TypeOK
<1>3. CASE rows = {}
  <2>1. conn' = "live" /\ UNCHANGED readerVars
    BY <1>3 DEF Replay
  <2>2. TypeOK' /\ Given' /\ Places' /\ Ordered'
    BY <1>1, <1>2, <1>3, <2>1 DEF BusInv, TypeOK, Given, Places, Ordered, Increasing
  <2>3. StreamInv => StreamInv'
    BY <1>1, <2>1 DEF StreamInv, Sorted, OnItsWay, SentIsThere, Lossless, Increasing, Pending, In
  <2>4. QED BY <1>1, <2>2, <2>3 DEF BusInv
<1>4. CASE rows # {}
  <2> DEFINE n == OldestOf(rows)
  <2>1. n \in rows /\ \A r \in rows : n <= r
    BY <1>2, <1>4, OldestFacts
  <2>2. /\ HasRoom(out) /\ out' = Append(out, n) /\ lastSent' = n /\ rows' = rows \ {n}
        /\ UNCHANGED <<conn, hand>>
    BY <1>4 DEF Replay
  <2> HIDE DEF n
  <2>3. n \in visible /\ lastSent < n
    BY <1>2, <2>1 DEF BusInv, Ordered
  <2>4. /\ out' \in Seq(Nat) /\ Len(out') = Len(out) + 1 /\ lastSent' \in Nat /\ lastSent' <= last
        /\ Increasing(out)' /\ \A i \in 1..Len(out') : lastId < out'[i] /\ out'[i] <= n
        /\ lastId < n
        /\ StreamInv /\ (\A s \in visible : lastSent < s => n <= s) => SentIsThere' /\ Lossless'
    BY <1>1, <2>2, <2>3, Sends
  <2>5. TypeOK'
    <3>1. Len(out') <= Cap
      BY SMT, <2>2, <2>4, BusAssumption DEF HasRoom, BusInv, TypeOK
    <3>2. rows' \in SUBSET Nat
      BY <1>2, <2>2
    <3>3. QED BY <1>1, <2>2, <2>4, <3>1, <3>2 DEF BusInv, TypeOK
  <2>6. \A r \in rows' : n < r
    BY SMT, <1>2, <2>1, <2>2
  <2>7. Given' /\ Places'
    BY <1>1, <1>2, <2>2, <2>4 DEF BusInv, Given, Places
  <2>8. Ordered'
    <3>1. lastId' <= lastSent'
      BY SMT, <1>1, <2>2, <2>4 DEF BusInv, TypeOK
    <3>2. QED BY <1>1, <1>2, <2>2, <2>4, <2>6, <3>1 DEF Ordered
  <2>9. ASSUME causes' = {} PROVE StreamInv'
    <3>1. StreamInv /\ OnItsWay /\ ReplayFirst
      BY <1>1, <2>9 DEF BusInv, StreamInv
    <3>2. \A s \in visible : s \in Nat
      BY SMT DEF BusInv, TypeOK
    <3>3. \A s \in visible : lastSent < s => n <= s
      BY SMT, <2>1, <2>3, <3>1, <3>2 DEF ReplayFirst
    <3>4. SentIsThere' /\ Lossless'
      BY <2>4, <3>1, <3>3
    <3>5. Sorted'
      BY <1>1, <2>2, <3>1 DEF StreamInv, Sorted, Increasing, Pending
    <3>6. \A s \in visible : n < s => lastSent < s /\ s # n
      BY SMT, <2>3, <3>2 DEF BusInv, TypeOK
    <3>7. OnItsWay'
      <4>1. ASSUME NEW s \in visible, n < s
            PROVE  s \in rows' \/ s = hand \/ In(s, ch) \/ \E p \in Publishers : Pending(p) /\ pub[p].seq = s
        BY <2>2, <3>1, <3>6, <4>1 DEF OnItsWay
      <4>2. QED BY <1>1, <2>2, <4>1 DEF OnItsWay, In, Pending
    <3>8. ReplayFirst'
      <4>1. ASSUME NEW s \in visible \ rows', n < s, NEW r \in rows' PROVE r < s
        BY <2>2, <3>1, <3>6, <4>1 DEF ReplayFirst
      <4>2. QED BY <1>1, <2>2, <4>1 DEF ReplayFirst
    <3>9. QED BY <1>1, <2>2, <3>4, <3>5, <3>7, <3>8 DEF StreamInv
  <2>10. QED BY <2>5, <2>7, <2>8, <2>9 DEF BusInv
<1>5. QED BY <1>3, <1>4

(* The head of the channel is the next event, or was replayed.             *)
LEMMA TakeLiveStep ==
  ASSUME BusInv, TakeLive
  PROVE  BusInv'
<1> DEFINE h == Head(ch)
<1>1. /\ conn = "live" /\ hand = 0 /\ ch # <<>> /\ ch' = Tail(ch)
      /\ hand' = IF h <= lastSent THEN 0 ELSE h
      /\ UNCHANGED <<tableVars, pub, published, conn, rows, lastSent, out, clientVars, causes, connects>>
  BY DEF TakeLive, Sent
<1>2. /\ Tail(ch) \in Seq(Nat) /\ Len(ch) \in Nat /\ Len(Tail(ch)) = Len(ch) - 1
      /\ h = ch[1] /\ 1 \in 1..Len(ch)
      /\ \A i \in 1..Len(Tail(ch)) : i + 1 \in 1..Len(ch) /\ Tail(ch)[i] = ch[i + 1]
      /\ \A t : In(t, ch) <=> t = h \/ In(t, Tail(ch))
      /\ Increasing(ch) => Increasing(Tail(ch)) /\ \A i \in 1..Len(Tail(ch)) : h < Tail(ch)[i]
  <2>1. ch \in Seq(Nat)
    BY DEF BusInv, TypeOK
  <2>2. QED BY <1>1, <2>1, TailFacts
<1> HIDE DEF h
<1>3. h \in visible /\ h \in Nat /\ lastSent \in Nat /\ rows = {}
  BY SMT, <1>1, <1>2 DEF BusInv, Places, TypeOK
<1>4. hand' \in visible \cup {0} /\ hand' \in Nat /\ (hand' # 0 => hand' = h /\ lastSent < h)
  BY SMT, <1>1, <1>3
<1>5. TypeOK'
  <2>1. Len(Tail(ch)) <= Cap
    BY SMT, <1>2, BusAssumption DEF BusInv, TypeOK
  <2>2. QED BY <1>1, <1>2, <1>4, <2>1 DEF BusInv, TypeOK
<1>6. Given' /\ Places' /\ Ordered'
  <2>1. \A i \in 1..Len(ch') : ch'[i] \in visible
    BY <1>1, <1>2 DEF BusInv, Places
  <2>2. Given' /\ Places'
    BY <1>1, <1>4, <2>1 DEF BusInv, Given, Places
  <2>3. Ordered'
    BY <1>1, <1>4 DEF BusInv, Ordered, Increasing
  <2>4. QED BY <2>2, <2>3
<1>7. ASSUME causes' = {} PROVE StreamInv'
  <2>1. StreamInv /\ OnItsWay /\ Sorted
    BY <1>1, <1>7 DEF BusInv, StreamInv
  <2>2. SentIsThere' /\ Lossless'
    BY <1>1, <2>1 DEF StreamInv, SentIsThere, Lossless, In
  <2>3. Sorted'
    <3>1. Increasing(Tail(ch)) /\ \A i \in 1..Len(Tail(ch)) : h < Tail(ch)[i]
      BY <1>2, <2>1 DEF Sorted
    <3>2. \A i \in 1..Len(Tail(ch)), p \in Publishers : Pending(p) => Tail(ch)[i] < pub[p].seq
      BY <1>2, <2>1 DEF Sorted
    <3>3. \A p \in Publishers : Pending(p) => h < pub[p].seq
      BY <1>2, <2>1 DEF Sorted
    <3>4. QED BY <1>1, <1>4, <3>1, <3>2, <3>3 DEF Sorted, Increasing, Pending
  <2>4. OnItsWay'
    <3>1. ASSUME NEW s \in visible, lastSent < s
          PROVE  s = hand' \/ In(s, Tail(ch)) \/ \E p \in Publishers : Pending(p) /\ pub[p].seq = s
      <4>1. s = h => s = hand'
        BY SMT, <1>1, <1>3, <3>1
      <4>2. s # hand
        BY SMT, <1>1, <1>3, <3>1
      <4>3. QED BY <1>2, <1>3, <2>1, <3>1, <4>1, <4>2 DEF OnItsWay
    <3>2. QED BY <1>1, <3>1 DEF OnItsWay, In, Pending
  <2>5. QED BY <1>1, <2>2, <2>3, <2>4 DEF StreamInv
<1>8. QED BY <1>5, <1>6, <1>7 DEF BusInv

(* What is taken from the channel comes after all that was sent.           *)
LEMMA SendLiveStep ==
  ASSUME BusInv, SendLive
  PROVE  BusInv'
<1>1. /\ conn = "live" /\ hand # 0 /\ HasRoom(out)
      /\ out' = Append(out, hand) /\ lastSent' = hand /\ hand' = 0
      /\ UNCHANGED <<tableVars, pub, published, conn, ch, rows, clientVars, causes, connects>>
  BY DEF SendLive
<1>2. hand \in visible /\ lastSent < hand /\ rows = {}
  BY <1>1 DEF BusInv, Places, Ordered
<1>3. /\ out' \in Seq(Nat) /\ Len(out') = Len(out) + 1 /\ lastSent' \in Nat /\ lastSent' <= last
      /\ Increasing(out)' /\ \A i \in 1..Len(out') : lastId < out'[i] /\ out'[i] <= hand
      /\ lastId < hand
      /\ StreamInv /\ (\A s \in visible : lastSent < s => hand <= s) => SentIsThere' /\ Lossless'
  BY <1>1, <1>2, Sends
<1>4. TypeOK'
  <2>1. Len(out') <= Cap
    BY SMT, <1>1, <1>3, BusAssumption DEF HasRoom, BusInv, TypeOK
  <2>2. QED BY <1>1, <1>3, <2>1 DEF BusInv, TypeOK
<1>5. Given' /\ Places'
  BY <1>1, <1>2, <1>3 DEF BusInv, Given, Places
<1>6. Ordered'
  <2>1. lastId' <= lastSent'
    BY SMT, <1>1, <1>3 DEF BusInv, TypeOK
  <2>2. QED BY <1>1, <1>2, <1>3, <2>1 DEF Ordered
<1>7. ASSUME causes' = {} PROVE StreamInv'
  <2>1. StreamInv /\ OnItsWay /\ Sorted
    BY <1>1, <1>7 DEF BusInv, StreamInv
  <2>2. \A s \in visible : s \in Nat
    BY SMT DEF BusInv, TypeOK
  <2>3. ASSUME NEW s \in visible, lastSent < s PROVE hand <= s /\ (s # hand => hand < s)
    <3>1. In(s, ch) => hand < s
      BY Zenon, <1>1, <2>1 DEF In, Sorted
    <3>2. (\E p \in Publishers : Pending(p) /\ pub[p].seq = s) => hand < s
      BY Zenon, <1>1, <2>1 DEF Sorted
    <3>3. s # hand => hand < s
      BY Zenon, <1>2, <2>1, <2>3, <3>1, <3>2 DEF OnItsWay
    <3>4. QED BY SMT, <1>2, <2>2, <3>3
  <2>4. SentIsThere' /\ Lossless'
    BY <1>3, <2>1, <2>3
  <2>5. Sorted'
    BY <1>1, <2>1 DEF Sorted, Increasing, Pending
  <2>6. OnItsWay'
    <3>1. \A s \in visible : hand < s => lastSent < s /\ s # hand
      BY SMT, <1>2, <2>2 DEF BusInv, TypeOK
    <3>2. ASSUME NEW s \in visible, hand < s
          PROVE  In(s, ch) \/ \E p \in Publishers : Pending(p) /\ pub[p].seq = s
      BY <1>2, <2>1, <3>1, <3>2 DEF OnItsWay
    <3>3. QED BY <1>1, <3>2 DEF OnItsWay, In, Pending
  <2>7. QED BY <1>1, <2>4, <2>5, <2>6 DEF StreamInv
<1>8. QED BY <1>4, <1>5, <1>6, <1>7 DEF BusInv

(* What is received is the first that was sent.                            *)
LEMMA ReceiveStep ==
  ASSUME BusInv, Receive
  PROVE  BusInv' /\ lastId < lastId'
<1> DEFINE h == Head(out)
<1>1. /\ attached /\ out # <<>> /\ out' = Tail(out) /\ lastId' = h
      /\ received' = received \cup {h}
      /\ UNCHANGED <<tableVars, pub, published, conn, ch, rows, hand, lastSent, start, causes, connects>>
  BY DEF Receive
<1>2. /\ Tail(out) \in Seq(Nat) /\ Len(out) \in Nat /\ Len(Tail(out)) = Len(out) - 1
      /\ h = out[1] /\ 1 \in 1..Len(out)
      /\ \A i \in 1..Len(Tail(out)) : i + 1 \in 1..Len(out) /\ Tail(out)[i] = out[i + 1]
      /\ \A t : In(t, out) <=> t = h \/ In(t, Tail(out))
      /\ Increasing(out) => Increasing(Tail(out)) /\ \A i \in 1..Len(Tail(out)) : h < Tail(out)[i]
  <2>1. out \in Seq(Nat)
    BY DEF BusInv, TypeOK
  <2>2. QED BY <1>1, <2>1, TailFacts
<1> HIDE DEF h
<1>3. lastId < h /\ h <= lastSent /\ h \in Nat
  <2>1. out \in Seq(Nat)
    BY DEF BusInv, TypeOK
  <2>2. h \in Nat
    BY <1>2, <2>1
  <2>3. QED BY <1>2, <2>2 DEF BusInv, Ordered
<1>4. conn \in {"query", "replay", "live"} /\ conn # "query"
  BY <1>1 DEF attached, BusInv, Places
<1>5. /\ Increasing(out)' /\ \A i \in 1..Len(out') : h < out'[i] /\ out'[i] <= lastSent
  <2>1. Increasing(Tail(out)) /\ \A i \in 1..Len(Tail(out)) : h < Tail(out)[i]
    BY <1>2 DEF BusInv, Ordered
  <2>2. \A i \in 1..Len(Tail(out)) : Tail(out)[i] <= lastSent
    BY <1>2 DEF BusInv, Ordered
  <2>3. QED BY <1>1, <2>1, <2>2 DEF Increasing
<1>6. TypeOK'
  <2>1. Len(Tail(out)) <= Cap
    BY SMT, <1>2, BusAssumption DEF BusInv, TypeOK
  <2>2. received' \in SUBSET Nat
    BY <1>1, <1>3 DEF BusInv, TypeOK
  <2>3. QED BY <1>1, <1>2, <1>3, <2>1, <2>2 DEF BusInv, TypeOK
<1>7. Given' /\ Places'
  <2>1. h <= last
    BY SMT, <1>3 DEF BusInv, Places, TypeOK
  <2>2. QED BY <1>1, <1>4, <2>1 DEF BusInv, Given, Places
<1>8. Ordered'
  BY <1>1, <1>3, <1>5 DEF BusInv, Ordered
<1>9. ASSUME causes' = {} PROVE StreamInv'
  <2>1. StreamInv /\ SentIsThere
    BY <1>1, <1>9 DEF BusInv, StreamInv
  <2>2. SentIsThere'
    BY <1>1, <1>2, <2>1 DEF SentIsThere, In
  <2>3. Lossless'
    <3>1. ASSUME NEW s \in visible, start < s, s <= h PROVE s \in received \cup {h}
      <4>1. s \in Nat /\ lastSent \in Nat
        BY SMT DEF BusInv, TypeOK
      <4>2. s <= lastSent
        BY SMT, <1>3, <3>1, <4>1
      <4>3. ~In(s, Tail(out))
        BY SMT, <1>1, <1>3, <1>5, <3>1, <4>1 DEF In
      <4>4. QED BY <1>2, <2>1, <3>1, <4>2, <4>3 DEF SentIsThere
    <3>2. QED BY <1>1, <3>1 DEF Lossless
  <2>4. Sorted' /\ (OnItsWay => OnItsWay') /\ (ReplayFirst => ReplayFirst')
    BY <1>1, <2>1 DEF StreamInv, Sorted, OnItsWay, ReplayFirst, Increasing, Pending, In
  <2>5. QED BY <1>1, <2>1, <2>2, <2>3, <2>4 DEF StreamInv
<1>10. QED BY <1>1, <1>3, <1>6, <1>7, <1>8, <1>9 DEF BusInv

(* Nothing is on its way any more, and nothing that was received is lost.  *)
LEMMA Detaches ==
  ASSUME BusInv, Detach, Given',
         pub' \in [Publishers -> [at : {"idle", "append", "prune"}, seq : Nat]],
         published' \in 0 .. PruneEvery - 1
  PROVE  BusInv'
<1>1. /\ conn' = "off" /\ ch' = <<>> /\ rows' = {} /\ hand' = 0 /\ lastSent' = 0 /\ out' = <<>>
      /\ UNCHANGED <<tableVars, clientVars, causes, connects>>
  BY DEF Detach
<1>2. <<>> \in Seq(Nat) /\ Len(<<>>) = 0 /\ 1..0 = {}
  OBVIOUS
<1>3. TypeOK'
  BY SMT, <1>1, <1>2, BusAssumption DEF BusInv, TypeOK
<1>4. Places' /\ Ordered'
  BY SMT, <1>1, <1>2 DEF BusInv, TypeOK, Places, Ordered, Increasing
<1>5. \A s \in visible : s \in Nat /\ s # 0
  BY SMT DEF BusInv, TypeOK
<1>6. ASSUME causes' = {} PROVE StreamInv'
  <2>1. Lossless
    BY <1>1, <1>6 DEF BusInv, StreamInv
  <2>2. Sorted'
    BY <1>1, <1>2 DEF Sorted, Increasing
  <2>3. SentIsThere'
    BY SMT, <1>1, <1>5 DEF SentIsThere
  <2>4. Lossless'
    BY <1>1, <2>1 DEF Lossless
  <2>5. QED BY <1>1, <2>2, <2>3, <2>4 DEF StreamInv
<1>7. QED BY <1>3, <1>4, <1>6 DEF BusInv

(* What was on its way is asked for again by the next connection.          *)
LEMMA DisconnectStep ==
  ASSUME BusInv, Disconnect
  PROVE  BusInv'
<1>1. Detach /\ UNCHANGED <<pub, published, last>>
  BY DEF Disconnect, Detach
<1>2. Given'
  BY <1>1 DEF BusInv, Given
<1>3. QED BY <1>1, <1>2, Detaches DEF BusInv, TypeOK

(* A process that ends forgets its channels; what was appended stays.      *)
LEMMA RestartStep ==
  ASSUME BusInv, Restart
  PROVE  BusInv'
<1>1. /\ Detach /\ published' = 0
      /\ pub' = [p \in Publishers |-> [at |-> "idle", seq |-> 0]]
  BY DEF Restart
<1>2. /\ pub' \in [Publishers -> [at : {"idle", "append", "prune"}, seq : Nat]]
      /\ \A p \in Publishers : pub'[p].at = "idle"
  BY SMT, <1>1
<1>3. Given'
  BY <1>2 DEF Given
<1>4. published' \in 0 .. PruneEvery - 1
  BY SMT, <1>1, BusAssumption
<1>5. QED BY <1>1, <1>2, <1>3, <1>4, Detaches

-----------------------------------------------------------------------------
(* The theorems                                                            *)

(* Nothing is published or asked for at first.                             *)
LEMMA InitInv == Init => BusInv
<1> SUFFICES ASSUME Init PROVE BusInv
  OBVIOUS
<1>1. /\ <<>> \in Seq(Nat) /\ Len(<<>>) = 0 /\ 1..0 = {}
  OBVIOUS
<1>2. TypeOK
  BY SMT, <1>1, BusAssumption DEF Init, TypeOK
<1>3. \A p \in Publishers : pub[p].at = "idle"
  BY DEF Init
<1>4. Given
  BY <1>3 DEF Given
<1>5. Places /\ Ordered
  BY SMT, <1>1 DEF Init, Places, Ordered, Increasing
<1>6. StreamInv
  BY <1>1 DEF Init, StreamInv, Sorted, SentIsThere, Lossless, Increasing
<1>7. QED BY <1>2, <1>4, <1>5, <1>6 DEF BusInv

(* A step that changes nothing keeps the invariant.                        *)
LEMMA StutterInv ==
  ASSUME BusInv, UNCHANGED vars
  PROVE  BusInv'
<1>1. TypeOK' /\ Given' /\ Places' /\ Ordered'
  BY DEF vars, BusInv, TypeOK, Given, Places, Ordered, Increasing
<1>2. StreamInv => StreamInv'
  BY DEF vars, StreamInv, Sorted, OnItsWay, ReplayFirst, SentIsThere, Lossless, Increasing, Pending, In
<1>3. QED BY <1>1, <1>2 DEF vars, BusInv

(* The invariant holds always.                                             *)
LEMMA Invariance == Spec => []BusInv
<1>1. BusInv /\ [Next]_vars => BusInv'
  <2> SUFFICES ASSUME BusInv, [Next]_vars PROVE BusInv'
    OBVIOUS
  <2>1. CASE UNCHANGED vars
    BY <2>1, StutterInv
  <2>2. CASE \E p \in Publishers : PublisherStep(p)
    BY <2>2, AppendEventStep, FanOutStep, PruneStep DEF PublisherStep
  <2>3. CASE StreamStep
    BY <2>3, ConnectStep, AttachStep, QueryStep, ReplayStep, TakeLiveStep, SendLiveStep, ReceiveStep
       DEF StreamStep
  <2>4. CASE Disconnect \/ Restart
    BY <2>4, DisconnectStep, RestartStep
  <2>5. QED BY <2>1, <2>2, <2>3, <2>4 DEF Next
<1>2. QED BY <1>1, InitInv, PTL DEF Spec

(* The variables keep their types.                                         *)
THEOREM TypeCorrect == Spec => []TypeOK
<1>1. BusInv => TypeOK
  BY DEF BusInv
<1>2. QED BY <1>1, Invariance, PTL

(* A client that resumes from the last id it received (Last-Event-ID) has  *)
(* every event up to it, however publishers, the replay, the channel and   *)
(* the ends of connections and processes follow one another, unless one    *)
(* of the named causes endangered delivery (Publish, Subscribe).           *)
THEOREM ResumesWithoutLoss == Spec => []LosslessUnlessEndangered
<1>1. BusInv => LosslessUnlessEndangered
  BY DEF BusInv, StreamInv, LosslessUnlessEndangered
<1>2. QED BY <1>1, Invariance, PTL

(* The ids a client receives only grow, whatever endangers delivery: the   *)
(* goroutine drops what it has sent (Subscribe), so that neither replayed  *)
(* nor overtaken events come a second time or late.                        *)
THEOREM IdsGrow == Spec => IdsIncrease
<1>1. BusInv /\ [Next]_vars => [lastId' # lastId => lastId' > lastId]_vars
  <2> SUFFICES ASSUME BusInv, Next, lastId' # lastId PROVE lastId' > lastId
    OBVIOUS
  <2>1. ~Receive => lastId' = lastId
    BY DEF Next, PublisherStep, AppendEvent, FanOut, Prune, StreamStep, Connect, Attach, Query, Replay,
           TakeLive, SendLive, Disconnect, Restart, Detach
  <2>2. lastId < lastId' /\ lastId \in Nat /\ lastId' \in Nat
    BY <2>1, ReceiveStep DEF BusInv, TypeOK
  <2>3. QED BY SMT, <2>2
<1>2. QED BY <1>1, Invariance, PTL DEF Spec, IdsIncrease

=============================================================================
