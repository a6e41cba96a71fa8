-------------------------- MODULE LastfmRelayProofs --------------------------
(***************************************************************************)
(* That the relay announces a play once, deletes a connection only when    *)
(* Last.fm refused it, and implements ScrobblePromise, for any number of   *)
(* plays, connections, interruptions and insertions of a session.          *)
(***************************************************************************)
EXTENDS LastfmRelay, TLAPS

(* What a worker has claimed in this run, and not dealt with yet: to be    *)
(* announced, or to be scrobbled.                                          *)
ToAnnounce(w) ==
  IF w.at \in {"claim_np", "tell", "finish_np", "purge_np"} THEN w.batch
  ELSE IF w.at \in {"read_np", "call_np"} THEN w.batch \cup {w.play} ELSE {}
ToScrobble(w) ==
  IF w.at \in {"claim", "play"} THEN w.batch
  ELSE IF w.at \in {"read", "call", "purge", "finish"} THEN w.batch \cup {w.play} ELSE {}

(* The batch is emptied before the worker goes on.  It names no row twice, *)
(* nor one that is still to be claimed.                                    *)
Shape(w) ==
  /\ w.at \in {"off", "rest", "list_np", "list"} => w.batch = {}
  /\ w.at \in {"read_np", "call_np", "finish_np", "purge_np", "read", "call", "purge", "finish"} => w.play \in Lives
  /\ w.at \in {"read_np", "call_np", "read", "call", "purge", "finish"} => w.play \notin w.batch
  /\ w.at \in {"call_np", "finish_np", "purge_np", "call", "purge"} => w.key # 0
  /\ \A p, q \in ToScrobble(w) : p[1] = q[1] => p = q
  /\ \A p \in ToScrobble(w) : p[1] \notin w.todo

Now(p)  == p[2] = life[p[1]]
Open(s) == row[s].relay \in {"pending", "claimed"}

(* A row that is there was inserted.  What the worker holds, or Last.fm    *)
(* has heard of, was inserted by now.                                      *)
Inserted ==
  /\ \A s \in Plays : life[s] = 0 => row[s].relay = "absent" /\ row[s].np = "none"
  /\ \A p \in ToAnnounce(worker) \cup ToScrobble(worker) \cup taken \cup answered \cup unread \cup announced : p[2] <= life[p[1]]

(* A claim of this run is kept, unless the row went: then a row that took  *)
(* its place is not claimed by this run.                                   *)
Claims ==
  \A p \in ToScrobble(worker) :
    /\ Now(p) /\ p[1] \in Rows => row[p[1]].relay = "claimed" /\ row[p[1]].mine
    /\ row[p[1]].mine => Now(p)

(* What may be scrobbled again is in doubt, unless an answer is at hand    *)
(* that settles it.                                                        *)
Doubts ==
  \A p \in taken \ doubt :
    (Now(p) /\ Open(p[1])) \/ p \in ToScrobble(worker) =>
      worker.at = "finish" /\ worker.play = p /\ worker.answer \in {"accepted", "unread"}

(* An outcome is written for an answer, which perhaps could not be read.   *)
Outcomes ==
  /\ worker.at = "finish" /\ worker.answer # "temporary" => worker.play \in answered \cup unread
  /\ worker.at = "purge" => worker.play \in answered /\ worker.answer = "invalid"

(* What was announced is not pending, and not to be announced.             *)
Announcements ==
  /\ echo = {}
  /\ announced \cap ToAnnounce(worker) = {}
  /\ \A p \in announced \cup ToAnnounce(worker) : Now(p) => row[p[1]].np # "pending"

(* A connection that is not the worker's was made during its call.         *)
Keys ==
  /\ wronged \subseteq overtaken
  /\ worker.at \in {"call", "call_np", "finish_np", "purge_np", "purge"} =>
       worker.key <= made /\ (conn \in {0, worker.key} \/ conn \in overtaken)
  /\ worker.at \in {"purge_np", "purge"} \/ (worker.at = "finish_np" /\ worker.answer = "invalid") =>
       worker.key \in refused

(* The inductive invariant.                                                *)
RelayInv ==
  TypeOK /\ Shape(worker) /\ Inserted /\ Claims /\ Doubts /\ Outcomes /\ Announcements /\ Keys

-----------------------------------------------------------------------------
(* The worker's steps                                                      *)

LEMMA RestFacts ==
  /\ Rest \in Workers /\ Off \in Workers
  /\ Rest.at = "rest" /\ Off.at = "off"
  /\ ToAnnounce(Rest) = {} /\ ToScrobble(Rest) = {} /\ ToAnnounce(Off) = {} /\ ToScrobble(Off) = {}
  /\ Shape(Rest) /\ Shape(Off)
<1>1. Rest \in Workers /\ Rest.at = "rest" /\ Rest.batch = {}
  BY RelayAssumption DEF Rest, Workers, Places, Replies
<1>2. Off \in Workers /\ Off.at = "off" /\ Off.batch = {}
  BY <1>1 DEF Off, Workers, Places
<1>3. ToAnnounce(Rest) = {} /\ ToScrobble(Rest) = {} /\ ToAnnounce(Off) = {} /\ ToScrobble(Off) = {}
  BY <1>1, <1>2 DEF ToAnnounce, ToScrobble
<1>4. QED BY <1>1, <1>2, <1>3 DEF Shape

(* Going on keeps what is held.                                            *)
LEMMA OnwardFacts ==
  ASSUME NEW w \in Workers
  PROVE  /\ Onward(w) \in Workers
         /\ Onward(w).batch = w.batch
         /\ ToAnnounce(Onward(w)) = ToAnnounce(w) /\ ToScrobble(Onward(w)) = ToScrobble(w)
         /\ Onward(w) = w \/ Onward(w).at \in {"tell", "list", "play", "rest"}
         /\ Shape(w) => Shape(Onward(w))
<1> DEFINE c == IF w.at = "claim_np" /\ w.todo = {} THEN [w EXCEPT !.at = "tell"]
                ELSE IF w.at = "claim" /\ w.todo = {} THEN [w EXCEPT !.at = "play"] ELSE w
           o == Onward(w)
<1>1. /\ c \in Workers /\ c.batch = w.batch /\ c.todo = w.todo /\ c.play = w.play
      /\ \/ c = w
         \/ w.at = "claim_np" /\ c.at = "tell"
         \/ w.at = "claim" /\ c.at = "play"
  BY DEF Workers, Places
<1>2. o = IF c.at = "tell" /\ c.batch = {} THEN [c EXCEPT !.at = "list"]
          ELSE IF c.at = "play" /\ c.batch = {} THEN Rest ELSE c
  BY DEF Onward
<1> HIDE DEF c
<1>3. /\ o \in Workers
      /\ \/ o = c
         \/ o.batch = c.batch /\ o.todo = c.todo /\ c.at = "tell" /\ c.batch = {} /\ o.at = "list"
         \/ c.at = "play" /\ c.batch = {} /\ o = Rest
  BY <1>1, <1>2, RestFacts DEF Workers, Places
<1> HIDE DEF o
<1>4. Rest.batch = {}
  BY DEF Rest
<1>5. CASE o = w
  BY <1>5 DEF o
<1>6. CASE /\ o \in Workers /\ o.batch = w.batch /\ o.todo = w.todo
           /\ \/ w.at = "claim_np" /\ o.at = "tell"
              \/ w.at = "claim" /\ o.at = "play"
  <2>1. ToAnnounce(o) = ToAnnounce(w) /\ ToScrobble(o) = ToScrobble(w)
    BY <1>6 DEF ToAnnounce, ToScrobble
  <2>2. Shape(w) => Shape(o)
    BY <1>6, <2>1 DEF Shape
  <2>3. QED BY <1>6, <2>1, <2>2 DEF o
<1>7. CASE /\ o \in Workers /\ o.batch = {} /\ w.batch = {}
           /\ \/ w.at \in {"claim_np", "tell"} /\ o.at = "list"
              \/ w.at \in {"claim", "play"} /\ o = Rest
  <2>1. ToAnnounce(o) = {} /\ ToAnnounce(w) = {} /\ ToScrobble(o) = {} /\ ToScrobble(w) = {}
    BY <1>7, RestFacts DEF ToAnnounce, ToScrobble
  <2>2. Shape(o)
    BY <1>7, <2>1, RestFacts DEF Shape
  <2>3. QED BY <1>7, <2>1, <2>2, RestFacts DEF o
<1>8. QED BY <1>1, <1>3, <1>4, <1>5, <1>6, <1>7

(* The worker is turned to w, and goes on.                                 *)
Becomes(w) ==
  /\ worker' \in Workers
  /\ worker'.batch = w.batch
  /\ ToAnnounce(worker') = ToAnnounce(w) /\ ToScrobble(worker') = ToScrobble(w)
  /\ worker' = w \/ worker'.at \in {"tell", "list", "play", "rest"}
  /\ Shape(w) => Shape(worker')

LEMMA Turned ==
  ASSUME NEW w \in Workers, worker' = w \/ worker' = Onward(w)
  PROVE  Becomes(w)
BY OnwardFacts DEF Becomes

Calling == {"call_np", "finish_np", "purge_np", "call", "purge", "finish"}
Quiet   == worker'.at \notin Calling

(* What the worker holds after a step.                                     *)
Holds(announce, scrobble) ==
  /\ worker' \in Workers /\ Shape(worker')
  /\ ToAnnounce(worker') = announce /\ ToScrobble(worker') = scrobble
HoldsLess ==
  /\ worker' \in Workers /\ Shape(worker')
  /\ ToAnnounce(worker') \subseteq ToAnnounce(worker) /\ ToScrobble(worker') \subseteq ToScrobble(worker)

LEMMA RestHolds ==
  ASSUME worker' \in {Rest, Off}
  PROVE  Holds({}, {}) /\ Quiet
BY RestFacts DEF Holds, Quiet, Calling

LEMMA BeginHolds ==
  ASSUME RelayInv, Begin
  PROVE  Holds({}, {}) /\ Quiet /\ ToScrobble(worker) = {}
<1>1. worker \in Workers /\ worker.at = "rest" /\ worker.batch = {}
  BY DEF RelayInv, TypeOK, Shape, Begin, At
<1>2. worker' \in Workers /\ worker'.batch = {} /\ worker'.at \in {"rest", "list_np"}
  <2>1. worker' = worker \/ worker' = [worker EXCEPT !.at = "list_np"]
    BY DEF Begin
  <2>2. QED BY <1>1, <2>1 DEF Workers, Places
<1>3. ToAnnounce(worker') = {} /\ ToScrobble(worker') = {} /\ ToScrobble(worker) = {}
  BY <1>1, <1>2 DEF ToAnnounce, ToScrobble
<1>4. QED BY <1>2, <1>3 DEF Holds, Quiet, Calling, Shape

LEMMA ListHolds ==
  ASSUME RelayInv, ListNowPlaying \/ ListPlays
  PROVE  Holds({}, {}) /\ Quiet
<1>1. worker \in Workers /\ worker.batch = {}
  BY DEF RelayInv, TypeOK, Shape, ListNowPlaying, ListPlays, List, At
<1>2. PICK at \in {"claim_np", "claim"}, those \in SUBSET Plays :
        worker' = Onward([worker EXCEPT !.at = at, !.todo = those])
  BY DEF ListNowPlaying, ListPlays, List, Turns, Rows
<1> DEFINE w == [worker EXCEPT !.at = at, !.todo = those]
<1>3. w.at = at /\ w.batch = {}
  BY <1>1 DEF Workers
<1>4. w \in Workers
  BY <1>1 DEF Workers, Places
<1> HIDE DEF w
<1>5. ToAnnounce(w) = {} /\ ToScrobble(w) = {}
  BY <1>3 DEF ToAnnounce, ToScrobble
<1>6. Shape(w)
  BY <1>3, <1>5 DEF Shape
<1>7. Becomes(w)
  BY <1>2, <1>4, Turned DEF w
<1>8. Quiet
  BY <1>3, <1>7 DEF Becomes, Quiet, Calling
<1>9. QED BY <1>5, <1>6, <1>7, <1>8 DEF Becomes, Holds

(* A row that may be claimed was inserted.                                 *)
LEMMA LifeFacts ==
  ASSUME RelayInv, NEW s \in Plays
  PROVE  /\ Life(s)[1] = s /\ Life(s)[2] = life[s] /\ Now(Life(s))
         /\ row[s].np = "pending" \/ row[s].relay # "absent" => Life(s) \in Lives
BY RelayAssumption DEF RelayInv, TypeOK, Inserted, Life, Lives, Now

(* A claim: what is not claimed is left, and nothing changes but the list. *)
LEMMA ClaimTurns ==
  ASSUME RelayInv, NEW s \in Plays,
         NEW from \in Places, NEW reading \in Places, NEW may \in BOOLEAN, NEW claimed,
         may => Life(s) \in Lives,
         Claim(from, reading, s, may, claimed)
  PROVE  \E w \in Workers :
           /\ Becomes(w) /\ w.at = (IF may THEN reading ELSE from)
           /\ w.todo = worker.todo \ {s} /\ w.batch = worker.batch
           /\ may => w.play = Life(s)
<1> DEFINE w == [worker EXCEPT !.todo = @ \ {s}, !.at = IF may THEN reading ELSE from,
                               !.play = IF may THEN Life(s) ELSE <<>>]
<1>1. worker \in Workers
  BY DEF RelayInv, TypeOK
<1>2. /\ w.at = (IF may THEN reading ELSE from)
      /\ w.todo = worker.todo \ {s} /\ w.batch = worker.batch
      /\ w.play = (IF may THEN Life(s) ELSE <<>>)
  BY <1>1 DEF Workers
<1>3. w \in Workers
  BY <1>1 DEF Workers
<1>4. worker' = Onward(w)
  BY DEF Claim, Turns
<1> HIDE DEF w
<1>5. QED BY <1>2, <1>3, <1>4, Turned

LEMMA ClaimNowPlayingHolds ==
  ASSUME RelayInv, NEW s \in Plays, ClaimNowPlaying(s)
  PROVE  /\ Holds(ToAnnounce(worker) \cup (IF row[s].np = "pending" THEN {Life(s)} ELSE {}), {})
         /\ Quiet
         /\ row[s].np = "pending" => Life(s) \notin announced
<1> DEFINE may == row[s].np = "pending"
<1>1. /\ worker \in Workers /\ worker.at = "claim_np" /\ Shape(worker)
      /\ ToAnnounce(worker) = worker.batch
  BY DEF RelayInv, TypeOK, ClaimNowPlaying, Claim, At, ToAnnounce
<1>2. may => Life(s) \in Lives /\ Life(s) \notin announced \cup worker.batch
  BY <1>1, LifeFacts DEF RelayInv, Announcements
<1>3. PICK w \in Workers :
           /\ Becomes(w) /\ w.at = (IF may THEN "read_np" ELSE "claim_np")
           /\ w.todo = worker.todo \ {s} /\ w.batch = worker.batch
           /\ may => w.play = Life(s)
  <2>1. may \in BOOLEAN /\ "read_np" \in Places /\ "claim_np" \in Places
    BY DEF Places
  <2>2. Claim("claim_np", "read_np", s, may, [row[s] EXCEPT !.np = "attempted"])
    BY DEF ClaimNowPlaying
  <2> HIDE DEF may
  <2>3. QED BY <1>2, <2>1, <2>2, ClaimTurns
<1> HIDE DEF may
<1>4. ToAnnounce(w) = ToAnnounce(worker) \cup (IF may THEN {Life(s)} ELSE {}) /\ ToScrobble(w) = {}
  BY <1>1, <1>3 DEF ToAnnounce, ToScrobble
<1>5. Shape(w)
  BY <1>1, <1>2, <1>3, <1>4 DEF Shape
<1>6. Quiet
  BY <1>3 DEF Becomes, Quiet, Calling
<1>7. Holds(ToAnnounce(worker) \cup (IF may THEN {Life(s)} ELSE {}), {})
  BY <1>3, <1>4, <1>5 DEF Becomes, Holds
<1>8. QED BY <1>2, <1>6, <1>7 DEF may

LEMMA ClaimPlayHolds ==
  ASSUME RelayInv, NEW s \in Plays, ClaimPlay(s)
  PROVE  /\ Holds({}, ToScrobble(worker) \cup (IF May(s) THEN {Life(s)} ELSE {}))
         /\ Quiet
         /\ \A p \in ToScrobble(worker) : p[1] # s
<1> DEFINE may == May(s)
<1>1. /\ worker \in Workers /\ worker.at = "claim" /\ s \in worker.todo /\ Shape(worker)
      /\ ToScrobble(worker) = worker.batch
  BY DEF RelayInv, TypeOK, ClaimPlay, Claim, At, ToScrobble
<1>2. /\ Life(s)[1] = s
      /\ may => Life(s) \in Lives
      /\ \A p \in ToScrobble(worker) : p[1] # s
  BY <1>1, LifeFacts DEF May, Shape
<1>3. PICK w \in Workers :
           /\ Becomes(w) /\ w.at = (IF may THEN "read" ELSE "claim")
           /\ w.todo = worker.todo \ {s} /\ w.batch = worker.batch
           /\ may => w.play = Life(s)
  <2>1. may \in BOOLEAN /\ "read" \in Places /\ "claim" \in Places
    BY DEF May, Places, RelayInv, TypeOK, Session
  <2> DEFINE claimed == [row[s] EXCEPT !.relay = "claimed", !.mine = TRUE, !.late = FALSE]
  <2>2. Claim("claim", "read", s, may, claimed)
    BY DEF ClaimPlay
  <2> HIDE DEF may, claimed
  <2>3. QED BY <1>2, <2>1, <2>2, ClaimTurns
<1> HIDE DEF may
<1>4. ToScrobble(w) = ToScrobble(worker) \cup (IF may THEN {Life(s)} ELSE {}) /\ ToAnnounce(w) = {}
  BY <1>1, <1>3 DEF ToAnnounce, ToScrobble
<1>5. Shape(w)
  <2>1. CASE ~may
    BY <1>1, <1>3, <1>4, <2>1 DEF Shape
  <2>2. CASE may
    <3>1. ToScrobble(w) = worker.batch \cup {Life(s)} /\ w.todo = worker.todo \ {s} /\ w.play = Life(s)
      BY <1>1, <1>3, <1>4, <2>2
    <3>2. /\ \A p, q \in ToScrobble(w) : p[1] = q[1] => p = q
          /\ \A p \in ToScrobble(w) : p[1] \notin w.todo
      BY <1>1, <1>2, <3>1 DEF Shape
    <3>3. Life(s) \notin worker.batch
      BY <1>1, <1>2
    <3>4. QED BY <1>2, <1>3, <2>2, <3>1, <3>2, <3>3 DEF Shape
  <2>3. QED BY <2>1, <2>2
<1>6. Quiet
  BY <1>3 DEF Becomes, Quiet, Calling
<1>7. QED BY <1>2, <1>3, <1>4, <1>5, <1>6 DEF Becomes, Holds, may

LEMMA ReadHolds ==
  ASSUME RelayInv, ReadNowPlaying \/ ReadPlay
  PROVE  HoldsLess /\ Quiet
<1>1. /\ worker \in Workers /\ Shape(worker)
      /\ worker.at \in {"read_np", "read"} /\ worker.play \in Lives
  BY DEF RelayInv, TypeOK, Shape, ReadNowPlaying, ReadPlay, Read, At
<1>2. CASE worker' = Rest
  BY <1>2, RestHolds DEF Holds, HoldsLess
<1>3. CASE worker' # Rest
  <2>1. PICK back \in {"claim_np", "claim"} :
          /\ worker.at = (IF back = "claim_np" THEN "read_np" ELSE "read")
          /\ worker' = Onward([worker EXCEPT !.at = back, !.batch = @ \cup {worker.play}, !.play = <<>>])
    BY <1>3 DEF ReadNowPlaying, ReadPlay, Read, At, Turns
  <2> DEFINE w == [worker EXCEPT !.at = back, !.batch = @ \cup {worker.play}, !.play = <<>>]
  <2>2. /\ w.at = back /\ w.batch = worker.batch \cup {worker.play}
        /\ w.todo = worker.todo
    BY <1>1 DEF Workers
  <2>3. w \in Workers
    BY <1>1 DEF Workers, Places
  <2> HIDE DEF w
  <2>4. ToAnnounce(w) = ToAnnounce(worker) /\ ToScrobble(w) = ToScrobble(worker)
    BY <1>1, <2>1, <2>2 DEF ToAnnounce, ToScrobble
  <2>5. Shape(w)
    BY <1>1, <2>2, <2>4 DEF Shape
  <2>6. Becomes(w)
    BY <2>1, <2>3, Turned DEF w
  <2>7. Quiet
    BY <2>2, <2>6 DEF Becomes, Quiet, Calling
  <2>8. QED BY <2>4, <2>5, <2>6, <2>7 DEF Becomes, HoldsLess
<1>4. QED BY <1>2, <1>3

LEMMA FetchHolds ==
  ASSUME RelayInv, NEW p, Fetch("tell", "call_np", p) \/ Fetch("play", "call", p)
  PROVE  /\ HoldsLess
         /\ Quiet \/ (worker'.at \in {"call_np", "call"} /\ worker'.key = conn)
<1>1. /\ worker \in Workers /\ Shape(worker) /\ p \in worker.batch /\ p \in Lives
      /\ conn \in 0..MaxConns
  BY RelayAssumption DEF RelayInv, TypeOK, Fetch, Workers
<1>2. PICK from \in {"tell", "play"}, to \in {"call_np", "call"} :
        /\ to = (IF from = "tell" THEN "call_np" ELSE "call") /\ worker.at = from
        /\ worker' = Onward([worker EXCEPT !.batch = @ \ {p}, !.at = IF conn # 0 THEN to ELSE from,
                                           !.play = IF conn # 0 THEN p ELSE <<>>, !.key = conn])
  BY DEF Fetch, At, Turns
<1> DEFINE w == [worker EXCEPT !.batch = @ \ {p}, !.at = IF conn # 0 THEN to ELSE from,
                               !.play = IF conn # 0 THEN p ELSE <<>>, !.key = conn]
<1>3. /\ w.at = (IF conn # 0 THEN to ELSE from) /\ w.batch = worker.batch \ {p}
      /\ w.play = (IF conn # 0 THEN p ELSE <<>>) /\ w.key = conn /\ w.todo = worker.todo
  BY <1>1 DEF Workers
<1>4. w \in Workers
  BY <1>1 DEF Workers, Places
<1>5. Becomes(w)
  BY <1>2, <1>4, Turned
<1> HIDE DEF w
<1>6. ToAnnounce(w) \subseteq ToAnnounce(worker) /\ ToScrobble(w) \subseteq ToScrobble(worker)
  BY <1>1, <1>2, <1>3 DEF ToAnnounce, ToScrobble
<1>7. Shape(w)
  BY <1>1, <1>2, <1>3, <1>6 DEF Shape
<1>8. Quiet \/ (worker'.at \in {"call_np", "call"} /\ worker'.key = conn)
  BY <1>2, <1>3, <1>5 DEF Becomes, Quiet, Calling
<1>9. QED BY <1>5, <1>6, <1>7, <1>8 DEF Becomes, HoldsLess

LEMMA AnnounceHolds ==
  ASSUME RelayInv, Announce
  PROVE  /\ Holds(ToAnnounce(worker) \ {worker.play}, {}) /\ worker.play \in ToAnnounce(worker)
         /\ worker.at = "call_np" /\ worker'.at = "finish_np" /\ worker'.key = worker.key
         /\ worker'.answer = "invalid" => worker.key \in refused'
<1>1. /\ worker \in Workers /\ Shape(worker) /\ worker.at = "call_np"
      /\ worker.play \in Lives /\ worker.play \notin worker.batch
  BY DEF RelayInv, TypeOK, Shape, Announce, At
<1>2. PICK answer \in {"ok", "failed", "invalid"} :
        /\ worker' = [worker EXCEPT !.at = "finish_np", !.answer = answer]
        /\ refused' = IF answer = "invalid" THEN refused \cup {worker.key} ELSE refused
  BY DEF Announce
<1>3. /\ worker'.at = "finish_np" /\ worker'.answer = answer /\ worker'.key = worker.key
      /\ worker'.batch = worker.batch /\ worker'.play = worker.play /\ worker'.todo = worker.todo
  BY <1>1, <1>2 DEF Workers
<1>4. worker' \in Workers
  BY <1>1, <1>2 DEF Workers, Places, Replies, Answers, Final
<1>5. /\ ToAnnounce(worker') = ToAnnounce(worker) \ {worker.play} /\ ToScrobble(worker') = {}
      /\ worker.play \in ToAnnounce(worker)
  BY <1>1, <1>3 DEF ToAnnounce, ToScrobble
<1>6. Shape(worker')
  BY <1>1, <1>3, <1>5 DEF Shape
<1>7. QED BY <1>1, <1>2, <1>3, <1>4, <1>5, <1>6 DEF Holds

LEMMA FollowingHolds ==
  ASSUME RelayInv,
         NEW at \in {"tell", "play"}, worker' = Following(at),
         worker.at \in (IF at = "tell" THEN {"finish_np", "purge_np"} ELSE {"finish"})
  PROVE  /\ Holds(ToAnnounce(worker), ToScrobble(worker) \ {worker.play})
         /\ Quiet
<1>1. /\ worker \in Workers /\ Shape(worker)
      /\ worker.at = "finish" => worker.play \notin worker.batch
  BY DEF RelayInv, TypeOK, Shape
<1> DEFINE w == [worker EXCEPT !.at = at, !.play = <<>>, !.key = 0, !.answer = "none"]
<1>2. w.at = at /\ w.batch = worker.batch /\ w.todo = worker.todo
  BY <1>1 DEF Workers
<1>3. w \in Workers
  <2>1. at \in Places /\ 0 \in 0..MaxConns /\ "none" \in Replies
    BY RelayAssumption DEF Places, Replies
  <2>2. QED BY <1>1, <2>1 DEF Workers
<1>4. Becomes(w)
  BY <1>3, Turned DEF Following
<1> HIDE DEF w
<1>5. ToAnnounce(w) = ToAnnounce(worker) /\ ToScrobble(w) = ToScrobble(worker) \ {worker.play}
  BY <1>1, <1>2 DEF ToAnnounce, ToScrobble
<1>6. Shape(w)
  BY <1>1, <1>2, <1>5 DEF Shape
<1>7. Quiet
  BY <1>2, <1>4 DEF Becomes, Quiet, Calling
<1>8. QED BY <1>4, <1>5, <1>6, <1>7 DEF Becomes, Holds

(* Only the position changes, from a call on towards its outcome.          *)
LEMMA MovesHolds ==
  ASSUME RelayInv,
         NEW at \in Places, worker' = [worker EXCEPT !.at = at],
         \/ worker.at = "finish_np" /\ at = "purge_np"
         \/ worker.at = "purge" /\ at = "finish"
  PROVE  /\ Holds(ToAnnounce(worker), ToScrobble(worker))
         /\ worker'.at = at /\ worker'.play = worker.play
         /\ worker'.key = worker.key /\ worker'.answer = worker.answer
<1>1. worker \in Workers /\ Shape(worker)
  BY DEF RelayInv, TypeOK
<1>2. /\ worker'.at = at /\ worker'.play = worker.play /\ worker'.batch = worker.batch
      /\ worker'.key = worker.key /\ worker'.answer = worker.answer /\ worker'.todo = worker.todo
      /\ worker' \in Workers
  BY <1>1 DEF Workers
<1>3. ToAnnounce(worker') = ToAnnounce(worker) /\ ToScrobble(worker') = ToScrobble(worker)
  BY <1>1, <1>2 DEF ToAnnounce, ToScrobble
<1>4. Shape(worker')
  BY <1>1, <1>2, <1>3 DEF Shape
<1>5. QED BY <1>2, <1>3, <1>4 DEF Holds

LEMMA ScrobbleHolds ==
  ASSUME RelayInv, NEW takes \in BOOLEAN, NEW answer \in Answers,
         Scrobble(takes, answer)
  PROVE  /\ Holds({}, ToScrobble(worker)) /\ worker.play \in ToScrobble(worker) /\ worker.play \in Lives
         /\ worker.at = "call" /\ worker'.at = (IF answer = "invalid" THEN "purge" ELSE "finish")
         /\ worker'.play = worker.play /\ worker'.key = worker.key /\ worker'.answer = answer
<1>1. worker \in Workers /\ Shape(worker) /\ worker.at = "call" /\ worker.play \in Lives
  BY DEF RelayInv, TypeOK, Shape, Scrobble, At
<1>2. worker' = [worker EXCEPT !.at = IF answer = "invalid" THEN "purge" ELSE "finish", !.answer = answer]
  BY DEF Scrobble
<1>3. /\ worker'.at = (IF answer = "invalid" THEN "purge" ELSE "finish") /\ worker'.answer = answer
      /\ worker'.key = worker.key
      /\ worker'.batch = worker.batch /\ worker'.play = worker.play /\ worker'.todo = worker.todo
  BY <1>1, <1>2 DEF Workers
<1>4. worker' \in Workers
  BY <1>1, <1>2 DEF Workers, Places, Replies
<1>5. /\ ToAnnounce(worker') = {} /\ ToScrobble(worker') = ToScrobble(worker)
      /\ worker.play \in ToScrobble(worker)
  BY <1>1, <1>3 DEF ToAnnounce, ToScrobble
<1>6. Shape(worker')
  BY <1>1, <1>3, <1>5 DEF Shape
<1>7. QED BY <1>1, <1>3, <1>4, <1>5, <1>6 DEF Holds

(* A statement that fails: the run ends, or the outcome is not kept.       *)
LEMMA FailsHolds ==
  ASSUME RelayInv, StatementFails
  PROVE  /\ HoldsLess
         /\ worker.at = "finish" => worker.play \notin ToScrobble(worker')
         /\ \/ Quiet
            \/ /\ worker'.play = worker.play /\ worker'.key = worker.key /\ worker'.answer = worker.answer
               /\ \/ worker.at = "finish_np" /\ worker'.at = "purge_np" /\ worker.answer = "invalid"
                  \/ worker.at = "purge" /\ worker'.at = "finish"
<1>1. worker \in Workers /\ Shape(worker)
  BY DEF RelayInv, TypeOK
<1>2. CASE worker.at \in {"tell", "play"}
  <2>1. PICK p \in worker.batch : worker' = Onward([worker EXCEPT !.batch = @ \ {p}])
    BY <1>2 DEF StatementFails, Turns
  <2> DEFINE w == [worker EXCEPT !.batch = @ \ {p}]
  <2>2. w.at = worker.at /\ w.batch = worker.batch \ {p} /\ w.todo = worker.todo /\ w \in Workers
    BY <1>1 DEF Workers
  <2> HIDE DEF w
  <2>3. ToAnnounce(w) \subseteq ToAnnounce(worker) /\ ToScrobble(w) \subseteq ToScrobble(worker)
    BY <1>2, <2>2 DEF ToAnnounce, ToScrobble
  <2>4. Shape(w)
    BY <1>1, <1>2, <2>2, <2>3 DEF Shape
  <2>5. Becomes(w)
    BY <2>1, <2>2, Turned DEF w
  <2>6. Quiet
    BY <1>2, <2>2, <2>5 DEF Becomes, Quiet, Calling
  <2>7. QED BY <1>2, <2>3, <2>4, <2>5, <2>6 DEF Becomes, HoldsLess
<1>3. CASE worker.at = "finish_np" /\ worker.answer = "invalid"
  <2>1. worker' = [worker EXCEPT !.at = "purge_np"]
    BY <1>3 DEF StatementFails, At
  <2>2. "purge_np" \in Places
    BY DEF Places
  <2>3. QED BY <1>3, <2>1, <2>2, MovesHolds DEF Holds, HoldsLess
<1>4. CASE worker.at = "purge"
  <2>1. worker' = [worker EXCEPT !.at = "finish"] /\ "finish" \in Places
    BY <1>4 DEF StatementFails, At, Places
  <2>2. QED BY <1>4, <2>1, MovesHolds DEF Holds, HoldsLess
<1>5. CASE worker.at = "purge_np" \/ (worker.at = "finish_np" /\ worker.answer # "invalid")
  <2>1. worker' = Following("tell")
    BY <1>5 DEF StatementFails, At
  <2>2. QED BY <1>5, <2>1, FollowingHolds DEF Holds, HoldsLess
<1>6. CASE worker.at = "finish"
  <2>1. worker' = Following("play")
    BY <1>6 DEF StatementFails, At
  <2>2. QED BY <1>6, <2>1, FollowingHolds DEF Holds, HoldsLess
<1>7. CASE worker.at \notin {"tell", "play", "finish_np", "purge_np", "purge", "finish"}
  <2>1. worker' = Rest
    BY <1>7 DEF StatementFails, At
  <2>2. QED BY <1>7, <2>1, RestHolds DEF Holds, HoldsLess
<1>8. QED BY <1>2, <1>3, <1>4, <1>5, <1>6, <1>7

-----------------------------------------------------------------------------
(* The rows                                                                *)

Same(t) == row'[t].relay = row[t].relay /\ row'[t].mine = row[t].mine /\ row'[t].np = row[t].np
Gone(t) == row'[t].relay = "absent" /\ ~row'[t].mine /\ row'[t].np = "none"

LEMMA AbsentFacts ==
  Absent \in Session /\ Absent.relay = "absent" /\ ~Absent.mine /\ Absent.np = "none"
<1>1. Absent \in Session
  BY DEF Absent, Session
<1>2. Absent.relay = "absent" /\ Absent.np = "none"
  BY DEF Absent
<1>3. Absent.mine = FALSE
  BY DEF Absent
<1>4. QED BY <1>1, <1>2, <1>3

LEMMA RowPut ==
  ASSUME TypeOK, NEW s \in Plays, NEW r \in Session, row' = [row EXCEPT ![s] = r]
  PROVE  row' \in [Plays -> Session] /\ row'[s] = r /\ \A t \in Plays : t # s => row'[t] = row[t]
BY DEF TypeOK

LEMMA EraseRows ==
  ASSUME Erase
  PROVE  row' \in [Plays -> Session] /\ (\A t \in Plays : Gone(t)) /\ conn' = 0
<1>1. row' = [t \in Plays |-> Absent] /\ conn' = 0
  BY DEF Erase
<1>2. row' \in [Plays -> Session] /\ \A t \in Plays : row'[t] = Absent
  BY <1>1, AbsentFacts
<1>3. QED BY <1>1, <1>2, AbsentFacts DEF Gone

LEMMA BeginRows ==
  ASSUME TypeOK, Begin
  PROVE  /\ row' \in [Plays -> Session]
         /\ \A t \in Plays :
              \/ Gone(t)
              \/ row'[t].relay = row[t].relay /\ ~row'[t].mine /\ row'[t].np = row[t].np
<1>1. PICK old \in SUBSET Rows :
        row' = [s \in Plays |-> IF s \in old THEN Absent ELSE [row[s] EXCEPT !.mine = FALSE]]
  BY DEF Begin
<1>2. ASSUME NEW t \in Plays
      PROVE  /\ row'[t] \in Session
             /\ \/ Gone(t)
                \/ row'[t].relay = row[t].relay /\ ~row'[t].mine /\ row'[t].np = row[t].np
  <2>1. CASE t \in old
    BY <1>1, <2>1, AbsentFacts DEF Gone
  <2>2. CASE t \notin old
    <3>1. row[t] \in Session
      BY DEF TypeOK
    <3>2. row'[t] = [row[t] EXCEPT !.mine = FALSE]
      BY <1>1, <2>2
    <3>3. row'[t] \in Session /\ row'[t].relay = row[t].relay /\ row'[t].np = row[t].np
      BY <3>1, <3>2 DEF Session
    <3>4. row'[t].mine = FALSE
      BY <3>1, <3>2 DEF Session
    <3>5. QED BY <3>3, <3>4
  <2>3. QED BY <2>1, <2>2
<1>3. row' = [t \in Plays |-> row'[t]]
  BY <1>1
<1>4. QED BY <1>2, <1>3

LEMMA StartedRows ==
  ASSUME TypeOK, NEW s \in Plays, Started(s)
  PROVE  /\ row' \in [Plays -> Session] /\ life' \in [Plays -> 0..MaxLives]
         /\ row[s].relay = "absent" /\ row'[s].relay = "pending" /\ ~row'[s].mine
         /\ life'[s] = life[s] + 1
         /\ \A t \in Plays : t # s => Same(t) /\ life'[t] = life[t]
<1>1. PICK far \in BOOLEAN :
        row' = [row EXCEPT ![s] = [relay |-> "pending", mine |-> FALSE, late |-> TRUE, far |-> far, np |-> "pending"]]
  BY DEF Started
<1> DEFINE r == [relay |-> "pending", mine |-> FALSE, late |-> TRUE, far |-> far, np |-> "pending"]
<1>2. r \in Session /\ r.relay = "pending"
  BY DEF Session
<1>3. r.mine = FALSE
  OBVIOUS
<1> HIDE DEF r
<1>4. row' \in [Plays -> Session] /\ row'[s] = r /\ \A t \in Plays : t # s => row'[t] = row[t]
  BY <1>1, <1>2, RowPut DEF r
<1>5. life' \in [Plays -> 0..MaxLives] /\ life'[s] = life[s] + 1 /\ \A t \in Plays : t # s => life'[t] = life[t]
  BY RelayAssumption DEF Started, TypeOK
<1>6. row[s].relay = "absent"
  BY AbsentFacts DEF Started
<1>7. QED BY <1>2, <1>3, <1>4, <1>5, <1>6 DEF Same

LEMMA ProgressedRows ==
  ASSUME TypeOK, NEW s \in Plays, Progressed(s) \/ PlayLate(s)
  PROVE  row' \in [Plays -> Session] /\ \A t \in Plays : Same(t)
<1>1. row[s] \in Session
  BY DEF TypeOK
<1>2. PICK r \in {[row[s] EXCEPT !.far = TRUE], [row[s] EXCEPT !.late = TRUE]} : row' = [row EXCEPT ![s] = r]
  BY DEF Progressed, PlayLate
<1>3. r \in Session /\ r.relay = row[s].relay /\ r.np = row[s].np
  BY <1>1, <1>2 DEF Session
<1>4. r.mine = row[s].mine
  BY <1>1, <1>2 DEF Session
<1>5. row' \in [Plays -> Session] /\ row'[s] = r /\ \A t \in Plays : t # s => row'[t] = row[t]
  BY <1>2, <1>3, RowPut
<1>6. QED BY <1>3, <1>4, <1>5 DEF Same

LEMMA ClaimNowPlayingRows ==
  ASSUME TypeOK, NEW s \in Plays, ClaimNowPlaying(s)
  PROVE  /\ row' \in [Plays -> Session]
         /\ \A t \in Plays : t # s \/ row[s].np # "pending" => Same(t)
         /\ row[s].np = "pending" =>
              row'[s].relay = row[s].relay /\ row'[s].mine = row[s].mine /\ row'[s].np = "attempted"
<1>1. row[s] \in Session
  BY DEF TypeOK
<1>2. CASE row[s].np = "pending"
  <2> DEFINE r == [row[s] EXCEPT !.np = "attempted"]
  <2>1. row' = [row EXCEPT ![s] = r]
    BY <1>2 DEF ClaimNowPlaying, Claim
  <2>2. r \in Session /\ r.relay = row[s].relay /\ r.np = "attempted" /\ r.mine = row[s].mine
    BY <1>1 DEF Session
  <2> HIDE DEF r
  <2>3. row' \in [Plays -> Session] /\ row'[s] = r /\ \A t \in Plays : t # s => row'[t] = row[t]
    BY <2>1, <2>2, RowPut
  <2>4. QED BY <1>2, <2>2, <2>3 DEF Same
<1>3. CASE row[s].np # "pending"
  <2>1. row' = row
    BY <1>3 DEF ClaimNowPlaying, Claim
  <2>2. QED BY <1>3, <2>1 DEF Same, TypeOK
<1>4. QED BY <1>2, <1>3

LEMMA ClaimPlayRows ==
  ASSUME TypeOK, NEW s \in Plays, ClaimPlay(s)
  PROVE  /\ row' \in [Plays -> Session]
         /\ \A t \in Plays : t # s \/ ~May(s) => Same(t)
         /\ May(s) => row'[s].relay = "claimed" /\ row'[s].mine /\ row'[s].np = row[s].np
<1>1. row[s] \in Session
  BY DEF TypeOK
<1> DEFINE r == [row[s] EXCEPT !.relay = "claimed", !.mine = TRUE, !.late = FALSE]
<1>2. row' = IF May(s) THEN [row EXCEPT ![s] = r] ELSE row
  BY DEF ClaimPlay, Claim
<1>3. r.relay = "claimed" /\ r.np = row[s].np
  BY <1>1 DEF Session
<1>4. r.mine = TRUE
  BY <1>1 DEF Session
<1>5. r \in Session
  BY <1>1 DEF Session
<1> HIDE DEF r
<1>6. CASE May(s)
  <2>1. row' \in [Plays -> Session] /\ row'[s] = r /\ \A t \in Plays : t # s => row'[t] = row[t]
    BY <1>2, <1>5, <1>6, RowPut
  <2>2. QED BY <1>3, <1>4, <1>6, <2>1 DEF Same
<1>7. CASE ~May(s)
  BY <1>2, <1>7 DEF Same, TypeOK
<1>8. QED BY <1>6, <1>7

LEMMA FinishNowPlayingRows ==
  ASSUME TypeOK, Shape(worker), FinishNowPlaying
  PROVE  /\ row' \in [Plays -> Session]
         /\ \A t \in Plays :
              /\ row'[t].relay = row[t].relay /\ row'[t].mine = row[t].mine
              /\ row[t].np \in {"none", "pending"} => row'[t].np = row[t].np
              /\ row'[t].np = "pending" => row[t].np = "pending"
<1> DEFINE s == worker.play[1]
           np == IF worker.answer = "ok" THEN "delivered" ELSE "failed"
           r  == [row[s] EXCEPT !.np = np]
<1>1. s \in Plays
  BY DEF Shape, FinishNowPlaying, At, Lives
<1>2. row[s] \in Session
  BY <1>1 DEF TypeOK
<1>3. r \in Session /\ r.relay = row[s].relay /\ r.mine = row[s].mine /\ r.np = np
  BY <1>2 DEF Session
<1>4. row' = IF row[s].np \in {"attempted", "delivered", "failed"} THEN [row EXCEPT ![s] = r] ELSE row
  BY DEF FinishNowPlaying
<1>5. np \in {"delivered", "failed"}
  OBVIOUS
<1> HIDE DEF s, r, np
<1>6. CASE row[s].np \in {"attempted", "delivered", "failed"}
  <2>1. row' \in [Plays -> Session] /\ row'[s] = r /\ \A t \in Plays : t # s => row'[t] = row[t]
    BY <1>1, <1>3, <1>4, <1>6, RowPut
  <2>2. QED BY <1>3, <1>5, <1>6, <2>1
<1>7. CASE row[s].np \notin {"attempted", "delivered", "failed"}
  BY <1>4, <1>7 DEF TypeOK
<1>8. QED BY <1>6, <1>7

LEMMA FinishPlayRows ==
  ASSUME TypeOK, Shape(worker), FinishPlay
  PROVE  LET s == worker.play[1]
             kept == row[s].relay = "claimed" /\ row[s].mine
         IN  /\ s \in Plays
             /\ row' \in [Plays -> Session]
             /\ \A t \in Plays : t # s \/ ~kept => Same(t)
             /\ kept => /\ ~row'[s].mine /\ row'[s].np = row[s].np
                        /\ row'[s].relay = IF worker.answer = "temporary" THEN "pending" ELSE "terminal"
<1> DEFINE s == worker.play[1]
           kept == row[s].relay = "claimed" /\ row[s].mine
           relay == IF worker.answer = "temporary" THEN "pending" ELSE "terminal"
           r == [row[s] EXCEPT !.mine = FALSE, !.late = FALSE, !.relay = relay]
<1>1. s \in Plays
  BY DEF Shape, FinishPlay, At, Lives
<1>2. row[s] \in Session
  BY <1>1 DEF TypeOK
<1>3. relay \in {"pending", "terminal"}
  OBVIOUS
<1>4. row' = IF kept THEN [row EXCEPT ![s] = r] ELSE row
  <2>1. row' = IF kept
               THEN [row EXCEPT ![s].mine = FALSE, ![s].late = FALSE, ![s].relay = relay] ELSE row
    BY DEF FinishPlay
  <2>2. [row EXCEPT ![s].mine = FALSE, ![s].late = FALSE, ![s].relay = relay] = [row EXCEPT ![s] = r]
    BY <1>1 DEF TypeOK
  <2>3. QED BY <2>1, <2>2
<1>5. r.relay = relay /\ r.np = row[s].np
  <2> HIDE DEF relay, s
  <2>1. QED BY <1>2 DEF Session
<1>6. r.mine = FALSE
  <2> HIDE DEF relay, s
  <2>1. QED BY <1>2 DEF Session
<1>7. r \in Session
  <2> HIDE DEF relay, s
  <2>1. QED BY <1>2, <1>3 DEF Session
<1> HIDE DEF r, s, relay
<1>8. CASE kept
  <2> HIDE DEF kept
  <2>1. row' \in [Plays -> Session] /\ row'[s] = r /\ \A t \in Plays : t # s => row'[t] = row[t]
    BY <1>1, <1>4, <1>7, <1>8, RowPut
  <2>2. /\ \A t \in Plays : t # s \/ ~kept => Same(t)
        /\ kept => ~row'[s].mine /\ row'[s].np = row[s].np /\ row'[s].relay = relay
    BY <1>5, <1>6, <1>8, <2>1 DEF Same
  <2>3. QED BY <1>1, <2>1, <2>2 DEF s, kept, relay
<1>9. CASE ~kept
  <2>1. row' = row
    BY <1>4, <1>9
  <2>2. QED BY <1>1, <1>9, <2>1 DEF Same, TypeOK, s
<1>10. QED BY <1>8, <1>9

-----------------------------------------------------------------------------
(* What any step does to the worker, to the rows, and to what Last.fm heard *)

Calls   == \E takes \in BOOLEAN, answer \in Answers : Scrobble(takes, answer)
Fetches == \E p : Fetch("tell", "call_np", p) \/ Fetch("play", "call", p)

LEMMA NextCases ==
  ASSUME RelayInv, [Next]_vars
  PROVE  \/ Configure \/ Connect \/ Disconnect
         \/ \E s \in Plays : Started(s) \/ Progressed(s) \/ PlayLate(s) \/ ClaimNowPlaying(s) \/ ClaimPlay(s)
         \/ Begin \/ ListNowPlaying \/ ListPlays \/ ReadNowPlaying \/ ReadPlay \/ Fetches
         \/ Announce \/ FinishNowPlaying \/ PurgeNowPlaying
         \/ Calls \/ PurgePlay \/ FinishPlay
         \/ StatementFails \/ Down \/ Start \/ UNCHANGED vars
<1>1. worker.todo \subseteq Plays
  BY DEF RelayInv, TypeOK, Workers
<1>2. CASE WorkerStep
  <2>1. ASSUME NEW s \in worker.todo, ClaimNowPlaying(s) \/ ClaimPlay(s)
        PROVE  \E t \in Plays : ClaimNowPlaying(t) \/ ClaimPlay(t)
    BY <1>1, <2>1
  <2>2. (\E p \in worker.batch : Fetch("tell", "call_np", p) \/ Fetch("play", "call", p)) => Fetches
    BY Zenon DEF Fetches
  <2>3. QED BY <1>2, <2>1, <2>2, Zenon DEF WorkerStep, Calls
<1>3. QED BY <1>2, Zenon DEF Next

LEMMA NextHolds ==
  ASSUME RelayInv, [Next]_vars
  PROVE  /\ worker' \in Workers /\ Shape(worker')
         /\ \A p \in ToAnnounce(worker') \ ToAnnounce(worker) :
              \E s \in Plays : ClaimNowPlaying(s) /\ row[s].np = "pending" /\ p = Life(s) /\ p \notin announced
         /\ \A p \in ToScrobble(worker') \ ToScrobble(worker) :
              \E s \in Plays : ClaimPlay(s) /\ May(s) /\ p = Life(s)
<1> DEFINE Goal ==
         /\ worker' \in Workers /\ Shape(worker')
         /\ \A p \in ToAnnounce(worker') \ ToAnnounce(worker) :
              \E s \in Plays : ClaimNowPlaying(s) /\ row[s].np = "pending" /\ p = Life(s) /\ p \notin announced
         /\ \A p \in ToScrobble(worker') \ ToScrobble(worker) :
              \E s \in Plays : ClaimPlay(s) /\ May(s) /\ p = Life(s)
<1> SUFFICES Goal
  OBVIOUS
<1>1. worker \in Workers /\ Shape(worker) /\ worker.todo \subseteq Plays
  BY DEF RelayInv, TypeOK, Workers
<1>2. HoldsLess => Goal
  BY DEF HoldsLess
<1>3. CASE worker' = worker
  BY <1>1, <1>2, <1>3 DEF HoldsLess
<1>4. CASE worker' \in {Rest, Off}
  BY <1>2, <1>4, RestHolds DEF Holds, HoldsLess
<1>5. CASE Begin
  BY <1>2, <1>5, BeginHolds DEF Holds, HoldsLess
<1>6. CASE ListNowPlaying \/ ListPlays
  BY <1>2, <1>6, ListHolds DEF Holds, HoldsLess
<1>7. ASSUME NEW s \in Plays, ClaimNowPlaying(s) PROVE Goal
  BY <1>7, ClaimNowPlayingHolds DEF Holds
<1>8. ASSUME NEW s \in Plays, ClaimPlay(s) PROVE Goal
  BY <1>8, ClaimPlayHolds DEF Holds
<1>9. CASE ReadNowPlaying \/ ReadPlay
  BY <1>2, <1>9, ReadHolds
<1>10. CASE Fetches
  BY <1>2, <1>10, FetchHolds DEF Fetches
<1>11. CASE Announce
  BY <1>2, <1>11, AnnounceHolds DEF Holds, HoldsLess
<1>12. CASE FinishNowPlaying
  <2>1. CASE worker' = Following("tell")
    BY <1>2, <1>12, <2>1, FollowingHolds DEF Holds, HoldsLess, FinishNowPlaying, At
  <2>2. CASE worker' = [worker EXCEPT !.at = "purge_np"]
    <3>1. worker.at = "finish_np" /\ "purge_np" \in Places
      BY <1>12 DEF FinishNowPlaying, At, Places
    <3>2. QED BY <1>2, <2>2, <3>1, MovesHolds DEF Holds, HoldsLess
  <2>3. QED BY <1>12, <2>1, <2>2 DEF FinishNowPlaying
<1>13. CASE PurgeNowPlaying
  BY <1>2, <1>13, FollowingHolds DEF Holds, HoldsLess, PurgeNowPlaying, At
<1>14. CASE Calls
  <2>1. PICK takes \in BOOLEAN, answer \in Answers : Scrobble(takes, answer)
    BY <1>14 DEF Calls
  <2>2. QED BY <1>2, <2>1, ScrobbleHolds DEF Holds, HoldsLess
<1>15. CASE PurgePlay
  <2>1. worker.at = "purge" /\ worker' = [worker EXCEPT !.at = "finish"] /\ "finish" \in Places
    BY <1>15 DEF PurgePlay, At, Places
  <2>2. QED BY <1>2, <2>1, MovesHolds DEF Holds, HoldsLess
<1>16. CASE FinishPlay
  BY <1>2, <1>16, FollowingHolds DEF Holds, HoldsLess, FinishPlay, At
<1>17. CASE StatementFails
  BY <1>2, <1>17, FailsHolds
<1>18. CASE Configure \/ Connect \/ Disconnect \/ UNCHANGED vars
  <2>1. worker' = worker
    BY <1>18 DEF Configure, Connect, Disconnect, vars
  <2>2. QED BY <1>3, <2>1
<1>19. ASSUME NEW s \in Plays, Started(s) \/ Progressed(s) \/ PlayLate(s) PROVE Goal
  <2>1. worker' = worker
    BY <1>19 DEF Started, Progressed, PlayLate
  <2>2. QED BY <1>3, <2>1
<1>20. CASE Down \/ Start
  <2>1. worker' \in {Rest, Off}
    BY <1>20 DEF Down, Start
  <2>2. QED BY <1>4, <2>1
<1> HIDE DEF Goal
<1>21. QED
  BY <1>1, <1>5, <1>6, <1>7, <1>8, <1>9, <1>10, <1>11, <1>12, <1>13, <1>14, <1>15, <1>16, <1>17, <1>18,
     <1>19, <1>20, NextCases

(* A row is inserted, or goes, or is claimed or finished by the worker.    *)
Inserts(t) == row[t].relay = "absent" /\ row'[t].relay = "pending" /\ ~row'[t].mine /\ life'[t] = life[t] + 1
Changes(t) ==
  /\ life'[t] = life[t]
  /\ row[t].np = "none" => row'[t].np = "none"
  /\ row'[t].np = "pending" => row[t].np = "pending"
  /\ \/ row'[t].relay = row[t].relay /\ row'[t].mine = row[t].mine
     \/ row'[t].relay = "absent" /\ ~row'[t].mine
     \/ row'[t].relay = row[t].relay /\ ~row'[t].mine /\ ToScrobble(worker) = {}
     \/ /\ ClaimPlay(t) /\ May(t)
        /\ row'[t].relay = "claimed" /\ row'[t].mine
     \/ /\ FinishPlay /\ worker.play[1] = t /\ row[t].relay = "claimed" /\ row[t].mine
        /\ ~row'[t].mine
        /\ row'[t].relay = IF worker.answer = "temporary" THEN "pending" ELSE "terminal"

LEMMA SameChanges ==
  ASSUME RelayInv, NEW t \in Plays, life' = life, Same(t) \/ Gone(t)
  PROVE  Changes(t)
BY DEF Same, Gone, Changes

LEMMA NextRows ==
  ASSUME RelayInv, [Next]_vars
  PROVE  /\ row' \in [Plays -> Session] /\ life' \in [Plays -> 0..MaxLives]
         /\ \A t \in Plays : Inserts(t) \/ Changes(t)
<1> DEFINE Goal ==
         /\ row' \in [Plays -> Session] /\ life' \in [Plays -> 0..MaxLives]
         /\ \A t \in Plays : Inserts(t) \/ Changes(t)
<1> SUFFICES Goal
  OBVIOUS
<1>1. /\ TypeOK /\ Shape(worker) /\ worker.todo \subseteq Plays
      /\ row \in [Plays -> Session] /\ life \in [Plays -> 0..MaxLives]
  BY DEF RelayInv, TypeOK, Workers
<1>2. ASSUME row' = row, life' = life PROVE Goal
  BY <1>1, <1>2, SameChanges DEF Same
<1>3. CASE Erase /\ life' = life
  BY <1>1, <1>3, EraseRows, SameChanges
<1>4. CASE Begin
  <2>1. /\ row' \in [Plays -> Session]
        /\ \A t \in Plays :
              \/ Gone(t)
              \/ row'[t].relay = row[t].relay /\ ~row'[t].mine /\ row'[t].np = row[t].np
    BY <1>1, <1>4, BeginRows
  <2>2. life' = life /\ ToScrobble(worker) = {}
    BY <1>4, BeginHolds DEF Begin
  <2>3. \A t \in Plays : Changes(t)
    BY <2>1, <2>2, SameChanges DEF Changes
  <2>4. QED BY <1>1, <2>1, <2>2, <2>3
<1>5. ASSUME NEW s \in Plays, Started(s) PROVE Goal
  <2>1. /\ row' \in [Plays -> Session] /\ life' \in [Plays -> 0..MaxLives]
        /\ Inserts(s)
        /\ \A t \in Plays : t # s => Same(t) /\ life'[t] = life[t]
    BY <1>1, <1>5, StartedRows DEF Inserts
  <2>2. \A t \in Plays : t # s => Changes(t)
    BY <2>1 DEF Same, Changes
  <2>3. QED BY <2>1, <2>2
<1>6. ASSUME NEW s \in Plays, Progressed(s) \/ PlayLate(s) PROVE Goal
  <2>1. life' = life
    BY <1>6 DEF Progressed, PlayLate
  <2>2. QED BY <1>1, <1>6, <2>1, ProgressedRows, SameChanges
<1>7. ASSUME NEW s \in Plays, ClaimNowPlaying(s) PROVE Goal
  <2>1. life' = life
    BY <1>7 DEF ClaimNowPlaying, Claim
  <2>2. /\ row' \in [Plays -> Session]
        /\ \A t \in Plays : t # s \/ row[s].np # "pending" => Same(t)
        /\ row[s].np = "pending" =>
             row'[s].relay = row[s].relay /\ row'[s].mine = row[s].mine /\ row'[s].np = "attempted"
    BY <1>1, <1>7, ClaimNowPlayingRows
  <2>3. \A t \in Plays : Changes(t)
    BY <2>1, <2>2, SameChanges DEF Changes
  <2>4. QED BY <1>1, <2>1, <2>2, <2>3
<1>8. ASSUME NEW s \in Plays, ClaimPlay(s) PROVE Goal
  <2>1. life' = life
    BY <1>8 DEF ClaimPlay, Claim
  <2>2. /\ row' \in [Plays -> Session]
        /\ \A t \in Plays : t # s \/ ~May(s) => Same(t)
        /\ May(s) => row'[s].relay = "claimed" /\ row'[s].mine /\ row'[s].np = row[s].np
    BY <1>1, <1>8, ClaimPlayRows
  <2>3. May(s) => Changes(s)
    BY <1>8, <2>1, <2>2 DEF Changes
  <2>4. \A t \in Plays : Changes(t)
    BY <2>1, <2>2, <2>3, SameChanges
  <2>5. QED BY <1>1, <2>1, <2>2, <2>4
<1>9. CASE FinishNowPlaying
  <2>1. life' = life
    BY <1>9 DEF FinishNowPlaying
  <2>2. /\ row' \in [Plays -> Session]
        /\ \A t \in Plays :
              /\ row'[t].relay = row[t].relay /\ row'[t].mine = row[t].mine
              /\ row[t].np \in {"none", "pending"} => row'[t].np = row[t].np
              /\ row'[t].np = "pending" => row[t].np = "pending"
    BY <1>1, <1>9, FinishNowPlayingRows
  <2>3. \A t \in Plays : Changes(t)
    BY <2>1, <2>2 DEF Changes
  <2>4. QED BY <1>1, <2>1, <2>2, <2>3
<1>10. CASE FinishPlay
  <2> DEFINE s == worker.play[1]
             kept == row[s].relay = "claimed" /\ row[s].mine
  <2>1. life' = life
    BY <1>10 DEF FinishPlay
  <2>2. /\ s \in Plays
        /\ row' \in [Plays -> Session]
        /\ \A t \in Plays : t # s \/ ~kept => Same(t)
        /\ kept => /\ ~row'[s].mine /\ row'[s].np = row[s].np
                   /\ row'[s].relay = IF worker.answer = "temporary" THEN "pending" ELSE "terminal"
    BY <1>1, <1>10, FinishPlayRows
  <2>3. kept => Changes(s)
    BY <1>10, <2>1, <2>2 DEF Changes
  <2> HIDE DEF s, kept
  <2>4. \A t \in Plays : Changes(t)
    BY <2>1, <2>2, <2>3, SameChanges
  <2>5. QED BY <1>1, <2>1, <2>2, <2>4
<1>11. CASE Disconnect \/ PurgeNowPlaying \/ PurgePlay
  <2>1. Erase /\ life' = life
    BY <1>11 DEF Disconnect, PurgeNowPlaying, PurgePlay, Purge
  <2>2. QED BY <1>3, <2>1
<1>12. CASE ListNowPlaying \/ ListPlays \/ ReadNowPlaying \/ ReadPlay \/ Announce
  BY <1>2, <1>12 DEF ListNowPlaying, ListPlays, List, ReadNowPlaying, ReadPlay, Read, Announce
<1>13. CASE Fetches
  BY <1>2, <1>13 DEF Fetches, Fetch
<1>14. CASE Calls
  BY <1>2, <1>14 DEF Calls, Scrobble
<1>15. CASE Configure \/ Connect \/ StatementFails \/ Down \/ Start \/ UNCHANGED vars
  BY <1>2, <1>15 DEF Configure, Connect, StatementFails, Down, Start, vars
<1> HIDE DEF Goal
<1>16. QED
  BY <1>1, <1>4, <1>5, <1>6, <1>7, <1>8, <1>9, <1>10, <1>11, <1>12, <1>13, <1>14, <1>15, NextCases

(* What Last.fm heard changes with a call, and doubt with one or with a    *)
(* step that loses its outcome.                                            *)
LEMMA NextHeard ==
  ASSUME RelayInv, [Next]_vars
  PROVE  /\ Announce \/ (announced' = announced /\ echo' = echo)
         /\ Calls \/ (taken' = taken /\ again' = again /\ answered' = answered /\ unread' = unread)
         /\ Announce \/ Calls \/ refused' = refused
         /\ Calls \/ StatementFails \/ Down \/ doubt' = doubt
<1> DEFINE Goal ==
         /\ Announce \/ (announced' = announced /\ echo' = echo)
         /\ Calls \/ (taken' = taken /\ again' = again /\ answered' = answered /\ unread' = unread)
         /\ Announce \/ Calls \/ refused' = refused
         /\ Calls \/ StatementFails \/ Down \/ doubt' = doubt
<1> SUFFICES Goal
  OBVIOUS
<1>1. CASE heardVars' = heardVars /\ (doubt' = doubt \/ StatementFails \/ Down)
  BY <1>1 DEF heardVars
<1>2. CASE Announce
  BY <1>2 DEF Announce
<1>3. CASE Calls
  BY <1>3 DEF Calls, Scrobble
<1>4. CASE Configure \/ Connect \/ Disconnect \/ Begin \/ StatementFails \/ Down \/ Start \/ UNCHANGED vars
  BY <1>1, <1>4 DEF Configure, Connect, Disconnect, Begin, StatementFails, Down, Start, vars
<1>5. ASSUME NEW s \in Plays, Started(s) \/ Progressed(s) \/ PlayLate(s) PROVE Goal
  BY <1>1, <1>5 DEF Started, Progressed, PlayLate
<1>6. ASSUME NEW s, ClaimNowPlaying(s) \/ ClaimPlay(s) PROVE Goal
  BY <1>1, <1>6 DEF ClaimNowPlaying, ClaimPlay, Claim
<1>7. CASE Fetches
  BY <1>1, <1>7 DEF Fetches, Fetch
<1>8. CASE ListNowPlaying \/ ListPlays \/ ReadNowPlaying \/ ReadPlay
  BY <1>1, <1>8 DEF ListNowPlaying, ListPlays, List, ReadNowPlaying, ReadPlay, Read
<1>9. CASE FinishNowPlaying \/ PurgeNowPlaying \/ PurgePlay \/ FinishPlay
  BY <1>1, <1>9 DEF FinishNowPlaying, PurgeNowPlaying, PurgePlay, Purge, FinishPlay
<1> HIDE DEF Goal
<1>10. QED
  <2>1. Calls => Goal
    BY <1>3 DEF Goal
  <2>2. Announce => Goal
    BY <1>2 DEF Goal
  <2>3. QED BY <1>4, <1>5, <1>6, <1>7, <1>8, <1>9, <2>1, <2>2, NextCases

(* Only these steps leave the worker in the middle of a call.              *)
Moves ==
  /\ worker'.play = worker.play /\ worker'.key = worker.key /\ worker'.answer = worker.answer
  /\ \/ worker.at = "finish_np" /\ worker'.at = "purge_np" /\ worker.answer = "invalid"
     \/ worker.at = "purge" /\ worker'.at = "finish"

LEMMA NextQuiet ==
  ASSUME RelayInv, [Next]_vars
  PROVE  worker' = worker \/ Quiet \/ Moves \/ Announce \/ Calls
           \/ (Fetches /\ worker'.at \in {"call_np", "call"} /\ worker'.key = conn)
<1> DEFINE Goal ==
         worker' = worker \/ Quiet \/ Moves \/ Announce \/ Calls
           \/ (Fetches /\ worker'.at \in {"call_np", "call"} /\ worker'.key = conn)
<1> SUFFICES Goal
  OBVIOUS
<1>1. CASE Configure \/ Connect \/ Disconnect \/ UNCHANGED vars
  BY <1>1 DEF Configure, Connect, Disconnect, vars
<1>2. ASSUME NEW s \in Plays, Started(s) \/ Progressed(s) \/ PlayLate(s) PROVE Goal
  BY <1>2 DEF Started, Progressed, PlayLate
<1>3. ASSUME NEW s \in Plays, ClaimNowPlaying(s) PROVE Goal
  BY <1>3, ClaimNowPlayingHolds
<1>4. ASSUME NEW s \in Plays, ClaimPlay(s) PROVE Goal
  BY <1>4, ClaimPlayHolds
<1>5. CASE Begin \/ ListNowPlaying \/ ListPlays \/ ReadNowPlaying \/ ReadPlay
  BY <1>5, BeginHolds, ListHolds, ReadHolds
<1>6. CASE Fetches
  BY <1>6, FetchHolds DEF Fetches
<1>7. CASE FinishNowPlaying
  <2>1. CASE worker' = Following("tell")
    BY <1>7, <2>1, FollowingHolds DEF FinishNowPlaying, At
  <2>2. CASE worker.answer = "invalid" /\ worker' = [worker EXCEPT !.at = "purge_np"]
    <3>1. worker.at = "finish_np" /\ "purge_np" \in Places
      BY <1>7 DEF FinishNowPlaying, At, Places
    <3>2. QED BY <2>2, <3>1, MovesHolds DEF Moves
  <2>3. QED BY <1>7, <2>1, <2>2 DEF FinishNowPlaying
<1>8. CASE PurgeNowPlaying \/ FinishPlay
  BY <1>8, FollowingHolds DEF PurgeNowPlaying, FinishPlay, At
<1>9. CASE PurgePlay
  <2>1. worker.at = "purge" /\ worker' = [worker EXCEPT !.at = "finish"] /\ "finish" \in Places
    BY <1>9 DEF PurgePlay, At, Places
  <2>2. QED BY <2>1, MovesHolds DEF Moves
<1>10. CASE StatementFails
  BY <1>10, FailsHolds DEF Moves
<1>11. CASE Down \/ Start
  <2>1. worker' \in {Rest, Off}
    BY <1>11 DEF Down, Start
  <2>2. QED BY <2>1, RestHolds
<1> HIDE DEF Goal
<1>12. Calls \/ Announce => Goal
  BY DEF Goal
<1>13. QED
  BY <1>1, <1>2, <1>3, <1>4, <1>5, <1>6, <1>7, <1>8, <1>9, <1>10, <1>11, <1>12, NextCases

(* The connection changes with these.                                      *)
LEMMA NextConns ==
  ASSUME RelayInv, [Next]_vars
  PROVE  connVars' = connVars \/ Connect \/ Disconnect \/ PurgeNowPlaying \/ PurgePlay
<1> DEFINE Goal == connVars' = connVars \/ Connect \/ Disconnect \/ PurgeNowPlaying \/ PurgePlay
<1> SUFFICES Goal
  OBVIOUS
<1>1. CASE Configure \/ StatementFails \/ Down \/ Start \/ UNCHANGED vars
  BY <1>1 DEF Configure, StatementFails, Down, Start, vars
<1>2. ASSUME NEW s \in Plays, Started(s) \/ Progressed(s) \/ PlayLate(s) \/ ClaimNowPlaying(s) \/ ClaimPlay(s) PROVE Goal
  BY <1>2 DEF Started, Progressed, PlayLate, ClaimNowPlaying, ClaimPlay, Claim
<1>3. CASE Begin \/ ListNowPlaying \/ ListPlays \/ ReadNowPlaying \/ ReadPlay
  BY <1>3 DEF Begin, ListNowPlaying, ListPlays, List, ReadNowPlaying, ReadPlay, Read
<1>4. CASE Fetches \/ Calls
  BY <1>4 DEF Fetches, Fetch, Calls, Scrobble
<1>5. CASE Announce \/ FinishNowPlaying \/ FinishPlay
  BY <1>5 DEF Announce, FinishNowPlaying, FinishPlay
<1>6. CASE Connect \/ Disconnect \/ PurgeNowPlaying \/ PurgePlay
  BY <1>6
<1> HIDE DEF Goal
<1>7. QED BY <1>1, <1>2, <1>3, <1>4, <1>5, <1>6, NextCases

-----------------------------------------------------------------------------
(* The invariant, part by part                                             *)

LEMMA InitInv == Init => RelayInv
<1> SUFFICES ASSUME Init PROVE RelayInv
  OBVIOUS
<1>1. /\ worker = Rest /\ row \in [Plays -> Session] /\ \A s \in Plays : row[s] = Absent
      /\ life \in [Plays -> 0..MaxLives]
  BY AbsentFacts, RelayAssumption DEF Init
<1>2. TypeOK
  BY <1>1, RestFacts, RelayAssumption DEF Init, TypeOK
<1>3. Shape(worker) /\ Inserted /\ Claims /\ Doubts /\ Announcements
  BY <1>1, RestFacts, AbsentFacts DEF Init, Inserted, Claims, Doubts, Announcements
<1>4. Outcomes /\ Keys
  BY <1>1, RestFacts DEF Init, Outcomes, Keys
<1>5. QED BY <1>2, <1>3, <1>4 DEF RelayInv

LEMMA HeardType ==
  ASSUME RelayInv, [Next]_vars
  PROVE  /\ taken' \cup again' \cup answered' \cup unread' \cup doubt' \cup announced' \cup echo' \subseteq Lives
         /\ refused' \subseteq refused \cup {worker.key}
         /\ refused' # refused => worker.at \in {"call", "call_np"}
<1>1. taken \cup again \cup answered \cup unread \cup doubt \cup announced \cup echo \subseteq Lives
  BY DEF RelayInv, TypeOK
<1>2. CASE Announce
  <2>1. worker.play \in Lives /\ worker.at = "call_np"
    BY <1>2 DEF RelayInv, Shape, Announce, At
  <2>2. QED BY <1>1, <1>2, <2>1 DEF Announce
<1>3. CASE Calls
  <2>1. PICK takes \in BOOLEAN, answer \in Answers : Scrobble(takes, answer)
    BY <1>3 DEF Calls
  <2>2. worker.play \in Lives /\ worker.at = "call"
    BY <2>1, ScrobbleHolds
  <2>3. QED BY <1>1, <2>1, <2>2 DEF Scrobble
<1>4. CASE StatementFails \/ Down
  BY <1>1, <1>4 DEF StatementFails, Down, Doubtful, heardVars
<1>5. QED BY <1>1, <1>2, <1>3, <1>4, NextHeard

LEMMA ConnType ==
  ASSUME RelayInv, [Next]_vars
  PROVE  /\ made' \in 0..MaxConns /\ conn' \in 0..made' /\ made <= made'
         /\ wronged' \cup overtaken' \subseteq 1..made'
<1>1. /\ made \in 0..MaxConns /\ conn \in 0..made /\ made \in Nat /\ conn \in Nat
      /\ wronged \cup overtaken \subseteq 1..made
  BY RelayAssumption DEF RelayInv, TypeOK
<1>2. CASE connVars' = connVars
  BY <1>1, <1>2 DEF connVars
<1>3. CASE Connect
  BY <1>1, <1>3, RelayAssumption DEF Connect
<1>4. CASE Disconnect
  BY <1>1, <1>4 DEF Disconnect, Erase
<1>5. CASE PurgeNowPlaying \/ PurgePlay
  BY <1>1, <1>5 DEF PurgeNowPlaying, PurgePlay, Purge, Erase
<1>6. QED BY <1>2, <1>3, <1>4, <1>5, NextConns

LEMMA SettingsType ==
  ASSUME RelayInv, [Next]_vars
  PROVE  configured' \in BOOLEAN /\ interruptions' \in 0..MaxInterruptions
<1> DEFINE Goal == configured' \in BOOLEAN /\ interruptions' \in 0..MaxInterruptions
<1> SUFFICES Goal
  OBVIOUS
<1>1. configured \in BOOLEAN /\ interruptions \in 0..MaxInterruptions
  BY DEF RelayInv, TypeOK
<1>2. CASE configured' = configured /\ interruptions' = interruptions
  BY <1>1, <1>2
<1>3. CASE Configure
  BY <1>1, <1>3 DEF Configure
<1>4. CASE StatementFails \/ Down
  BY <1>1, <1>4, RelayAssumption DEF StatementFails, Down, Interrupt
<1>5. CASE Connect \/ Disconnect \/ PurgeNowPlaying \/ PurgePlay \/ Start \/ UNCHANGED vars
  BY <1>2, <1>5 DEF Connect, Disconnect, PurgeNowPlaying, PurgePlay, Purge, Start, vars
<1>6. ASSUME NEW s \in Plays, Started(s) \/ Progressed(s) \/ PlayLate(s) \/ ClaimNowPlaying(s) \/ ClaimPlay(s) PROVE Goal
  BY <1>2, <1>6 DEF Started, Progressed, PlayLate, ClaimNowPlaying, ClaimPlay, Claim
<1>7. CASE Begin \/ ListNowPlaying \/ ListPlays \/ ReadNowPlaying \/ ReadPlay
  BY <1>2, <1>7 DEF Begin, ListNowPlaying, ListPlays, List, ReadNowPlaying, ReadPlay, Read
<1>8. CASE Fetches \/ Calls
  BY <1>2, <1>8 DEF Fetches, Fetch, Calls, Scrobble
<1>9. CASE Announce \/ FinishNowPlaying \/ FinishPlay
  BY <1>2, <1>9 DEF Announce, FinishNowPlaying, FinishPlay
<1> HIDE DEF Goal
<1>10. QED BY <1>3, <1>4, <1>5, <1>6, <1>7, <1>8, <1>9, NextCases

LEMMA TypeStep ==
  ASSUME RelayInv, [Next]_vars
  PROVE  TypeOK'
<1>1. worker' \in Workers /\ row' \in [Plays -> Session] /\ life' \in [Plays -> 0..MaxLives]
  BY NextHolds, NextRows
<1>2. refused' \subseteq 1..made'
  <2>1. refused \subseteq 1..made /\ made \in Nat /\ made' \in Nat /\ made <= made'
    BY ConnType, RelayAssumption DEF RelayInv, TypeOK
  <2>2. worker.at \in {"call", "call_np"} => worker.key \in 1..made
    BY <2>1 DEF RelayInv, TypeOK, Workers, Shape, Keys
  <2>3. 1..made \subseteq 1..made'
    BY <2>1
  <2>4. CASE refused' = refused
    BY <2>1, <2>3, <2>4
  <2>5. CASE refused' # refused
    <3>1. refused' \subseteq refused \cup {worker.key} /\ worker.at \in {"call", "call_np"}
      BY <2>5, HeardType
    <3>2. QED BY <2>1, <2>2, <2>3, <3>1
  <2>6. QED BY <2>4, <2>5
<1>3. QED BY <1>1, <1>2, ConnType, HeardType, SettingsType DEF TypeOK

LEMMA InsertedStep ==
  ASSUME RelayInv, [Next]_vars
  PROVE  Inserted'
<1>1. ASSUME NEW t \in Plays, life'[t] = 0
      PROVE  row'[t].relay = "absent" /\ row'[t].np = "none"
  <2>1. life[t] \in Nat /\ (life[t] = 0 => row[t].relay = "absent" /\ row[t].np = "none")
    BY RelayAssumption DEF RelayInv, TypeOK, Inserted
  <2>2. Changes(t)
    BY <1>1, <2>1, NextRows DEF Inserts
  <2>3. life[t] = 0 /\ row'[t].np = "none"
    BY <1>1, <2>1, <2>2 DEF Changes
  <2>4. row'[t].relay = "absent"
    BY <2>1, <2>2, <2>3 DEF Changes, May
  <2>5. QED BY <2>3, <2>4
<1>2. ASSUME NEW p \in ToAnnounce(worker') \cup ToScrobble(worker') \cup taken' \cup answered' \cup unread' \cup announced'
      PROVE  p[2] <= life'[p[1]]
  <2> DEFINE Old == ToAnnounce(worker) \cup ToScrobble(worker) \cup taken \cup answered \cup unread \cup announced
  <2>1. ASSUME NEW q \in Lives, q[2] <= life[q[1]] PROVE q[2] <= life'[q[1]]
    <3>1. q[1] \in Plays /\ q[2] \in Nat /\ life[q[1]] \in Nat /\ life'[q[1]] \in Nat
      BY NextRows, RelayAssumption DEF RelayInv, TypeOK, Lives
    <3>2. life'[q[1]] = life[q[1]] \/ life'[q[1]] = life[q[1]] + 1
      BY <3>1, NextRows DEF Inserts, Changes
    <3>3. QED BY <2>1, <3>1, <3>2
  <2>2. Old \subseteq Lives /\ \A q \in Old : q[2] <= life[q[1]]
    BY DEF RelayInv, TypeOK, Workers, Shape, Inserted, ToAnnounce, ToScrobble
  <2>3. CASE p \in Old
    BY <2>1, <2>2, <2>3
  <2>4. CASE \E s \in Plays : p = Life(s) /\ (row[s].np = "pending" \/ row[s].relay # "absent")
    <3>1. p \in Lives /\ p[2] = life[p[1]]
      BY <2>4, LifeFacts DEF Now
    <3>2. life[p[1]] \in Nat
      BY <3>1, RelayAssumption DEF RelayInv, TypeOK, Lives
    <3>3. QED BY <2>1, <3>1, <3>2
  <2>5. p \in ToAnnounce(worker') \ ToAnnounce(worker) => \E s \in Plays : p = Life(s) /\ row[s].np = "pending"
    BY NextHolds
  <2>6. p \in ToScrobble(worker') \ ToScrobble(worker) => \E s \in Plays : p = Life(s) /\ row[s].relay # "absent"
    BY NextHolds DEF May
  <2>7. p \in announced' => p \in Old
    <3>1. CASE Announce
      <4>1. announced' = announced \cup {worker.play} /\ worker.play \in ToAnnounce(worker)
        BY <3>1, AnnounceHolds DEF Announce
      <4>2. QED BY <4>1
    <3>2. QED BY <3>1, NextHeard
  <2>8. p \in taken' \cup answered' \cup unread' => p \in Old
    <3>1. CASE Calls
      <4>1. PICK takes \in BOOLEAN, answer \in Answers : Scrobble(takes, answer)
        BY <3>1 DEF Calls
      <4>2. worker.play \in ToScrobble(worker)
        BY <4>1, ScrobbleHolds
      <4>3. QED BY <4>1, <4>2 DEF Scrobble
    <3>2. QED BY <3>1, NextHeard
  <2> HIDE DEF Old
  <2>9. QED BY <2>3, <2>4, <2>5, <2>6, <2>7, <2>8 DEF Old
<1>3. QED BY <1>1, <1>2 DEF Inserted

(* What is not of a life yet to come is not of the row that is inserted.   *)
LEMMA Past ==
  ASSUME RelayInv, NEW p \in Lives, p[2] <= life[p[1]], Inserts(p[1])
  PROVE  ~Now(p)'
<1>1. p[1] \in Plays /\ p[2] \in Nat /\ life[p[1]] \in Nat
  BY RelayAssumption DEF RelayInv, TypeOK, Lives
<1>2. QED BY <1>1 DEF Inserts, Now

LEMMA HeldLives ==
  ASSUME RelayInv
  PROVE  \A p \in ToAnnounce(worker) \cup ToScrobble(worker) \cup taken \cup answered \cup unread \cup announced :
           p \in Lives /\ p[1] \in Plays /\ p[2] <= life[p[1]]
BY DEF RelayInv, TypeOK, Workers, Shape, Inserted, ToAnnounce, ToScrobble, Lives

LEMMA ClaimsStep ==
  ASSUME RelayInv, [Next]_vars
  PROVE  Claims'
<1> SUFFICES ASSUME NEW p \in ToScrobble(worker')
             PROVE  /\ Now(p)' /\ p[1] \in Rows' => row'[p[1]].relay = "claimed" /\ row'[p[1]].mine
                    /\ row'[p[1]].mine => Now(p)'
  BY DEF Claims
<1>1. CASE p \notin ToScrobble(worker)
  <2>1. PICK s \in Plays : ClaimPlay(s) /\ May(s) /\ p = Life(s)
    BY <1>1, NextHolds
  <2>2. p[1] = s /\ Now(p) /\ life' = life
    BY <2>1, LifeFacts DEF ClaimPlay, Claim
  <2>3. row'[s].relay = "claimed" /\ row'[s].mine
    BY <2>1, ClaimPlayRows DEF RelayInv
  <2>4. QED BY <2>2, <2>3 DEF Now
<1>2. CASE p \in ToScrobble(worker)
  <2> DEFINE t == p[1]
  <2>1. /\ p \in Lives /\ t \in Plays /\ p[2] <= life[t]
        /\ Now(p) /\ row[t].relay # "absent" => row[t].relay = "claimed" /\ row[t].mine
        /\ row[t].mine => Now(p)
    BY <1>2, HeldLives DEF RelayInv, Claims, Rows
  <2>2. CASE Inserts(t)
    BY <2>1, <2>2, Past DEF Inserts
  <2>3. CASE Changes(t)
    <3>1. Now(p)' <=> Now(p)
      BY <2>3 DEF Changes, Now
    <3>2. ~(ClaimPlay(t) /\ May(t))
      BY <1>2, <2>1, ClaimPlayHolds
    <3>3. ~(FinishPlay /\ worker.play[1] = t)
      <4>1. ASSUME FinishPlay, worker.play[1] = t PROVE FALSE
        <5>1. /\ worker.at = "finish" /\ worker.play \in ToScrobble(worker)
              /\ ToScrobble(worker') = ToScrobble(worker) \ {worker.play}
          BY <4>1, FollowingHolds DEF FinishPlay, At, ToScrobble, Holds
        <5>2. p = worker.play
          BY <1>2, <4>1, <5>1 DEF RelayInv, Shape
        <5>3. QED BY <5>1, <5>2
      <4>2. QED BY <4>1
    <3>4. \/ row'[t].relay = row[t].relay /\ row'[t].mine = row[t].mine
          \/ row'[t].relay = "absent" /\ ~row'[t].mine
      BY <1>2, <2>3, <3>2, <3>3 DEF Changes
    <3>5. QED BY <2>1, <3>1, <3>4 DEF Rows
  <2>4. QED BY <2>1, <2>2, <2>3, NextRows
<1>3. QED BY <1>1, <1>2

LEMMA AnnouncementsStep ==
  ASSUME RelayInv, [Next]_vars
  PROVE  Announcements'
<1>1. Announcements
  BY DEF RelayInv
<1>2. /\ echo' = {} /\ announced' \cap ToAnnounce(worker') = {}
      /\ announced' \subseteq announced \cup ToAnnounce(worker)
  <2>1. CASE Announce
    <3>1. /\ worker.play \in ToAnnounce(worker) /\ ToAnnounce(worker') = ToAnnounce(worker) \ {worker.play}
          /\ announced' = announced \cup {worker.play}
      BY <2>1, AnnounceHolds DEF Holds, Announce
    <3>2. echo' = {}
      BY <1>1, <2>1, <3>1 DEF Announce, Announcements
    <3>3. QED BY <1>1, <3>1, <3>2 DEF Announcements
  <2>2. CASE announced' = announced /\ echo' = echo
    <3>1. \A p \in ToAnnounce(worker') \ ToAnnounce(worker) : p \notin announced
      BY NextHolds
    <3>2. QED BY <1>1, <2>2, <3>1 DEF Announcements
  <2>3. QED BY <2>1, <2>2, NextHeard
<1>3. ASSUME NEW p \in announced' \cup ToAnnounce(worker'), Now(p)'
      PROVE  row'[p[1]].np # "pending"
  <2>1. CASE p \in announced \cup ToAnnounce(worker)
    <3>1. /\ p \in Lives /\ p[1] \in Plays /\ p[2] <= life[p[1]]
          /\ Now(p) => row[p[1]].np # "pending"
      BY <1>1, <2>1, HeldLives DEF Announcements
    <3>2. Changes(p[1])
      BY <1>3, <3>1, Past, NextRows
    <3>3. Now(p)
      BY <1>3, <3>2 DEF Changes, Now
    <3>4. QED BY <3>1, <3>2, <3>3 DEF Changes
  <2>2. CASE p \notin announced \cup ToAnnounce(worker)
    <3>1. PICK s \in Plays : ClaimNowPlaying(s) /\ row[s].np = "pending" /\ p = Life(s)
      BY <1>2, <2>2, NextHolds
    <3>2. row'[s].np = "attempted" /\ p[1] = s
      BY <3>1, ClaimNowPlayingRows, LifeFacts DEF RelayInv
    <3>3. QED BY <3>2
  <2>3. QED BY <2>1, <2>2
<1>4. QED BY <1>2, <1>3 DEF Announcements

(* A worker about to write an outcome writes it, or loses it, or waits.    *)
LEMMA FinishNext ==
  ASSUME RelayInv, [Next]_vars, worker.at = "finish"
  PROVE  worker' = worker \/ FinishPlay \/ StatementFails \/ Down
<1> DEFINE Goal == worker' = worker \/ FinishPlay \/ StatementFails \/ Down
<1> SUFFICES Goal
  OBVIOUS
<1>1. CASE Configure \/ Connect \/ Disconnect \/ UNCHANGED vars
  BY <1>1 DEF Configure, Connect, Disconnect, vars
<1>2. ASSUME NEW s \in Plays, Started(s) \/ Progressed(s) \/ PlayLate(s) PROVE Goal
  BY <1>2 DEF Started, Progressed, PlayLate
<1>3. ~\E s \in Plays : ClaimNowPlaying(s) \/ ClaimPlay(s)
  BY DEF ClaimNowPlaying, ClaimPlay, Claim, At
<1>4. ~(Begin \/ ListNowPlaying \/ ListPlays \/ ReadNowPlaying \/ ReadPlay \/ Fetches)
  BY DEF Begin, ListNowPlaying, ListPlays, List, ReadNowPlaying, ReadPlay, Read, Fetches, Fetch, At
<1>5. ~(Announce \/ FinishNowPlaying \/ PurgeNowPlaying \/ PurgePlay \/ Start)
  BY DEF Announce, FinishNowPlaying, PurgeNowPlaying, PurgePlay, Start, At
<1>6. ~Calls
  BY DEF Calls, Scrobble, At
<1> HIDE DEF Goal
<1>7. FinishPlay \/ StatementFails \/ Down => Goal
  BY DEF Goal
<1>8. QED BY <1>1, <1>2, <1>3, <1>4, <1>5, <1>6, <1>7, NextCases

(* A play that is sent to or with the worker was so before, or is claimed. *)
LEMMA StillDue ==
  ASSUME RelayInv, [Next]_vars, NEW p \in taken,
         (Now(p) /\ Open(p[1]))' \/ p \in ToScrobble(worker')
  PROVE  (Now(p) /\ Open(p[1])) \/ p \in ToScrobble(worker)
<1>1. p \in Lives /\ p[1] \in Plays /\ p[2] <= life[p[1]]
  BY HeldLives
<1>2. CASE p \in ToScrobble(worker')
  <2>1. CASE p \notin ToScrobble(worker)
    <3>1. PICK s \in Plays : ClaimPlay(s) /\ May(s) /\ p = Life(s)
      BY <1>2, <2>1, NextHolds
    <3>2. QED BY <3>1, LifeFacts DEF May, Open
  <2>2. QED BY <2>1
<1>3. CASE (Now(p) /\ Open(p[1]))'
  <2>1. Changes(p[1])
    BY <1>1, <1>3, Past, NextRows
  <2>2. Now(p)
    BY <1>3, <2>1 DEF Changes, Now
  <2>3. Open(p[1])
    BY <1>3, <2>1 DEF Changes, Open, May
  <2>4. QED BY <2>2, <2>3
<1>4. QED BY <1>2, <1>3

LEMMA CallDoubts ==
  ASSUME RelayInv, NEW takes \in BOOLEAN, NEW answer \in Answers,
         Scrobble(takes, answer)
  PROVE  /\ worker.play \in taken => worker.play \in doubt
         /\ \A p \in taken' \ doubt' :
              \/ p \in taken \ doubt
              \/ p = worker.play /\ worker'.at = "finish" /\ worker'.play = p /\ worker'.answer \in {"accepted", "unread"}
         /\ taken \subseteq taken' /\ doubt \subseteq doubt'
<1>1. /\ worker.play \in ToScrobble(worker) /\ worker.at = "call"
      /\ worker'.at = (IF answer = "invalid" THEN "purge" ELSE "finish")
      /\ worker'.play = worker.play /\ worker'.answer = answer
  BY ScrobbleHolds
<1>2. worker.play \in taken => worker.play \in doubt
  BY <1>1 DEF RelayInv, Doubts
<1>3. /\ taken' = IF takes THEN taken \cup {worker.play} ELSE taken
      /\ doubt' = IF takes /\ answer = "temporary" THEN doubt \cup {worker.play} ELSE doubt
      /\ answer \notin {"unread", "temporary"} => (takes <=> answer = "accepted")
      /\ answer # "invalid" \/ ~takes
  BY DEF Scrobble, Answers, Final
<1>4. QED BY <1>1, <1>2, <1>3

LEMMA DoubtsStep ==
  ASSUME RelayInv, [Next]_vars
  PROVE  Doubts'
<1> SUFFICES ASSUME NEW p \in taken' \ doubt',
                    (Now(p) /\ Open(p[1]))' \/ p \in ToScrobble(worker')
             PROVE  worker'.at = "finish" /\ worker'.play = p /\ worker'.answer \in {"accepted", "unread"}
  BY DEF Doubts
<1>1. CASE p \in taken \ doubt
  <2>1. /\ (Now(p) /\ Open(p[1])) \/ p \in ToScrobble(worker)
        /\ worker.at = "finish" /\ worker.play = p /\ worker.answer \in {"accepted", "unread"}
    BY <1>1, StillDue DEF RelayInv, Doubts
  <2>2. CASE worker' = worker
    BY <2>1, <2>2
  <2>3. CASE StatementFails \/ Down
    BY <1>1, <2>1, <2>3 DEF StatementFails, Down, Doubtful, At
  <2>4. CASE FinishPlay
    <3>1. p \notin ToScrobble(worker') /\ p \in ToScrobble(worker)
      BY <2>1, <2>4, FollowingHolds DEF FinishPlay, At, Holds, ToScrobble
    <3>2. /\ p[1] \in Plays
          /\ p[1] \in Rows /\ Now(p) => row[p[1]].relay = "claimed" /\ row[p[1]].mine
      BY <3>1, HeldLives DEF RelayInv, Claims
    <3>3. life' = life
      BY <2>4 DEF FinishPlay
    <3>4. Now(p) /\ Open(p[1])'
      BY <3>1, <3>3 DEF Now
    <3>5. TypeOK /\ Shape(worker)
      BY DEF RelayInv
    <3>6. CASE row[p[1]].relay = "claimed" /\ row[p[1]].mine
      <4>1. row'[p[1]].relay = "terminal"
        BY <2>1, <2>4, <3>5, <3>6, FinishPlayRows
      <4>2. QED BY <3>4, <4>1 DEF Open
    <3>7. CASE ~(row[p[1]].relay = "claimed" /\ row[p[1]].mine)
      <4>1. row'[p[1]].relay = row[p[1]].relay
        BY <2>1, <2>4, <3>2, <3>5, <3>7, FinishPlayRows DEF Same
      <4>2. QED BY <3>2, <3>4, <3>7, <4>1 DEF Open, Rows
    <3>8. QED BY <3>6, <3>7
  <2>5. QED BY <2>1, <2>2, <2>3, <2>4, FinishNext
<1>2. CASE p \notin taken \ doubt
  <2>1. CASE Calls
    BY <1>2, <2>1, CallDoubts DEF Calls
  <2>2. CASE ~Calls
    <3>1. taken' = taken /\ doubt \subseteq doubt'
      BY <2>2, NextHeard DEF StatementFails, Down, Doubtful
    <3>2. QED BY <1>2, <3>1
  <2>3. QED BY <2>1, <2>2
<1>3. QED BY <1>1, <1>2

LEMMA OutcomesStep ==
  ASSUME RelayInv, [Next]_vars
  PROVE  Outcomes'
<1>1. Outcomes
  BY DEF RelayInv
<1>2. answered \subseteq answered' /\ unread \subseteq unread'
  BY NextHeard DEF Calls, Scrobble
<1>3. CASE worker' = worker
  BY <1>1, <1>2, <1>3 DEF Outcomes
<1>4. CASE Quiet
  BY <1>4 DEF Outcomes, Quiet, Calling
<1>5. CASE Moves
  BY <1>1, <1>2, <1>5 DEF Outcomes, Moves
<1>6. CASE Announce
  BY <1>6, AnnounceHolds DEF Outcomes
<1>7. CASE Calls
  <2>1. PICK takes \in BOOLEAN, answer \in Answers : Scrobble(takes, answer)
    BY <1>7 DEF Calls
  <2>2. /\ worker'.at = (IF answer = "invalid" THEN "purge" ELSE "finish")
        /\ worker'.play = worker.play /\ worker'.answer = answer
        /\ answer # "temporary" => worker.play \in answered' \cup unread'
        /\ answer = "invalid" => worker.play \in answered'
    BY <2>1, ScrobbleHolds DEF Scrobble, Answers, Final
  <2>3. QED BY <2>2 DEF Outcomes
<1>8. QED BY <1>3, <1>4, <1>5, <1>6, <1>7, NextQuiet DEF Outcomes

LEMMA KeysStep ==
  ASSUME RelayInv, [Next]_vars
  PROVE  Keys'
<1>1. Keys /\ TypeOK /\ Shape(worker)
  BY DEF RelayInv
<1> DEFINE Keyed == {"call", "call_np", "finish_np", "purge_np", "purge"}
<1>2. wronged' \subseteq overtaken'
  <2>1. CASE connVars' = connVars \/ Connect \/ Disconnect
    BY <1>1, <2>1 DEF Keys, connVars, Connect, Disconnect
  <2>2. CASE PurgeNowPlaying \/ PurgePlay
    <3>1. /\ worker.at \in {"purge_np", "purge"} /\ overtaken' = overtaken
          /\ wronged' = IF conn # 0 /\ conn \notin refused THEN wronged \cup {conn} ELSE wronged
      BY <2>2 DEF PurgeNowPlaying, PurgePlay, Purge, At
    <3>2. wronged \subseteq overtaken /\ worker.key \in refused /\ (conn \in {0, worker.key} \/ conn \in overtaken)
      BY <1>1, <3>1 DEF Keys
    <3>3. QED BY <3>1, <3>2
  <2>3. QED BY <2>1, <2>2, NextConns
(* A connection that is made during a call is noted.                       *)
<1>3. ASSUME worker.at \in Keyed
      PROVE  worker.key <= made' /\ (conn' \in {0, worker.key} \/ conn' \in overtaken')
  <2>1. /\ made \in Nat /\ made' \in Nat /\ made <= made' /\ worker.key \in Nat
        /\ worker.key <= made /\ worker.key # 0
        /\ conn \in {0, worker.key} \/ conn \in overtaken
    BY <1>1, <1>3, ConnType, RelayAssumption DEF TypeOK, Workers, Keys, Shape
  <2>2. worker.key <= made'
    BY <2>1
  <2>3. CASE connVars' = connVars
    BY <2>1, <2>2, <2>3 DEF connVars
  <2>4. CASE Connect
    BY <2>1, <2>2, <2>4 DEF Connect
  <2>5. CASE Disconnect \/ PurgeNowPlaying \/ PurgePlay
    BY <2>2, <2>5 DEF Disconnect, PurgeNowPlaying, PurgePlay, Purge, Erase
  <2>6. QED BY <2>3, <2>4, <2>5, NextConns
<1>4. refused \subseteq refused'
  BY NextHeard DEF Announce, Calls, Scrobble
<1>5. worker'.at \in Keyed => worker'.key <= made' /\ (conn' \in {0, worker'.key} \/ conn' \in overtaken')
  <2>1. CASE worker' = worker \/ Moves
    BY <1>3, <2>1 DEF Moves
  <2>2. CASE Quiet
    BY <2>2 DEF Quiet, Calling
  <2>3. CASE Announce
    BY <1>3, <2>3, AnnounceHolds
  <2>4. CASE Calls
    BY <1>3, <2>4, ScrobbleHolds DEF Calls
  <2>5. CASE Fetches /\ worker'.key = conn
    <3>1. conn' = conn /\ made' = made
      BY <2>5 DEF Fetches, Fetch, connVars
    <3>2. conn <= made
      BY <1>1, RelayAssumption DEF TypeOK
    <3>3. QED BY <2>5, <3>1, <3>2
  <2>6. QED BY <2>1, <2>2, <2>3, <2>4, <2>5, NextQuiet
<1>6. worker'.at \in {"purge_np", "purge"} \/ (worker'.at = "finish_np" /\ worker'.answer = "invalid") =>
        worker'.key \in refused'
  <2>1. CASE worker' = worker \/ Moves
    BY <1>1, <1>4, <2>1 DEF Moves, Keys
  <2>2. CASE Quiet
    BY <2>2 DEF Quiet, Calling
  <2>3. CASE Announce
    BY <2>3, AnnounceHolds
  <2>4. CASE Calls
    <3>1. PICK takes \in BOOLEAN, answer \in Answers : Scrobble(takes, answer)
      BY <2>4 DEF Calls
    <3>2. /\ worker'.at = (IF answer = "invalid" THEN "purge" ELSE "finish") /\ worker'.key = worker.key
          /\ answer = "invalid" => worker.key \in refused'
      BY <3>1, ScrobbleHolds DEF Scrobble
    <3>3. QED BY <3>2
  <2>5. CASE worker'.at \in {"call_np", "call"}
    BY <2>5
  <2>6. QED BY <2>1, <2>2, <2>3, <2>4, <2>5, NextQuiet
<1>7. QED BY <1>2, <1>5, <1>6 DEF Keys

-----------------------------------------------------------------------------
(* The theorems                                                            *)

LEMMA InvStep == RelayInv /\ [Next]_vars => RelayInv'
<1> SUFFICES ASSUME RelayInv, [Next]_vars
             PROVE  RelayInv'
  OBVIOUS
<1>1. Shape(worker')
  BY NextHolds
<1>2. TypeOK' /\ Inserted' /\ Claims'
  BY TypeStep, InsertedStep, ClaimsStep
<1>3. Doubts' /\ Outcomes' /\ Announcements' /\ Keys'
  BY DoubtsStep, OutcomesStep, AnnouncementsStep, KeysStep
<1>4. QED BY <1>1, <1>2, <1>3 DEF RelayInv

LEMMA Invariance == Spec => []RelayInv
<1>1. Init => RelayInv
  BY InitInv
<1>2. RelayInv /\ [Next]_vars => RelayInv'
  BY InvStep
<1>3. QED BY <1>1, <1>2, PTL DEF Spec

(* The variables keep their types.                                         *)
THEOREM TypeCorrect == Spec => []TypeOK
<1>1. RelayInv => TypeOK
  BY DEF RelayInv
<1>2. QED BY <1>1, Invariance, PTL

(* No play session is announced twice: what is announced was pending when  *)
(* it was claimed, and is not pending again until it is inserted anew.     *)
THEOREM AnnouncesOnce == Spec => []AnnouncedOnce
<1>1. RelayInv => AnnouncedOnce
  BY DEF RelayInv, Announcements, AnnouncedOnce
<1>2. QED BY <1>1, Invariance, PTL

(* A connection that the worker deletes was called invalid by Last.fm, or  *)
(* was made while the worker was in the middle of a call.                  *)
THEOREM PurgesRefused == Spec => []PurgesOnlyRefused
<1>1. RelayInv => PurgesOnlyRefused
  BY DEF RelayInv, Keys, PurgesOnlyRefused
<1>2. QED BY <1>1, Invariance, PTL

-----------------------------------------------------------------------------
(* The relay implements ScrobblePromise                                    *)

(* The play sessions that are open, and those that are settled.            *)
Due  == {Life(s) : s \in {t \in Plays : row[t].relay \in {"pending", "claimed"}}}
Done == {Life(s) : s \in {t \in Plays : row[t].relay = "terminal"}}

LEMMA LifeSet ==
  ASSUME NEW f \in [Plays -> 0..MaxLives], NEW S \in SUBSET Plays, \A s \in S : f[s] # 0
  PROVE  LET T == {<<s, f[s]>> : s \in S}
         IN  T \subseteq Lives /\ \A p \in Lives : p \in T <=> p[2] = f[p[1]] /\ p[1] \in S
<1> DEFINE T == {<<s, f[s]>> : s \in S}
<1>1. ASSUME NEW s \in S PROVE <<s, f[s]>> \in Lives
  <2>1. f[s] \in 1..MaxLives
    BY RelayAssumption
  <2>2. QED BY <2>1 DEF Lives
<1>2. ASSUME NEW p \in Lives, p \in T PROVE p[2] = f[p[1]] /\ p[1] \in S
  <2>1. PICK s \in S : p = <<s, f[s]>>
    BY <1>2
  <2>2. QED BY <2>1
<1>3. ASSUME NEW p \in Lives, p[2] = f[p[1]], p[1] \in S PROVE p \in T
  <2>1. p = <<p[1], p[2]>>
    BY DEF Lives
  <2>2. QED BY <1>3, <2>1
<1>4. QED BY <1>1, <1>2, <1>3

DueFacts ==
  /\ Due \subseteq Lives /\ Done \subseteq Lives
  /\ \A p \in Lives : p \in Due <=> Now(p) /\ Open(p[1])
  /\ \A p \in Lives : p \in Done <=> Now(p) /\ row[p[1]].relay = "terminal"

LEMMA DueNow ==
  ASSUME NEW f \in [Plays -> 0..MaxLives], NEW r \in [Plays -> Session],
         \A s \in Plays : f[s] = 0 => r[s].relay = "absent"
  PROVE  LET due  == {<<s, f[s]>> : s \in {t \in Plays : r[t].relay \in {"pending", "claimed"}}}
             done == {<<s, f[s]>> : s \in {t \in Plays : r[t].relay = "terminal"}}
         IN  /\ due \subseteq Lives /\ done \subseteq Lives
             /\ \A p \in Lives : p \in due <=> p[2] = f[p[1]] /\ r[p[1]].relay \in {"pending", "claimed"}
             /\ \A p \in Lives : p \in done <=> p[2] = f[p[1]] /\ r[p[1]].relay = "terminal"
<1> DEFINE S == {t \in Plays : r[t].relay \in {"pending", "claimed"}}
           T == {t \in Plays : r[t].relay = "terminal"}
<1>1. /\ S \in SUBSET Plays /\ T \in SUBSET Plays
      /\ \A s \in S \cup T : f[s] # 0
      /\ \A p \in Lives : p[1] \in S <=> r[p[1]].relay \in {"pending", "claimed"}
      /\ \A p \in Lives : p[1] \in T <=> r[p[1]].relay = "terminal"
  BY DEF Lives
<1> HIDE DEF S, T
<1>2. LET due == {<<s, f[s]>> : s \in S}
      IN  due \subseteq Lives /\ \A p \in Lives : p \in due <=> p[2] = f[p[1]] /\ p[1] \in S
  BY <1>1, LifeSet
<1>3. LET done == {<<s, f[s]>> : s \in T}
      IN  done \subseteq Lives /\ \A p \in Lives : p \in done <=> p[2] = f[p[1]] /\ p[1] \in T
  BY <1>1, LifeSet
<1>4. QED BY <1>1, <1>2, <1>3 DEF S, T

LEMMA DueBefore == RelayInv => DueFacts
BY DueNow DEF RelayInv, TypeOK, Inserted, DueFacts, Due, Done, Life, Now, Open

LEMMA DueAfter == RelayInv' => DueFacts'
BY DueNow DEF RelayInv, TypeOK, Inserted, DueFacts, Due, Done, Life, Now, Open

(* The steps of the promise, in these words.                               *)
LEMMA OpenStep ==
  ASSUME NEW p \in Lives, p \notin Due \cup Done \cup taken \cup answered \cup unread,
         Due' = Due \cup {p}, Done' = Done,
         UNCHANGED <<taken, again, answered, unread, doubt>>
  PROVE  Promise!Next
<1>1. Promise!Open(p)
  BY DEF Promise!Open, Due, Done
<1>2. QED BY <1>1, Zenon DEF Promise!Next

LEMMA SendStep ==
  ASSUME NEW p \in Lives, NEW heard \in Promise!Heard, p \notin Done,
         \/ p \notin taken /\ again' = again
         \/ p \in taken /\ p \in doubt /\ again' = again \cup {p},
         taken' = taken \cup {p},
         Promise!Hear(p, heard),
         doubt' = (IF heard = "lost" THEN doubt \cup {p} ELSE doubt),
         Due' = Due, Done' = Done
  PROVE  Promise!Next
<1>1. Promise!Send(p, heard)
  BY DEF Promise!Send, Due, Done
<1>2. QED BY <1>1, Zenon DEF Promise!Next

LEMMA DeclineStep ==
  ASSUME NEW p \in Lives, NEW heard \in Promise!Heard, p \notin Done, Promise!Hear(p, heard),
         Due' = Due, Done' = Done, UNCHANGED <<taken, again, doubt>>
  PROVE  Promise!Next
<1>1. Promise!Decline(p, heard)
  BY DEF Promise!Decline, Due, Done
<1>2. QED BY <1>1, Zenon DEF Promise!Next

LEMMA ForgetStep ==
  ASSUME NEW p \in Lives, p \in taken, doubt' = doubt \cup {p},
         Due' = Due, Done' = Done, UNCHANGED <<taken, again, answered, unread>>
  PROVE  Promise!Next
<1>1. Promise!Forget(p)
  BY DEF Promise!Forget, Due, Done
<1>2. QED BY <1>1, Zenon DEF Promise!Next

LEMMA SettleStep ==
  ASSUME NEW p \in Lives, p \in Due, p \in answered \cup unread, Due' = Due \ {p}, Done' = Done \cup {p},
         UNCHANGED <<taken, again, answered, unread, doubt>>
  PROVE  Promise!Next
<1>1. Promise!Settle(p)
  BY DEF Promise!Settle, Due, Done
<1>2. QED BY <1>1, Zenon DEF Promise!Next

LEMMA DropStep ==
  ASSUME NEW gone \in SUBSET (Due \cup Done), gone # {}, Due' = Due \ gone, Done' = Done \ gone,
         UNCHANGED <<taken, again, answered, unread, doubt>>
  PROVE  Promise!Next
<1>1. Promise!Drop(gone)
  BY DEF Promise!Drop, Due, Done
<1>2. QED BY <1>1, Zenon DEF Promise!Next, Due, Done

LEMMA Stutters ==
  ASSUME Due' = Due, Done' = Done, UNCHANGED <<taken, again, answered, unread, doubt>>
  PROVE  UNCHANGED Promise!vars
BY DEF Promise!vars, Due, Done

LEMMA PromiseInit == Init => Promise!Init
<1> SUFFICES ASSUME Init PROVE Promise!Init
  OBVIOUS
<1>1. \A s \in Plays : row[s].relay = "absent"
  BY AbsentFacts DEF Init
<1>2. QED BY <1>1 DEF Init, Promise!Init

(* A call sends the play or has it declined, whatever is heard of it.      *)
LEMMA CallPromised ==
  ASSUME RelayInv, NEW takes \in BOOLEAN, NEW answer \in Answers,
         Scrobble(takes, answer)
  PROVE  Promise!Next \/ UNCHANGED Promise!vars
<1> DEFINE p == worker.play
<1>1. p \in Lives /\ p \in ToScrobble(worker) /\ worker.at = "call"
  BY ScrobbleHolds
<1>2. Due' = Due /\ Done' = Done
  BY DEF Scrobble, Due, Done, Life
<1>3. p \notin Done
  BY <1>1, DueBefore DEF DueFacts, RelayInv, Claims, Rows, Lives
<1>4. p \in taken => p \in doubt
  BY CallDoubts
<1>5. /\ answer \in Final => (takes <=> answer = "accepted")
      /\ taken' = IF takes THEN taken \cup {p} ELSE taken
      /\ again' = IF takes /\ p \in taken THEN again \cup {p} ELSE again
      /\ answered' = IF answer \in Final THEN answered \cup {p} ELSE answered
      /\ unread' = IF answer = "unread" THEN unread \cup {p} ELSE unread
      /\ doubt' = IF takes /\ answer = "temporary" THEN doubt \cup {p} ELSE doubt
  BY DEF Scrobble
<1> HIDE DEF p
<1> DEFINE heard == IF answer \in Final THEN "final" ELSE IF answer = "unread" THEN "unread" ELSE "lost"
<1>6. /\ heard \in Promise!Heard /\ Promise!Hear(p, heard)
      /\ heard = "lost" <=> answer = "temporary"
  BY <1>5 DEF Answers, Final, Promise!Heard, Promise!Hear
<1> HIDE DEF heard
<1>7. CASE takes
  <2>1. doubt' = (IF heard = "lost" THEN doubt \cup {p} ELSE doubt)
    BY <1>5, <1>6, <1>7
  <2>2. /\ taken' = taken \cup {p}
        /\ \/ p \notin taken /\ again' = again
           \/ p \in taken /\ p \in doubt /\ again' = again \cup {p}
    BY <1>4, <1>5, <1>7
  <2>3. QED BY <1>1, <1>2, <1>3, <1>6, <2>1, <2>2, SendStep
<1>8. CASE ~takes
  <2>1. UNCHANGED <<taken, again, doubt>>
    BY <1>5, <1>8
  <2>2. QED BY <1>1, <1>2, <1>3, <1>6, <2>1, DeclineStep
<1>9. QED BY <1>7, <1>8

(* A session that is inserted is one that was never open.                  *)
LEMMA StartedPromised ==
  ASSUME RelayInv, RelayInv', NEW s \in Plays, Started(s)
  PROVE  Promise!Next \/ UNCHANGED Promise!vars
<1> DEFINE p == <<s, life'[s]>>
<1>1. /\ row[s].relay = "absent" /\ row'[s].relay = "pending"
      /\ life'[s] = life[s] + 1 /\ life'[s] \in 0..MaxLives /\ life[s] \in 0..MaxLives
      /\ \A t \in Plays : t # s => row'[t].relay = row[t].relay /\ life'[t] = life[t]
  BY StartedRows DEF RelayInv, TypeOK, Same
<1>2. p \in Lives /\ p[1] = s /\ p[2] = life'[s]
  BY <1>1, RelayAssumption DEF Lives
<1>3. p[2] \in Nat /\ ~(p[2] <= life[p[1]])
  BY <1>1, <1>2, RelayAssumption
<1> HIDE DEF p
<1>4. p \notin taken \cup answered \cup unread
  BY <1>3, HeldLives
<1>5. DueFacts /\ DueFacts'
  BY DueBefore, DueAfter
<1>6. p \notin Due \cup Done
  BY <1>1, <1>2, <1>5 DEF DueFacts, Open
<1>7. \A q \in Lives : q \in Due' <=> q \in Due \/ q = p
  <2>1. \A q \in Lives : q[1] # s => (q \in Due' <=> q \in Due)
    BY <1>1, <1>5 DEF DueFacts, Now, Open, Lives
  <2>2. \A q \in Lives : q[1] = s => q \notin Due /\ (q \in Due' <=> q = p)
    BY <1>1, <1>2, <1>5 DEF DueFacts, Now, Open, Lives
  <2>3. QED BY <1>2, <2>1, <2>2
<1>8. \A q \in Lives : q \in Done' <=> q \in Done
  BY <1>1, <1>5 DEF DueFacts, Now, Lives
<1>9. Due' = Due \cup {p} /\ Done' = Done
  BY <1>2, <1>5, <1>7, <1>8 DEF DueFacts
<1>10. UNCHANGED <<taken, again, answered, unread, doubt>>
  BY DEF Started, heardVars
<1>11. QED BY <1>2, <1>4, <1>6, <1>9, <1>10, OpenStep

(* An outcome is written for the life that was sent, and answered.         *)
LEMMA FinishPromised ==
  ASSUME RelayInv, RelayInv', FinishPlay
  PROVE  Promise!Next \/ UNCHANGED Promise!vars
<1> DEFINE p == worker.play
           s == p[1]
           kept == row[s].relay = "claimed" /\ row[s].mine
<1>1. /\ s \in Plays
      /\ \A t \in Plays : t # s \/ ~kept => Same(t)
      /\ kept => row'[s].relay = IF worker.answer = "temporary" THEN "pending" ELSE "terminal"
  BY FinishPlayRows DEF RelayInv
<1>2. life' = life /\ UNCHANGED <<taken, again, answered, unread, doubt>>
  BY DEF FinishPlay, heardVars
<1>3. worker.at = "finish" /\ p \in ToScrobble(worker) /\ p \in Lives
  BY HeldLives DEF FinishPlay, At, ToScrobble
<1>4. DueFacts /\ DueFacts'
  BY DueBefore, DueAfter
<1>5. /\ worker.answer # "temporary" => p \in answered \cup unread
      /\ row[s].mine => Now(p)
  BY <1>3 DEF RelayInv, Outcomes, Claims
<1> HIDE DEF p
<1>6. CASE kept /\ worker.answer # "temporary"
  <2>1. Now(p) /\ p \in Due
    BY <1>3, <1>4, <1>5, <1>6 DEF DueFacts, Open
  <2>2. \A q \in Lives : (q \in Due' <=> q \in Due /\ q # p) /\ (q \in Done' <=> q \in Done \/ q = p)
    <3>1. \A q \in Lives : q[1] # s =>
            (q \in Due' <=> q \in Due) /\ (q \in Done' <=> q \in Done)
      BY <1>1, <1>2, <1>4 DEF DueFacts, Now, Open, Same, Lives
    <3>2. \A q \in Lives : q[1] = s => (Now(q) <=> q = p) /\ q \notin Due' /\ (q \in Done' <=> q = p)
      BY <1>1, <1>2, <1>3, <1>4, <1>6, <2>1 DEF DueFacts, Now, Open, Lives
    <3>3. \A q \in Lives : q[1] = s => q \notin Done /\ (q \in Due <=> q = p)
      BY <1>3, <1>4, <1>6, <2>1, <3>2 DEF DueFacts, Open
    <3>4. QED BY <3>1, <3>2, <3>3
  <2>3. Due' = Due \ {p} /\ Done' = Done \cup {p}
    BY <1>3, <1>4, <2>2 DEF DueFacts
  <2>4. QED BY <1>2, <1>3, <1>5, <1>6, <2>1, <2>3, SettleStep
<1>7. CASE ~(kept /\ worker.answer # "temporary")
  <2>1. \A t \in Plays : (Open(t)' <=> Open(t)) /\ (row'[t].relay = "terminal" <=> row[t].relay = "terminal")
    BY <1>1, <1>7 DEF Open, Same
  <2>2. \A q \in Lives : (q \in Due' <=> q \in Due) /\ (q \in Done' <=> q \in Done)
    BY <1>2, <1>4, <2>1 DEF DueFacts, Now, Lives
  <2>3. Due' = Due /\ Done' = Done
    BY <1>4, <2>2 DEF DueFacts
  <2>4. QED BY <1>2, <2>3, Stutters
<1>8. QED BY <1>6, <1>7

(* A step that inserts no session and finishes none can only drop some.    *)
LEMMA DropPromised ==
  ASSUME RelayInv, RelayInv', [Next]_vars, life' = life, ~FinishPlay,
         UNCHANGED <<taken, again, answered, unread, doubt>>
  PROVE  Promise!Next \/ UNCHANGED Promise!vars
<1> DEFINE gone == (Due \cup Done) \ (Due' \cup Done')
<1>1. DueFacts /\ DueFacts'
  BY DueBefore, DueAfter
<1>2. \A t \in Plays : (Open(t)' => Open(t)) /\ (row'[t].relay = "terminal" => row[t].relay = "terminal")
  <2>1. \A t \in Plays : life[t] \in Nat
    BY RelayAssumption DEF RelayInv, TypeOK
  <2>2. \A t \in Plays : ~Inserts(t)
    BY <2>1 DEF Inserts
  <2>3. QED BY <2>2, NextRows DEF Changes, Open, May
<1>3. Due' \subseteq Due /\ Done' \subseteq Done
  BY <1>1, <1>2 DEF DueFacts, Now, Lives
<1>4. Due \cap Done = {}
  BY <1>1 DEF DueFacts, Open
<1>5. Due' = Due \ gone /\ Done' = Done \ gone
  BY <1>3, <1>4
<1>6. gone \in SUBSET (Due \cup Done)
  OBVIOUS
<1> HIDE DEF gone
<1>7. CASE gone # {}
  BY <1>5, <1>6, <1>7, DropStep
<1>8. CASE gone = {}
  BY <1>5, <1>8, Stutters
<1>9. QED BY <1>7, <1>8

(* What the worker could not keep of an answer is in doubt.                *)
LEMMA LostPromised ==
  ASSUME RelayInv, StatementFails \/ Down
  PROVE  Promise!Next \/ UNCHANGED Promise!vars
<1>1. Due' = Due /\ Done' = Done /\ UNCHANGED <<taken, again, answered, unread>>
  BY DEF StatementFails, Down, Due, Done, Life, heardVars
<1>2. doubt' = doubt \/ (worker.play \in taken /\ doubt' = doubt \cup {worker.play})
  BY DEF StatementFails, Down, Doubtful
<1>3. CASE doubt' = doubt
  BY <1>1, <1>3, Stutters
<1>4. CASE worker.play \in taken /\ doubt' = doubt \cup {worker.play}
  <2>1. worker.play \in Lives
    BY <1>4, HeldLives
  <2>2. QED BY <1>1, <1>4, <2>1, ForgetStep
<1>5. QED BY <1>2, <1>3, <1>4

(* Only an event inserts a session.                                        *)
LEMMA NextLife ==
  ASSUME RelayInv, [Next]_vars
  PROVE  life' = life \/ \E s \in Plays : Started(s)
<1> DEFINE Goal == life' = life \/ \E s \in Plays : Started(s)
<1> SUFFICES Goal
  OBVIOUS
<1>1. CASE Configure \/ Connect \/ Disconnect \/ StatementFails \/ Down \/ Start \/ UNCHANGED vars
  BY <1>1 DEF Configure, Connect, Disconnect, StatementFails, Down, Start, vars
<1>2. ASSUME NEW s \in Plays, Progressed(s) \/ PlayLate(s) \/ ClaimNowPlaying(s) \/ ClaimPlay(s) PROVE Goal
  BY <1>2 DEF Progressed, PlayLate, ClaimNowPlaying, ClaimPlay, Claim
<1>3. CASE Begin \/ ListNowPlaying \/ ListPlays \/ ReadNowPlaying \/ ReadPlay
  BY <1>3 DEF Begin, ListNowPlaying, ListPlays, List, ReadNowPlaying, ReadPlay, Read
<1>4. CASE Fetches \/ Calls
  BY <1>4 DEF Fetches, Fetch, Calls, Scrobble
<1>5. CASE Announce \/ FinishNowPlaying \/ FinishPlay \/ PurgeNowPlaying \/ PurgePlay
  BY <1>5 DEF Announce, FinishNowPlaying, FinishPlay, PurgeNowPlaying, PurgePlay, Purge
<1>6. ASSUME NEW s \in Plays, Started(s) PROVE Goal
  BY <1>6
<1> HIDE DEF Goal
<1>7. QED BY <1>1, <1>2, <1>3, <1>4, <1>5, <1>6, NextCases

LEMMA PromiseStep ==
  ASSUME RelayInv, [Next]_vars
  PROVE  [Promise!Next]_(Promise!vars)
<1> SUFFICES Promise!Next \/ UNCHANGED Promise!vars
  OBVIOUS
<1>1. RelayInv'
  BY InvStep
<1>2. CASE Calls
  BY <1>2, CallPromised DEF Calls
<1>3. CASE StatementFails \/ Down
  BY <1>3, LostPromised
<1>4. CASE \E s \in Plays : Started(s)
  BY <1>1, <1>4, StartedPromised
<1>5. CASE FinishPlay
  BY <1>1, <1>5, FinishPromised
<1>6. CASE ~Calls /\ ~StatementFails /\ ~Down /\ ~FinishPlay /\ ~\E s \in Plays : Started(s)
  <2>1. life' = life /\ UNCHANGED <<taken, again, answered, unread, doubt>>
    BY <1>6, NextLife, NextHeard
  <2>2. QED BY <1>1, <1>6, <2>1, DropPromised
<1>7. QED BY <1>2, <1>3, <1>4, <1>5, <1>6

(* The relay does to play sessions what it promises: one that is inserted  *)
(* is new, one is sent again only if the answer to an earlier attempt was  *)
(* lost, and one is settled only after an answer, which it could perhaps   *)
(* not read, whatever is deleted, inserted anew or restarted in between.   *)
THEOREM Promised == Spec => KeepsPromise
<1>1. Init => Promise!Init
  BY PromiseInit
<1>2. RelayInv /\ [Next]_vars => [Promise!Next]_(Promise!vars)
  BY PromiseStep
<1>3. QED BY <1>1, <1>2, Invariance, PTL DEF Spec, KeepsPromise, Promise!Spec


=============================================================================
