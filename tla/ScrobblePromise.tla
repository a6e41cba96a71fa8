---------------------------- MODULE ScrobblePromise ----------------------------
(***************************************************************************)
(* What the Last.fm relay promises of play sessions, without a worker,     *)
(* leases or a table.  A session is opened once, sent while nobody knows   *)
(* of an answer, sent again only if an earlier answer could not be kept,   *)
(* and settled after a final answer, or after one that arrived but could   *)
(* not be read: then it may be settled although Last.fm never took it.  It *)
(* may be dropped at any time.                                             *)
(***************************************************************************)
CONSTANT Lives      (* play sessions; one that is inserted anew is another  *)

VARIABLES
  open,             (* to be sent                                           *)
  settled,          (* done with                                            *)
  taken,            (* Last.fm has it                                       *)
  again,            (* Last.fm has it twice                                 *)
  answered,         (* Last.fm gave a final answer                          *)
  unread,           (* Last.fm gave an answer that could not be read        *)
  doubt             (* Last.fm has it and the answer was lost or not kept   *)

vars == <<open, settled, taken, again, answered, unread, doubt>>

Heard == {"final", "unread", "lost"}     \* what becomes of an answer

Init ==
  /\ open = {} /\ settled = {} /\ taken = {} /\ again = {} /\ answered = {} /\ unread = {} /\ doubt = {}

Open(p) ==
  /\ p \notin open \cup settled \cup taken \cup answered \cup unread
  /\ open' = open \cup {p}
  /\ UNCHANGED <<settled, taken, again, answered, unread, doubt>>

Hear(p, heard) ==
  /\ answered' = IF heard = "final" THEN answered \cup {p} ELSE answered
  /\ unread' = IF heard = "unread" THEN unread \cup {p} ELSE unread

(* It may have been dropped while the call was out.                        *)
Send(p, heard) ==
  /\ p \notin settled
  /\ \/ p \notin taken /\ again' = again
     \/ p \in taken /\ p \in doubt /\ again' = again \cup {p}
  /\ taken' = taken \cup {p}
  /\ Hear(p, heard)
  /\ doubt' = IF heard = "lost" THEN doubt \cup {p} ELSE doubt
  /\ UNCHANGED <<open, settled>>

Decline(p, heard) ==
  /\ p \notin settled
  /\ Hear(p, heard)
  /\ UNCHANGED <<open, settled, taken, again, doubt>>

Forget(p) ==
  /\ p \in taken /\ doubt' = doubt \cup {p}
  /\ UNCHANGED <<open, settled, taken, again, answered, unread>>

Settle(p) ==
  /\ p \in open /\ p \in answered \cup unread
  /\ open' = open \ {p} /\ settled' = settled \cup {p}
  /\ UNCHANGED <<taken, again, answered, unread, doubt>>

Drop(gone) ==
  /\ gone # {}
  /\ open' = open \ gone /\ settled' = settled \ gone
  /\ UNCHANGED <<taken, again, answered, unread, doubt>>

Next ==
  \/ \E p \in Lives :
       \/ Open(p) \/ Forget(p) \/ Settle(p)
       \/ \E heard \in Heard : Send(p, heard) \/ Decline(p, heard)
  \/ \E gone \in SUBSET (open \cup settled) : Drop(gone)

Spec == Init /\ [][Next]_vars

=============================================================================
