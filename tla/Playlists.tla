------------------------------- MODULE Playlists -------------------------------
(***************************************************************************)
(* One playlist, changed by any client that may, and one client that reads *)
(* it page by page.  Rows are ordered by their position, a number, and a   *)
(* cursor is continued after by comparing the position's decimal text.     *)
(*                                                                         *)
(* An item's number stands for its random id; which of two ids is greater  *)
(* is left open.  All tracks are in the library; two digits are enough.    *)
(***************************************************************************)
EXTENDS Integers, FiniteSetsExt, SequencesExt

CONSTANTS
  Limit,            (* items of a page                                      *)
  MaxItems,         (* bound: items appended, below 100                     *)
  MaxRemovals       (* bound: items removed                                 *)

VARIABLES
  items,            (* playlist_items: records [position, item]             *)
  added, removed,   (* the counters behind the bounds                       *)
  reader,           (* the client: <<>>, or <<the cursor it goes on after>> *)
  got,              (* history: items it got since it began, in order       *)
  stayed            (* history: items that were there all the while         *)

vars == <<items, added, removed, reader, got, stayed>>

Start == [position |-> 0, item |-> 0]

(* cast(position as text), and how two such texts compare.                 *)
Text(n) == IF n < 10 THEN <<n>> ELSE <<n \div 10, n % 10>>
After(s, t) ==
  \/ IsStrictPrefix(t, s)
  \/ \E i \in DOMAIN s \cap DOMAIN t : s[i] > t[i] /\ \A j \in 1..(i - 1) : s[j] = t[j]

Greatest == Max({i.position : i \in items} \cup {0})

(* AppendPlaylistTracks inserts its tracks one statement each.             *)
AppendPlaylistTrack(n) ==
  /\ added < MaxItems /\ n = added + 1
  /\ items' = items \cup {[position |-> Greatest + 1, item |-> n]}
  /\ added' = n
  /\ UNCHANGED <<removed, reader, got, stayed>>

RemovePlaylistItem(i) ==
  /\ removed < MaxRemovals /\ removed' = removed + 1
  /\ items' = items \ {i}
  /\ stayed' = stayed \ {i}
  /\ UNCHANGED <<added, reader, got>>

-----------------------------------------------------------------------------
(* ListPlaylistItems                                                       *)

(* Of items at the cursor's position, added after it was removed, those    *)
(* with a greater id; an id is never the cursor's again.                   *)
Rest(cursor, greater) ==
  {i \in items : \/ cursor = Start
                 \/ After(Text(i.position), Text(cursor.position))
                 \/ i.position = cursor.position /\ i.item # cursor.item /\ greater}

InOrder(those) ==                  \* no two items share a position
  [k \in 1..Cardinality(those) |->
     CHOOSE i \in those : Cardinality({j \in those : j.position <= i.position}) = k]

Begin ==
  /\ reader = <<>>
  /\ reader' = <<Start>> /\ got' = <<>> /\ stayed' = items
  /\ UNCHANGED <<items, added, removed>>

NextPage ==
  /\ reader # <<>>
  /\ \E greater \in BOOLEAN :
       LET rest == InOrder(Rest(reader[1], greater))
           page == SubSeq(rest, 1, IF Len(rest) > Limit THEN Limit ELSE Len(rest))
       IN  /\ got' = got \o page
           /\ reader' = IF Len(rest) > Limit THEN <<page[Limit]>> ELSE <<>>
  /\ UNCHANGED <<items, added, removed, stayed>>

Init ==
  /\ items = {} /\ added = 0 /\ removed = 0
  /\ reader = <<>> /\ got = <<>> /\ stayed = {}

Next ==
  \/ \E n \in 1..MaxItems : AppendPlaylistTrack(n)
  \/ \E i \in items : RemovePlaylistItem(i)
  \/ Begin \/ NextPage

Spec == Init /\ [][Next]_vars

-----------------------------------------------------------------------------
(* "ListPlaylistItems pages by position keyset" (profile_data.go:173), for *)
(* "very long playlists" (openapi, listPlaylistTracks): when the last page *)
(* has been read, every item that was there from the first page to the     *)
(* last has come exactly once.                                             *)
EachItemOnce ==
  reader = <<>> =>
    \A i \in stayed : Cardinality({k \in DOMAIN got : got[k] = i}) = 1

=============================================================================
