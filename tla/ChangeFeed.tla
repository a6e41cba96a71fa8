----------------------------- MODULE ChangeFeed -----------------------------
(***************************************************************************)
(* The catalogue's change feed: what the server keeps, what a client that  *)
(* follows the feed holds, and what that client is promised.  CatalogSync  *)
(* says what writers and the client do.                                    *)
(***************************************************************************)
EXTENDS Naturals, FiniteSets

CONSTANTS
  Rows,      (* rows, numbered in the order of (kind, id)          *)
  PageSize,  (* the request's limit                                *)
  MaxSeq     (* bound: sequence numbers, but for a scan that waits *)

ASSUME SyncAssumption ==
  /\ Rows \subseteq Nat \ {0} /\ IsFiniteSet(Rows)
  /\ PageSize \in Nat \ {0} /\ MaxSeq \in Nat

VARIABLES
  seq,       (* settings row library_scan_seq                                *)
  stamp,     (* change_seq of each row, 0 before it exists                   *)
  missing,   (* rows that do not exist or are marked missing                 *)
  scan,      (* the scan: idle, wait (m.scanning is set), run, finish        *)
  scanSeq,   (* the number the running scan stamps with                      *)
  fenced,    (* its source was replaced or unlinked                          *)
  gap,       (* the number the resolver has taken and not yet used, or 0     *)
  client,    (* where the client or its request is                           *)
  since,     (* the version the client holds                                 *)
  busy,      (* Status.Scanning as this request has seen it                  *)
  page, gone,(* rows of this page still to be hydrated; those it saw missing *)
  upto,      (* the version of this request's snapshot                       *)
  cursor,    (* nextCursor: sequence and row; row 0 when there is none       *)
  stale,     (* history: rows whose copy at the client is not the current one *)
  began,     (* history: a scan began since this request's first look        *)
  overlap,   (* history: how writers overlapped the sync in progress         *)
  causes     (* history: the overlaps of the syncs that advanced the client  *)

-----------------------------------------------------------------------------
(* Between syncs, every row whose copy at the client is out of date is one *)
(* the next sync will return.                                              *)
Complete == client = "idle" => \A r \in stale : stamp[r] > since

(* A client that follows the flow never loses a change, if no scan and no  *)
(* resolver got between its pages, its looks or its bootstrap: not to the  *)
(* writers that take their number and stamp in one transaction, not to     *)
(* Configure and Unlink at any point, and not to a scan that either look   *)
(* sees (ListChanges, ChangesSnapshot).                                    *)
CompleteUnlessOverlapped == causes = {} => Complete

=============================================================================
