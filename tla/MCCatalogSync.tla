--------------------------- MODULE MCCatalogSync ---------------------------
(* CatalogSync on a small instance: two rows, delivered one to a page. *)
EXTENDS CatalogSync

=============================================================================
