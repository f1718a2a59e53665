--------------------------- MODULE MCClauseStorage ---------------------------
(* ClauseStorage on files of 64 bytes and more.                            *)
EXTENDS ClauseStorage

Record(type, nLits, nHints) == [type |-> type, nLits |-> nLits, nHints |-> nHints]

(* Records of 24 and 56 bytes; the second fills a new file.                *)
SmallRecords == {Record("DELETE", 0, 1), Record("ORDERED", 3, 3)}

(* A file that grows twice, one that cannot, one that grows once, the      *)
(* first of them not a number of whole pages.                              *)
ThreeFiles == <<200, 64, 128>>
=============================================================================
