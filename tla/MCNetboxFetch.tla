--------------------------- MODULE MCNetboxFetch ---------------------------
(***************************************************************************)
(* Small instances of NetboxFetch for TLC.                                 *)
(***************************************************************************)
EXTENDS NetboxFetch

\* Nothing; a page that is not full; full pages only; a last page that is not
\* full.
MCContents == {{}, {2}, {1, 2, 4, 5}, {1, 2, 3, 4, 5}}
=============================================================================
