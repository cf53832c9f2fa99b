---------------------------- MODULE MCRawFetch -----------------------------
(* Instances of RawFetch for TLC.                                          *)
EXTENDS RawFetch

(* Nothing, one short page, a short page between others, full pages.       *)
MCRemotes ==
  {<<>>, <<{2}>>, <<{1, 3}, {4}, {6}>>, <<{2}, {3, 5}>>, <<{1, 2}, {4, 5}>>}
============================================================================
