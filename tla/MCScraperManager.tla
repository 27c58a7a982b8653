-------------------------- MODULE MCScraperManager --------------------------
(* Three attempts on two cycles of two jobs; a queue that just holds the places *)
(* of one search.                                                               *)
EXTENDS ScraperManager
=============================================================================
