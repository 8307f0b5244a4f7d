-------------------------- MODULE MCScrapingService --------------------------
(***************************************************************************)
(* ScrapingService with four requests of one marketplace, two of whose     *)
(* pages have a listing in common, which one of them has twice, and sizes  *)
(* that fit each other as the defaults do.                                 *)
(***************************************************************************)
EXTENDS ScrapingService

CONSTANTS x, ml

MCMarketOf == <<ml, ml, ml, ml>>
MCPageOf == <<<<x>>, <<x, x>>, <<>>, <<>>>>
==============================================================================
