----------------------------- MODULE MCFetcher -----------------------------
(* The fetcher under TLC: clocks with and without a lag. *)
EXTENDS FetcherProperties
MCLags == {0, 1}
=============================================================================
