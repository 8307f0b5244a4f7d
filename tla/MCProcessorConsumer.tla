------------------------- MODULE MCProcessorConsumer -------------------------
(***************************************************************************)
(* Small instances of ProcessorConsumer: two listings of one url whose     *)
(* prices are more than a factor five apart, the second outside the dollar *)
(* bounds.                                                                 *)
(***************************************************************************)
EXTENDS ProcessorConsumer

Sample(url, price, form) == [url |-> url, title |-> "t", price |-> price, form |-> form]

Samples == {Sample("u", 2, "whole"), Sample("u", 12, "wild")}
TwoPrices == {Sample("u", 2, "whole"), Sample("u", 3, "whole")}
=============================================================================
