-------------------------- MODULE MCProviderStream --------------------------
(* An instance of ProviderStream for TLC: text and calls that arrive whole, *)
(* in pieces, out of order or with gaps, and every way to end or to fail.   *)
EXTENDS ProviderStream

Call(index, named, args) == [index |-> index, id |-> named, name |-> named, args |-> args]
Tools(calls, finish) == Chunk("none", FALSE, FALSE, calls, finish)

MCPayloads ==
  {Other(kind) : kind \in OtherKinds} \cup
  {Chunk("assistant", TRUE, FALSE, <<>>, FALSE),
   Chunk("user", FALSE, FALSE, <<>>, FALSE),
   Chunk("none", TRUE, FALSE, <<>>, TRUE),
   Chunk("none", FALSE, TRUE, <<>>, FALSE),
   Chunk("none", FALSE, FALSE, <<>>, TRUE),
   Tools(<<Call(0, TRUE, "head")>>, FALSE),
   Tools(<<Call(0, FALSE, "tail"), Call(1, TRUE, "whole")>>, FALSE),
   Tools(<<Call(1, TRUE, "whole")>>, TRUE),
   Tools(<<Call(0, TRUE, "whole")>>, TRUE),
   Tools(<<Call(-1, TRUE, "whole")>>, FALSE)}
=============================================================================
