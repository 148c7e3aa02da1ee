-------------------------- MODULE MCThumbScheduler --------------------------
(* Two pools of two threads: that of a host with one core, where bulk      *)
(* admits fewer jobs than browsing, and one where it admits more.          *)
EXTENDS ThumbScheduler

Pool(b, k) == [browsing |-> b, bulk |-> k]
SmallPools == {Pool(2, 1), Pool(1, 2)}
=============================================================================
