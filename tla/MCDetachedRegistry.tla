------------------------ MODULE MCDetachedRegistry ------------------------
(***************************************************************************)
(* Two runs under one id: a paused run is resumed under its id, and the    *)
(* second run is managed, so that only the first can meet the soft cap.    *)
(***************************************************************************)
EXTENDS DetachedRegistry, TLC

CONSTANTS r1, r2, t1, c1, c2

Resumed == (r1 :> t1) @@ (r2 :> t1)
OneOwner == (r1 :> "o1") @@ (r2 :> "o1")
BothFirst == (c1 :> "o1") @@ (c2 :> "o1")
=============================================================================
