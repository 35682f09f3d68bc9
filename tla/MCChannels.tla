----------------------------- MODULE MCChannels -----------------------------
(***************************************************************************)
(* Fiber programs for checking Channels.  c1 is a rendezvous channel, c2  *)
(* a bounded channel of capacity 1.                                        *)
(***************************************************************************)
EXTENDS Channels

CONSTANTS f1, f2, f3, f4, c1, c2, a, b, d, e, g, h

MCCap == [c \in Chans |-> IF c = c1 THEN 0 ELSE 1]

(* Matched exchange: two sends and two receives on the rendezvous c1 (one *)
(* of them a select), two sends then close on the bounded c2, drained by *)
(* a select and two receives, and a select-with-default send on c2 that  *)
(* may succeed, find c2 full, or find it closed.                          *)
MCProg ==
    [f \in Fibers |->
        CASE f = f1 -> << SendOp(c1, a), SendOp(c2, b), SendOp(c2, d), CloseOp(c2) >>
          [] f = f2 -> << RecvOp(c1), SelectOp(<< RecvOp(c2) >>, FALSE), SendOp(c2, h) >>
          [] f = f3 -> << SelectOp(<< RecvOp(c1) >>, FALSE), RecvOp(c2), RecvOp(c2) >>
          [] f = f4 -> << SendOp(c1, e), SelectOp(<< SendOp(c2, g) >>, TRUE) >>]

(* A sender completes on c1, then another fiber closes c1 before the      *)
(* receiver takes the value.                                              *)
MCProgCloseRace ==
    [f \in Fibers |->
        CASE f = f1 -> << SendOp(c1, a) >>
          [] f = f2 -> << CloseOp(c1) >>
          [] f = f3 -> << RecvOp(c1) >>
          [] f = f4 -> << >>]

(* A select over c1 and c2 marks c1 Ready, then takes the value of c2 and *)
(* leaves; a later sender on c1 completes with nobody receiving.          *)
MCProgSelectLeavesReady ==
    [f \in Fibers |->
        CASE f = f1 -> << SelectOp(<< RecvOp(c1), RecvOp(c2) >>, FALSE) >>
          [] f = f2 -> << SendOp(c2, b) >>
          [] f = f3 -> << SendOp(c1, a) >>
          [] f = f4 -> << >>]
=============================================================================
