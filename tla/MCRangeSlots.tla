---------------------------- MODULE MCRangeSlots ----------------------------
(***************************************************************************)
(* Programs for RangeSlots.  FewLiveRanges restricts the check to         *)
(* programs whose ranges are never nested, in one frame or across frames: *)
(* at most MaxLive ranges are live at a time.  In those programs a range  *)
(* slot can run out only through ranges that were left without giving     *)
(* their slot back.                                                        *)
(***************************************************************************)
EXTENDS RangeSlots

MaxLive == 1

FewLiveRanges == Cardinality(LiveRanges) <= MaxLive
=============================================================================
