--------------------------- MODULE MCMcuProtocol ---------------------------
(***************************************************************************)
(* Instances of McuProtocol for TLC.                                       *)
(***************************************************************************)
EXTENDS McuProtocol

\* Two parameters are polled; one of them is also written.
GoPolled == <<202, 707>>

\* A write of the polled parameter.
McuRequests == {[type |-> "write", id |-> 707]}
=============================================================================
