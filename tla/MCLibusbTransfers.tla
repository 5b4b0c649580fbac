------------------------ MODULE MCLibusbTransfers ------------------------
(* Instances of LibusbTransfers for TLC. *)
EXTENDS LibusbTransfers

CONSTANTS x1, x2

Fill(type, urbs, timeout, strict) ==
  [type |-> type, urbs |-> urbs, timeout |-> timeout, shortNotOk |-> strict]

\* Transfers of two URBs; one of three, of which more than one can be discarded;
\* two transfers whose timeouts differ.
PassShapes ==
  { x1 :> Fill("bulk", 2, 1, TRUE),
    x1 :> Fill("bulk", 3, 0, TRUE),
    x1 :> Fill("iso", 2, 1, FALSE),
    x1 :> Fill("control", 1, 1, TRUE) @@ x2 :> Fill("interrupt", 1, 2, FALSE) }

\* One transfer that a stall can end too early.
StallShapes == { x1 :> Fill("bulk", 3, 0, TRUE) }
=============================================================================
