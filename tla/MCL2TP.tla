------------------------------- MODULE MCL2TP -------------------------------
(* L2TP with values of no bytes, of one, of as many as fit, and one more.  *)
EXTENDS L2TP

MCAVP(mandatory, hidden, attrType, length) ==
  [mandatory |-> mandatory, hidden |-> hidden, vendorID |-> 65535,
   attrType |-> attrType, value |-> [i \in 1 .. length |-> 7]]

MCAVPLists ==
  LET none == MCAVP(TRUE, FALSE, 0, 0)
      one == MCAVP(FALSE, TRUE, 513, 1)
      most == MCAVP(TRUE, TRUE, 255, 1017)
      more == MCAVP(FALSE, FALSE, 256, 1018) IN
  {<<>>, <<none>>, <<one>>, <<none, one>>, <<most, one>>, <<more>>}

=============================================================================
