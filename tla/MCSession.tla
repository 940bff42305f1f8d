----------------------------- MODULE MCSession -----------------------------
EXTENDS Session

\* Frames that are dispatched, skipped (another type, a wrong length) and
\* invalid (a length out of range), with bodies that look like headers when
\* they are read at a wrong offset.
MCFrames ==
  {<<5, NEW_ORDER, 9, 4, 3>>, <<4, CANCEL_ORDER, 0, 3>>, <<4, LOGON, 0, 0>>,
   <<4, NEW_ORDER, 0, 5>>, <<1, NEW_ORDER, 0>>}

\* One client that only sends new orders.
MCNewOrders == {<<5, NEW_ORDER, 9, 4, 3>>}
=============================================================================
