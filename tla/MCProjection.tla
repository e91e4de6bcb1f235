----------------------------- MODULE MCProjection -----------------------------
(* Projection.tla on a few recordings of one device. *)
EXTENDS Projection

A(ty, t) == [type |-> ty, ts |-> t, st |-> "locked"]
T(st, t) == [type |-> "session", ts |-> t, st |-> st]

Evenings ==
  {\* a sample and an enforcement record in one hour, a sample later
   <<A("sample", 0), A("audit", 1), A("sample", 6)>>,
   \* locked at the end of an hour, used in the next, locked again later
   <<T("locked", 1), T("active", 2), T("locked", 6)>>,
   \* locked and used again within one hour
   <<T("locked", 0), T("active", 1)>>}

\* A sample in each hour of the first day.
OneDay == {<<A("sample", 0), A("sample", 2)>>}
=============================================================================
