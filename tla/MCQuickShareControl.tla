----------------------- MODULE MCQuickShareControl -----------------------
(* One unit of time is five seconds: 10 s and 30 s are 2 and 6. *)
EXTENDS QuickShareControl

MCOffers == {<<{}, {}>>, <<{5}, {}>>, <<{8}, {10}>>, <<{}, {13}>>, <<{6}, {}>>, <<{0}, {4}>>}
=============================================================================
