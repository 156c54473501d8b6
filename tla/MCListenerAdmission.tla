------------------------ MODULE MCListenerAdmission ------------------------
(* Model checking of ListenerAdmission.                                    *)
EXTENDS ListenerAdmission
=============================================================================
