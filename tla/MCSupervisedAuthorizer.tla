----------------------- MODULE MCSupervisedAuthorizer -----------------------
(* Instances of SupervisedAuthorizer for TLC: one auto-allowed Tool, two that  *)
(* ask.                                                                        *)
EXTENDS SupervisedAuthorizer

CONSTANTS t1, t2, read, write, exec

MCTurns == {t1, t2}
MCTools == {read, write, exec}
MCAutoAllow == {read}
=============================================================================
