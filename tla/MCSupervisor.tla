----------------------------- MODULE MCSupervisor -----------------------------
(* Two restarts allowed; ends enough to use them up, or to fail in between *)
(* with the plugin toggled or a probe hanging; the helper is taken away    *)
(* and built again.                                                        *)
EXTENDS Supervisor
=============================================================================
