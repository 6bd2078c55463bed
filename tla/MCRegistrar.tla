---------------------------- MODULE MCRegistrar ----------------------------
(***************************************************************************)
(* The registrar with a reactor thread that is late: notifications pile    *)
(* up, several reach _data_channel before _run reads it, and those it does *)
(* not read stay there.  At most MaxQueued commands and notifications may  *)
(* wait in the two channels.                                               *)
(***************************************************************************)
EXTENDS Registrar

CONSTANT MaxQueued

LateSpec ==
    Init /\ [][Next /\ Len(commands') + Len(data') <= MaxQueued]_vars

=============================================================================
