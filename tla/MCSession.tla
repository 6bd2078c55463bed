------------------------------ MODULE MCSession ------------------------------
(***************************************************************************)
(* One session with the streams a and v, and the calls that an application *)
(* makes together: one menu per behaviour.                                 *)
(***************************************************************************)
EXTENDS Session

MCStreams == {"a", "v"}
MCFirsts == {{"a"}, {"a", "v"}}
MCMenus ==
  {{"connect", "end"}, {"accept", "stop"}, {"accept", "hold"}, {"reject", "end"},
   {"add_streams", "cancel_proposal"}, {"add_streams", "hold"}, {"add_streams", "end"},
   {"remove_streams", "end"}, {"remove_streams", "hold"}, {"hold", "unhold"},
   {"accept_proposal", "end"}, {"accept_proposal", "hold"}, {"reject_proposal", "hold"},
   {"reject_proposal", "stop"}}
MCBare == {FALSE}
=============================================================================
