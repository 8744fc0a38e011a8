--------------------------- MODULE MCConversation ---------------------------
(* Two models, one of them in another zone; requests whose model output is *)
(* labelled below, at and above their own label.                           *)
EXTENDS Conversation

CONSTANTS near, far

MCCandidates == {near, far}
MCRemote == {far}
MCRequests ==
  [class : {"public", "internal"}, output : {"public", "internal", "confidential"}, policy : {"baseline", "custom"}]
=============================================================================
