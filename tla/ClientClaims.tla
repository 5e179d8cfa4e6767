---------------------------- MODULE ClientClaims ----------------------------
(***************************************************************************)
(* What comments and texts of the client say and the code does not do.      *)
(***************************************************************************)
EXTENDS ClientProperties

\* The chat header offers /exit to leave the chat (client_ui.cpp:230): the
\* client goes on after it.
ExitLeavesChat == main # "terminated"

\* The header names the partner of the chat (client_ui.cpp:228); what is typed
\* under it goes to that user.
HeaderNamesPartner ==
    chat # "none" /\ state = "Chatting" /\ inChat => chatTarget = shownTarget
=============================================================================
