---------------------------- MODULE MCWebServer ----------------------------
(***************************************************************************)
(* The web thread, in one run: a behaviour is one of the part of it named  *)
(* by part, and the others stay as they were initialised.                  *)
(*                                                                         *)
(* Two feed clients: one can hold the feed while the other comes and goes, *)
(* and one can repeat its request.  URIs of up to four components, over a  *)
(* root with a folder and, in it, a file of the same name.  Web socket     *)
(* frames of no byte and of one, their lengths in the form with two bytes  *)
(* more.                                                                   *)
(***************************************************************************)
EXTENDS WebServer, UriPath, WebSocket

VARIABLE part

MCComponents ==
    {<<>>, <<".">>, <<".", ".">>, <<"a">>, <<".", "%2e">>, <<"a", "%2f">>, <<"%", "a">>}
MCFolders == {<<>>, <<"/", "a">>}
MCFiles == {<<"/", "a", "/", "a">>}

Parts == {"feed", "uri", "websocket"}

allVars == <<part, vars, uriVars, wsVars>>

AllInit ==
    /\ part \in Parts
    /\ Init /\ UriInit /\ WsInit
    /\ part # "uri" => request = <<>>

Only(p) ==
    /\ part = p /\ part' = p
    /\ p # "feed" => UNCHANGED vars
    /\ p # "uri" => UNCHANGED uriVars
    /\ p # "websocket" => UNCHANGED wsVars

AllNext ==
    \/ Only("feed") /\ Next
    \/ Only("uri") /\ UriNext
    \/ Only("websocket") /\ WsNext

(* The web thread runs on. *)
AllSpec == AllInit /\ [][AllNext]_allVars /\ WF_allVars(Only("feed") /\ Poll)
=============================================================================
