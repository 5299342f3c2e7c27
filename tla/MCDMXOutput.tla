---------------------------- MODULE MCDMXOutput ----------------------------
(* One show universe on both protocols, two browsers, one command. *)
EXTENDS DMXOutput
CONSTANTS show, c1, c2, cmd

MCShows == {show}
MCRoutings == {{<<Artnet, show>>}, Streams}
MCIdentities == {{}, {<<Artnet, show>>}}
=============================================================================
