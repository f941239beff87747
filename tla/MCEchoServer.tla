---------------------------- MODULE MCEchoServer ----------------------------
(* Two clients in the lobby and the echo zone.                              *)
EXTENDS EchoServer

CONSTANTS s1, s2, a1

MCSessions == {s1, s2}
MCAccounts == {a1}
MCZones == {Lobby, Echo}
=============================================================================
