----------------------------- MODULE MCAnnouncer -----------------------------
(***************************************************************************)
(* A small instance of Announcer for TLC: two torrents that share the      *)
(* event loop and its stack, with trackers of each kind.                   *)
(***************************************************************************)
EXTENDS Announcer

CONSTANTS w1, w2

TwoTorrents == <<<<"http", "udp">>, <<"udp", "other">>>>

=============================================================================
