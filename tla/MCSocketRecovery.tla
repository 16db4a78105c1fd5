-------------------------- MODULE MCSocketRecovery --------------------------
(***************************************************************************)
(* Instances of SocketRecovery for TLC.  Three names for sockets: two may  *)
(* be open, and a third shows a socket that nobody holds.                  *)
(***************************************************************************)
EXTENDS SocketRecovery, TLC

CONSTANTS raids, follows, urlA, urlB

TwoSources == {raids, follows}
OneSource  == {raids}
TwoUrls    == {urlA, urlB}
OneUrl     == {urlA}
ThreeSockets == 1..3

SourcesAreAlike == Permutations(TwoSources)
=============================================================================
