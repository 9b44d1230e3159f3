---------------------------- MODULE MCTracking -----------------------------
(***************************************************************************)
(* Instances of Tracking: a directory 10 with the files 20 and 21 and a    *)
(* directory 12, named ".d", with the file 22.                             *)
(***************************************************************************)
EXTENDS Tracking, TLC

CONSTANTS here

x == <<10, 20>>
y == <<10, 12, 22>>
k == <<10, 21>>

NoDots    == <<>>
Dots      == 12 :> 30
MCPaths   == {x, y, k}
MCDirs    == {<<10>>, <<10, 12>>}
MCPresent == {<<here, x>>, <<here, y>>, <<here, k>>, <<7, x>>}
MCDenied  == {k}
MCServers == {7}
MCFiles   == {<<here, x, "plain">>, <<here, y, "encrypt">>, <<here, k, "hash">>}
MCDirT    == {<<here, <<10>>, "plain">>, <<here, <<10>>, "local">>, <<here, <<10, 12>>, "plain">>, <<7, <<10>>, "plain">>}
MCArgs    == {<<10>>, y}

\* For the run about templates.
OnePath     == {x}
OneFile     == {<<here, x>>}
OneTemplate == {<<here, x, "template">>}
=============================================================================
