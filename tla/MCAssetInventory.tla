-------------------------- MODULE MCAssetInventory --------------------------
(***************************************************************************)
(* TLC instances of AssetInventory: a host seen under two spellings.       *)
(***************************************************************************)
EXTENDS AssetInventory, TLC

CONSTANTS ip, bad, web, WEB, web_dot

OneName == web :> web @@ WEB :> web @@ web_dot :> web
LowerCase == web :> web @@ WEB :> web @@ web_dot :> web_dot
Both == [ip |-> ip, name |-> web]
Named == [ip |-> None, name |-> WEB]
Bad == [ip |-> bad, name |-> None]
Sent == {Both, Named, Bad}
Lists == {<<Both, Both>>, <<Bad, Named, Both>>}
AnyAccount == Permutations(Emails)
=============================================================================
