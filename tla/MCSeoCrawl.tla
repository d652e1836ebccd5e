----------------------------- MODULE MCSeoCrawl -----------------------------
(* An instance of SeoCrawl for TLC: a site with a shared, a mutual and a   *)
(* deep link.                                                              *)
EXTENDS SeoCrawl, TLC

CONSTANTS home, a, b, c

MCLinks == home :> <<a, b>> @@ a :> <<c, home>> @@ b :> <<c>> @@ c :> <<a>>
=============================================================================
