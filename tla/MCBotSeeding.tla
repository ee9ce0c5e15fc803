----------------------------- MODULE MCBotSeeding -----------------------------
EXTENDS BotSeeding, TLC

CONSTANTS h1, h2, b1, b2, g1, g2

MCPairings == {(g1 :> {h1, h2}) @@ (g2 :> {h1, h2}),
               (g1 :> {h1, b1}) @@ (g2 :> {h1, b2})}
MCNamesakes == {<<h1, b1>>}
MCFirstIds == (h1 :> 1) @@ (h2 :> 3) @@ (b1 :> 2) @@ (b2 :> 4)
MCOrder == <<b1, b2>>
MCCalibrated == (b1 :> 1300) @@ (b2 :> 1200)
MCStats == (b1 :> None) @@ (b2 :> <<3, 1>>)
================================================================================
