---------------------------- MODULE MCRenderQueue ----------------------------
EXTENDS RenderQueue, TLC

CONSTANTS w1, w2, j1, j2, j3

TwoWriters == j1 :> w1 @@ j2 :> w2 @@ j3 :> w1
=============================================================================
