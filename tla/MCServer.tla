------------------------------ MODULE MCServer ------------------------------
EXTENDS Server, TLC

CONSTANTS r1, r2, r3, i1, i2

MCImagesOf == r1 :> {i1, i2} @@ r2 :> {} @@ r3 :> {}
=============================================================================
