--------------------------- MODULE MCModelAccess ---------------------------
(* Three records of each kind per tier, limits below and at the default,   *)
(* the thresholds 0 and 1/2 (3/2 is refused), up to three attempts.        *)
EXTENDS ModelAccess

MCThresholds == {<<0, 1>>, <<1, 2>>, <<3, 2>>}
MCDefaultThreshold == <<1, 10>>
=============================================================================
