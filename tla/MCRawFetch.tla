----------------------------- MODULE MCRawFetch -----------------------------
EXTENDS RawFetch, TLC

CONSTANTS small, large
MCUrls == {small, large}
MCSize == (small :> 1 @@ large :> 2)
=============================================================================
