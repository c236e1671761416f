--------------------------- MODULE MCGlobalState ---------------------------
EXTENDS GlobalState

TwoElevators == {"here", "there"}
=============================================================================
