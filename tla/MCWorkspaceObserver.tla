------------------------- MODULE MCWorkspaceObserver -------------------------
EXTENDS WorkspaceObserver
=============================================================================
