----------------------------- MODULE MCRenderLoop -----------------------------
EXTENDS RenderLoop
=============================================================================
