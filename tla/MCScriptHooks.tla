--------------------------- MODULE MCScriptHooks ---------------------------
EXTENDS ScriptHooks
CONSTANTS gl, sc, h1, h2
=============================================================================
