---------------------------- MODULE MCScriptUpdate ----------------------------
EXTENDS ScriptUpdate
===============================================================================
