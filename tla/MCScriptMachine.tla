---------------------------- MODULE MCScriptMachine ----------------------------
EXTENDS ScriptMachine

CONSTANTS door, guard, alarm

\* Three scripts for door, one of them door itself and one with a script of its own.
MCRegistrations == {<<door, door>>, <<door, guard>>, <<door, alarm>>, <<alarm, guard>>}
=============================================================================
