---------------------------- MODULE MCToolGuards ----------------------------
EXTENDS ToolGuards
=============================================================================
