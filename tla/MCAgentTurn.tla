---------------------------- MODULE MCAgentTurn ----------------------------
\* Instances of AgentTurn: responses that call nothing, more tools than
\* allowed that may run side by side, or compact_context and another tool.
EXTENDS AgentTurn
MCRooms == {0, 3, 6}
MCToolLists == {<<>>, <<"safe", "safe", "safe">>, <<"compact", "other">>}
=============================================================================
