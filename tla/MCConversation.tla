--------------------------- MODULE MCConversation ---------------------------
EXTENDS Conversation
\* A buffer of three pieces holds a version line and one piece more.
OurRequests == {<<"m", NL>>, <<"x", NL>>, <<NL>>, <<"m", "x", "x", NL>>}
OurOpenings == {<<Version, NL>>, <<Version, NL, "hello", NL, NL>>, <<"ssh", NL>>}
EndedMotds == {<< >>, <<"hello", NL>>}
UnendedMotds == {<<"hello">>}
=============================================================================
