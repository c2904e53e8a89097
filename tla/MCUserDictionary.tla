-------------------------- MODULE MCUserDictionary --------------------------
EXTENDS UserDictionary

\* One pack of two words: the second edit of an application may meet the limit.
MCPacks == {<<<<"a", 1>>, <<"b", 2>>>>}
=============================================================================
