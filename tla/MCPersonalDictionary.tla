------------------------ MODULE MCPersonalDictionary ------------------------
EXTENDS PersonalDictionary

=============================================================================
