--------------------------- MODULE MCDatabaseTasks ---------------------------
EXTENDS DatabaseTasks

\* The first and the third query come with a callback, the second does not.
MCAsking == {1, 3}
=============================================================================
