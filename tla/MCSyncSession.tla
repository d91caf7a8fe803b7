---------------------------- MODULE MCSyncSession ----------------------------
EXTENDS SyncSession
CONSTANTS a, b, x

AllChoices == {"enable", "disable", "confirm", "join", "cloud", "decline",
               "keep", "use", "merge", "delete"}
=============================================================================
