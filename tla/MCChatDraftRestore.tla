------------------------- MODULE MCChatDraftRestore -------------------------
(***************************************************************************)
(* Small instances of ChatDraftRestore: devices, sessions and texts are    *)
(* interchangeable.                                                        *)
(***************************************************************************)
EXTENDS ChatDraftRestore, TLC

Interchangeable ==
    Permutations(Device) \cup Permutations(Session) \cup Permutations(Text)
=============================================================================
