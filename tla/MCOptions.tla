---------------------------- MODULE MCOptions ----------------------------
(* Two changes, from a key with any profile: two edits of one editor, an   *)
(* edit beside a command, or a profile that moves under an open dialog.    *)
EXTENDS Options
=============================================================================
