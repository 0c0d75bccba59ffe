-------------------------- MODULE MCDirectoryLists --------------------------
(***************************************************************************)
(* DirectoryLists for TLC.                                                 *)
(***************************************************************************)
EXTENDS DirectoryLists

UsersAndGroups == <<"user", "group">>

\* The client is replaced in the behaviours with one list.
ReplacedOnce == <<2, 1>>

=============================================================================
