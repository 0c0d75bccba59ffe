------------------------- MODULE MCPermissionApply --------------------------
(***************************************************************************)
(* Instances of PermissionApply for TLC: a share with a file, a symlink    *)
(* and a directory with a file in it.                                      *)
(***************************************************************************)
EXTENDS PermissionApply

Paths == {"top", "file", "link", "dir", "deep"}
Kinds == [e \in Paths |-> CASE e \in {"top", "dir"} -> "dir"
                             [] e \in {"file", "deep"} -> "file"
                             [] OTHER -> "link"]
Parents == [e \in Paths \ {"top"} |-> IF e = "deep" THEN "dir" ELSE "top"]
Depths == [e \in Paths |-> IF e = "top" THEN 0 ELSE IF e = "deep" THEN 2 ELSE 1]
Plain == [owner |-> "old", acl |-> AclTable({"r"})]

Edit(op, perms, default) == [op |-> op, perms |-> perms, default |-> default]
Posix(path, scope, owner, mode, file_mode, ops) ==
  [kind |-> "posix", path |-> path, scope |-> scope, owner |-> owner, mode |-> mode,
   file_mode |-> file_mode, ops |-> ops]
Acl(path, scope, op) ==
  [kind |-> "acl", path |-> path, scope |-> scope, owner |-> "blank", mode |-> {},
   file_mode |-> {}, ops |-> <<op>>]

\* One post of any kind beside one of three.
SomeForms ==
  [a |-> {Posix("top", "all", "name", {"r"}, {}, <<>>),
          Posix("top", "single", "id", {"x"}, {"r"},
                <<Edit("mask", {"w"}, FALSE), Edit("add", {"r", "w"}, FALSE)>>),
          Posix("file", "all", "id", {"w"}, {}, <<Edit("add", {}, FALSE)>>),
          Posix("top", "single", "id", {"r", "s"}, {}, <<>>),
          Posix("dir", "all", "id", {"r"}, {"s"}, <<>>),
          Posix("dir", "none", "id", {"w"}, {}, <<Edit("add", {"r"}, TRUE)>>),
          Acl("top", "all", Edit("add", {"r"}, FALSE)),
          Acl("file", "single", Edit("add", {"r"}, TRUE))},
   b |-> {Posix("top", "single", "blank", {"r", "w"}, {"r", "x"}, <<>>),
          Acl("top", "all", Edit("edit", {"r"}, TRUE)),
          Acl("dir", "none", Edit("delete", {}, FALSE))}]

=============================================================================
