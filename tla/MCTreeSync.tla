----------------------------- MODULE MCTreeSync -----------------------------
(* A hidden entry whose kind changes, a directory with a file and a link,  *)
(* and a file beside it, for two workers.                                  *)
EXTENDS TreeSync

AboveDef == [p \in Paths |-> IF p \in {3, 4} THEN {2} ELSE {}]

N(kind, ver, mode) == [kind |-> kind, ver |-> ver, mtime |-> ver, mode |-> mode]
None == Absent

\* .k, d, d/f, d/l, g
TreesDef ==
    << <<N("file", 1, "rw"), N("dir", 1, "rw"), N("file", 1, "ro"), N("link", 1, "rw"), N("file", 1, "rw")>>,
       <<N("link", 2, "rw"), N("dir", 2, "rw"), N("file", 2, "rw"), N("link", 1, "rw"), N("file", 1, "rw")>> >>

Fresh == <<None, None, None, None, None>>
Linked == [Fresh EXCEPT ![2] = N("link", 1, "rw")]
Old    == <<N("dir", 1, "rw"), N("dir", 1, "ro"), None, N("file", 1, "rw"), None>>
BeforeDef == {Fresh, Linked, Old}

O(recursive, links, perms, dry, ssh, star, rdma) ==
    [recursive |-> recursive, links |-> links, perms |-> perms, dry |-> dry,
     ssh |-> ssh, star |-> star, rdma |-> rdma]
OptionsDef ==
    { O(TRUE, TRUE, TRUE, FALSE, TRUE, TRUE, "auto"),
      O(TRUE, FALSE, FALSE, FALSE, FALSE, FALSE, "off"),
      O(FALSE, TRUE, TRUE, TRUE, TRUE, TRUE, "auto"),
      O(FALSE, TRUE, FALSE, FALSE, TRUE, FALSE, "require") }
=============================================================================
