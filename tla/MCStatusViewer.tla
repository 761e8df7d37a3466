--------------------------- MODULE MCStatusViewer ---------------------------
(* Instances of StatusViewer for TLC, with the user of the repository's    *)
(* test.                                                                   *)
EXTENDS StatusViewer

MCOneUser == {<<"amw">>}

Log(main, success, failed, kind) ==
    [main |-> main, cat |-> [c \in Migration_categories |-> main],
     success |-> success, failed |-> failed,
     messages |-> [k \in MessageKinds |-> IF k = kind THEN failed ELSE 0]]

MCContents == {Log("Completed", 2, 0, "other"),
               Log("Failed", 1, 2, "large"),
               Log("In Progress", 0, 0, "other"),
               Log("Completed", 199, 1, "nosubject"),
               Log("unknown", 0, 0, "other")}
=============================================================================
