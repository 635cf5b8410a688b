----------------------------- MODULE MCDirList -----------------------------
(* A small tree for DirList.tla: a directory in a directory, and names that *)
(* start with one or two dots.                                             *)
EXTENDS DirList

SmallTree == (<<>>             :> {<<".">>, <<".", ".">>, <<".", "a">>, <<"s">>})
          @@ (<< <<"s">> >>    :> {<<".">>, <<".", ".", "b">>})
=============================================================================
