------------------------------- MODULE MCVfs -------------------------------
(***************************************************************************)
(* A small tree for Vfs: one program, the contract the system ships with,  *)
(* a file and a folder in the home, one under /oikos, one in the folder    *)
(* fsd owns and one path that leaves that folder again.                    *)
(***************************************************************************)
EXTENDS Vfs

MCManifest == [m \in Modules |-> "manifest"]
MCPactos == "idios" :> [path |-> <<"idios">>, read |-> TRUE, write |-> TRUE, exec |-> FALSE]
MCArgs == {<<"idios", "d">>, <<"idios", "d", "f">>, <<"oikos", "s">>,
           <<"nomos", "manifesto">>, <<"nomos", "..", "idios", "d">>}
MCTexts == {[tag |-> "a", len |-> 3]}
=============================================================================
