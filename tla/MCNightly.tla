----------------------------- MODULE MCNightly -----------------------------
(***************************************************************************)
(* Three agents of two lines, two of them of one branch and one of HEAD, of  *)
(* a Rust, a Python and a .NET commit and one in which there is no agent;    *)
(* two jobs, of windows of one and two entries.                              *)
(***************************************************************************)
EXTENDS Nightly, TLC

MCLineOf == (1 :> "main") @@ (2 :> "head") @@ (3 :> "main")
MCTip0   == ("main" :> "x") @@ ("head" :> "y")
MCLangOf == ("x" :> "rust") @@ ("y" :> "python") @@ ("z" :> None) @@ ("w" :> "dotnet")

Results(f, described) == [passed |-> f, described |-> described,
                          all_passed |-> \A n \in DOMAIN f : f[n]]

MCPlaceholder == Results(("s1" :> FALSE) @@ ("s2" :> FALSE), {"s1", "s2"})

(* All pass; one fails; an older service describes none, and the file has     *)
(* one; nothing ran.                                                         *)
MCServed == {MCPlaceholder,
             Results(("s1" :> TRUE) @@ ("s2" :> TRUE), {"s1", "s2"}),
             Results(("s1" :> TRUE), {}),
             Results(("s1" :> TRUE) @@ ("s2" :> FALSE), {}),
             Results(<<>>, {})}

MCBindingLists == {<<"jsonrpc", "grpc">>, <<"jsonrpc", "jsonrpc">>}

MCReports == {{<<"must", "pass">>, <<"should", "fail">>}, {<<"must", "error">>}, {}}

MCLimit == ("itk" :> 1) @@ ("acts" :> 2)
=============================================================================
