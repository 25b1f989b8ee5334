---------------------------- MODULE MCFGAClient ----------------------------
(* Constant values for the run of FGAClient: the calls that two callers make *)
(* on two tuples, among them a batch that names a tuple twice.               *)
EXTENDS FGAClient

Call(kind, ifNeeded, batch) == [kind |-> kind, ifNeeded |-> ifNeeded, batch |-> batch]

\* A caller with a batch and a rival that undoes its second tuple, or writes
\* it blindly; a check beside a batch that names a tuple twice.
MCJobs == { [p |-> Call("write", TRUE, <<"a", "b">>), q |-> Call("delete", TRUE, <<"b">>)],
            [p |-> Call("delete", TRUE, <<"a", "b">>), q |-> Call("write", FALSE, <<"b">>)],
            [p |-> Call("check", FALSE, <<>>), q |-> Call("write", TRUE, <<"a", "a">>)] }
=============================================================================
