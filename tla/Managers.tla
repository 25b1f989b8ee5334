------------------------------ MODULE Managers ------------------------------
(***************************************************************************)
(* How a lifecycle manager is put together: the builder collects options    *)
(* and hands them to the manager of one cluster or of several, and          *)
(* SetupWithManager refuses what Reconcile could not work with.  The calls  *)
(* of the builder set one field each, so their order does not matter.       *)
(***************************************************************************)

Options == {"conditions", "spread", "readOnly", "limiter", "terminator", "initializer"}

\* options: the With... calls on the builder; cluster: which Build... is called;
\* shows: the interfaces that the instance implements.
Setups == [options : SUBSET Options, cluster : {"one", "many"},
           shows : SUBSET {"conditions", "spread"}]

\* What is in force in the manager that is built: BuildControllerRuntime does
\* not look at terminator and initializer.
Built(s) == IF s.cluster = "many" THEN s.options
            ELSE s.options \ {"terminator", "initializer"}

\* ValidateInterfaces, for the managers' optional parts.
InterfacesValid(s) == Built(s) \cap {"conditions", "spread"} \subseteq s.shows

\* SetupWithManagerBuilder returns an error.  A read-only manager of several
\* clusters with an initializer or terminator is accepted, and writes the status.
SetupRefuses(s) ==
  \/ ~InterfacesValid(s)
  \/ "readOnly" \in Built(s) /\ Built(s) \cap {"conditions", "spread"} # {}
=============================================================================
